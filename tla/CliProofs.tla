------------------------------- MODULE CliProofs -------------------------------
(***************************************************************************)
(* Proofs about the commands of `prod`, for any number of processes:       *)
(* publication is all or nothing (PublishPackage), an SDK that was         *)
(* generated undisturbed is its own and whole (WasmSdk), and what the root *)
(* commands report is what the file says (Roots).  They hold in every      *)
(* behaviour of Cli.                                                       *)
(***************************************************************************)
EXTENDS Cli, WellFoundedInduction, TLAPS

----------------------------------------------------------------------------
(* Publishing a package.                                                   *)

LEMMA InitInv == Init => IndInv
  BY PublishAssumption
  DEF Init, IndInv, TypeOK, PrivateStaging, StagingContents, NothingYet, OwnFiles, OutputWhole,
      OkMeansPublished, LostToSomething, Active, Running, Ended, Entry

\* A package is never empty, so a published one can be told from nothing.
LEMMA CompleteNonEmpty ==
    ASSUME NEW p \in Procs
    PROVE  Complete(p) # {} /\ Complete(p) = Prefix(p, Len(Package[p]))
  <1>1. Len(Package[p]) \in Nat /\ Len(Package[p]) > 0
    BY PublishAssumption
  <1>2. 1 \in 1 .. Len(Package[p])
    BY <1>1
  <1>3. [path |-> Package[p][1], by |-> p, whole |-> TRUE] \in Complete(p)
    BY <1>2 DEF Complete
  <1>4. QED BY <1>3 DEF Complete, Prefix

\* Files of a prefix are entries of their process.
LEMMA PrefixType ==
    ASSUME NEW p \in Procs, NEW n \in Nat, n <= Len(Package[p])
    PROVE  Prefix(p, n) \subseteq Entry /\ \A e \in Prefix(p, n) : e.by = p
  <1>1. \A i \in 1 .. n : Package[p][i] \in Paths
    BY PublishAssumption
  <1>2. ASSUME NEW e \in Prefix(p, n) PROVE e \in Entry /\ e.by = p
    <2>1. PICK i \in 1 .. n : e = [path |-> Package[p][i], by |-> p, whole |-> TRUE]
      BY DEF Prefix
    <2>2. QED BY <1>1, <2>1 DEF Entry
  <1>3. QED BY <1>2

\* Writing the next file of a prefix gives the next prefix, also when the file
\* was there already.
LEMMA PrefixGrows ==
    ASSUME NEW p \in Procs, NEW n \in Nat, n < Len(Package[p])
    PROVE  {e \in Prefix(p, n) : e.path # Package[p][n + 1]} \cup
             {[path |-> Package[p][n + 1], by |-> p, whole |-> TRUE]} = Prefix(p, n + 1)
  <1> DEFINE F(i) == [path |-> Package[p][i], by |-> p, whole |-> TRUE]
  <1>1. \A i : i \in 1 .. n + 1 <=> i \in 1 .. n \/ i = n + 1
    OBVIOUS
  <1>2. Prefix(p, n) = {F(i) : i \in 1 .. n} /\ Prefix(p, n + 1) = {F(i) : i \in 1 .. n + 1}
    BY DEF Prefix
  <1>3. \A i : F(i).path = Package[p][i]
    OBVIOUS
  <1>4. \A i : Package[p][i] = Package[p][n + 1] => F(i) = F(n + 1)
    OBVIOUS
  <1>5. ASSUME NEW e PROVE e \in {x \in {F(i) : i \in 1 .. n} : x.path # Package[p][n + 1]}
                                  \cup {F(n + 1)} <=> e \in {F(i) : i \in 1 .. n + 1}
    <2> HIDE DEF F
    <2>1. QED BY <1>1, <1>3, <1>4
  <1>6. QED BY <1>2, <1>5

----------------------------------------------------------------------------
(* Each kind of step keeps the invariant.                                  *)

\* A step of p that touches no directory and does not enter or forget staging.
LEMMA QuietStep ==
    ASSUME IndInv, NEW p \in Procs, NEW l \in Running \cup Ended,
           Goto(p, l), UNCHANGED <<dirs, tree, name, at>>,
           pc[p] \in Running,
           l \in {"check", "refused", "exists", "stage"} => pc[p] \in {"generate", "check"},
           l \notin {"generate", "write", "opened", "lost", "published"}
    PROVE  IndInv'
  <1>1. /\ pc' = [pc EXCEPT ![p] = l] /\ pc' \in [Procs -> Running \cup Ended]
        /\ \A q \in Procs : q # p => pc'[q] = pc[q]
        /\ pc'[p] = l
    BY DEF IndInv, TypeOK, Goto
  <1>2. /\ dirs' = dirs /\ tree' = tree /\ name' = name /\ at' = at
    OBVIOUS
  <1>3. TypeOK'
    BY <1>1, <1>2 DEF IndInv, TypeOK
  <1>4. \A q \in Procs : Active(q)' => Active(q)
    BY <1>1 DEF Active
  <1>5. PrivateStaging'
    BY <1>2, <1>4 DEF IndInv, PrivateStaging
  <1>6. StagingContents'
    BY <1>1, <1>2 DEF IndInv, StagingContents, Wrote, Item
  <1>7. NothingYet'
    BY <1>1, <1>2 DEF IndInv, NothingYet
  <1>8. OwnFiles'
    BY <1>1, <1>2, <1>4 DEF IndInv, OwnFiles
  <1>9. OutputWhole'
    BY <1>1, <1>2 DEF IndInv, OutputWhole, Running
  <1>10. OkMeansPublished' /\ LostToSomething'
    BY <1>1, <1>2 DEF IndInv, OkMeansPublished, LostToSomething, Complete
  <1>11. QED BY <1>3, <1>5, <1>6, <1>7, <1>8, <1>9, <1>10 DEF IndInv

\* A step of an active process that changes only its own staging directory.
LEMMA OutputKept ==
    ASSUME IndInv, NEW p \in Procs, Active(p),
           \A q \in Procs : q # p => pc'[q] = pc[q],
           pc'[p] # "published",
           pc'[p] = "lost" => ~CanRename,
           Output \in dirs => Output \in dirs', Output \in dirs' => Output \in dirs,
           tree'[Output] = tree[Output]
    PROVE  OutputWhole' /\ OkMeansPublished' /\ LostToSomething'
  <1>1. pc[p] # "published"
    BY DEF Active
  <1>2. OutputWhole'
    BY <1>1 DEF IndInv, OutputWhole, Complete
  <1>3. OkMeansPublished' /\ LostToSomething'
    BY DEF IndInv, OkMeansPublished, LostToSomething, Complete, CanRename
  <1>4. QED BY <1>2, <1>3

LEMMA CreateStagingInv ==
    ASSUME IndInv, NEW p \in Procs, NEW d \in Names, CreateStaging(p, d)
    PROVE  IndInv'
  <1>1. /\ pc' = [pc EXCEPT ![p] = "write"] /\ pc'[p] = "write" /\ pc[p] = "stage"
        /\ \A q \in Procs : q # p => pc'[q] = pc[q]
        /\ name'[p] = d /\ \A q \in Procs : q # p => name'[q] = name[q]
        /\ at' = at /\ d # Output /\ d \notin dirs
        /\ dirs' = dirs \cup {d} /\ tree[d] = {} /\ tree' = tree
    BY PublishAssumption DEF IndInv, TypeOK, CreateStaging, Goto, NothingYet
  <1>2. TypeOK'
    BY <1>1 DEF IndInv, TypeOK, CreateStaging, Running
  <1>3. at[p] = 0 /\ \A e \in Names \cup {Output} : \A f \in tree[e] : f.by # p
    BY <1>1 DEF IndInv, NothingYet
  <1>4. Active(p)' /\ \A q \in Procs : q # p => (Active(q)' <=> Active(q))
    BY <1>1 DEF Active
  <1>5. PrivateStaging'
    BY <1>1, <1>4 DEF IndInv, PrivateStaging
  <1>6. StagingContents'
    <2>1. Prefix(p, 0) = {} /\ Prefix(p, 0)' = {}
      <3>1. 1 .. 0 = {}
        OBVIOUS
      <3>2. QED BY <3>1 DEF Prefix
    <2>2. \A q \in Procs, n \in Nat : Prefix(q, n)' = Prefix(q, n)
      BY DEF Prefix
    <2>3. ASSUME NEW q \in Procs
          PROVE  /\ pc'[q] = "write" => tree'[name'[q]] = Prefix(q, at[q])
                 /\ pc'[q] = "opened" =>
                      /\ at[q] < Len(Package[q])
                      /\ Wrote(q, TRUE)' = Prefix(q, at[q] + 1)
      <3>1. CASE q = p
        BY <1>1, <1>3, <2>1, <3>1
      <3>2. CASE q # p
        BY <1>1, <3>2 DEF IndInv, StagingContents, Wrote, Item
      <3>3. QED BY <3>1, <3>2
    <2>4. QED BY <1>1, <2>3 DEF StagingContents, Prefix
  <1>7. NothingYet'
    BY <1>1 DEF IndInv, NothingYet
  <1>8. OwnFiles'
    BY <1>1, <1>3, <1>4 DEF IndInv, OwnFiles
  <1>9. OutputWhole' /\ OkMeansPublished' /\ LostToSomething'
    BY <1>1 DEF IndInv, OutputWhole, OkMeansPublished, LostToSomething, Complete
  <1>10. QED BY <1>2, <1>5, <1>6, <1>7, <1>8, <1>9 DEF IndInv

\* A step of an active process that rewrites its staging directory with its own
\* files and stays active or ends without publishing.
LEMMA StagingStep ==
    ASSUME IndInv, NEW p \in Procs, Active(p), NEW l \in Running \cup Ended, Goto(p, l),
           l \notin {"generate", "check", "stage", "refused", "exists", "published"},
           l = "lost" => ~CanRename,
           NEW kept \in SUBSET Entry, tree' = [tree EXCEPT ![name[p]] = kept],
           \A e \in kept : e.by = p,
           name' = name,
           \/ dirs' = dirs
           \/ dirs' = dirs \ {name[p]} /\ kept = {} /\ l \notin {"write", "opened"},
           at' \in [Procs -> Nat], at'[p] <= Len(Package[p]),
           \A q \in Procs : q # p => at'[q] = at[q],
           l = "write" => kept = Prefix(p, at'[p]),
           l = "opened" => /\ at'[p] < Len(Package[p])
                           /\ Wrote(p, TRUE)' = Prefix(p, at'[p] + 1)
    PROVE  IndInv'
  <1>1. /\ pc' = [pc EXCEPT ![p] = l] /\ pc'[p] = l /\ pc' \in [Procs -> Running \cup Ended]
        /\ \A q \in Procs : q # p => pc'[q] = pc[q]
    BY DEF IndInv, TypeOK, Goto
  <1>2. name[p] \in Names /\ name[p] \in dirs /\ name[p] # Output
    BY PublishAssumption DEF IndInv, PrivateStaging
  <1>3. /\ tree' \in [Names \cup {Output} -> SUBSET Entry] /\ tree'[name[p]] = kept
        /\ \A d \in Names \cup {Output} : d # name[p] => tree'[d] = tree[d]
    BY <1>2 DEF IndInv, TypeOK
  <1>4. TypeOK'
    BY <1>1, <1>3 DEF IndInv, TypeOK
  <1>5. /\ Active(p)' => dirs' = dirs
        /\ \A q \in Procs : Active(q)' => Active(q)
        /\ \A q \in Procs : q # p /\ Active(q) => name[q] # name[p]
    BY <1>1 DEF Active, IndInv, PrivateStaging
  <1>6. PrivateStaging'
    BY <1>2, <1>5 DEF IndInv, PrivateStaging
  <1>7. StagingContents'
    <2>1. \A q \in Procs, n \in Nat : Prefix(q, n)' = Prefix(q, n)
      BY DEF Prefix
    <2>2. ASSUME NEW q \in Procs
          PROVE  /\ pc'[q] = "write" => tree'[name[q]] = Prefix(q, at'[q])
                 /\ pc'[q] = "opened" =>
                      /\ at'[q] < Len(Package[q])
                      /\ Wrote(q, TRUE)' = Prefix(q, at'[q] + 1)
      <3>1. CASE q = p
        BY <1>1, <1>3, <3>1
      <3>2. CASE q # p
        <4>1. Active(q) => tree'[name[q]] = tree[name[q]]
          BY <1>3, <1>5, <3>2 DEF IndInv, TypeOK
        <4>2. QED BY <1>1, <3>2, <4>1 DEF IndInv, StagingContents, Wrote, Item, Active
      <3>3. QED BY <3>1, <3>2
    <2>3. QED BY <2>1, <2>2 DEF StagingContents, Prefix
  <1>8. NothingYet'
    <2>1. \A q \in Procs : pc'[q] \in {"generate", "check", "stage", "refused", "exists"} =>
            q # p /\ pc[q] = pc'[q] /\ at'[q] = at[q]
      BY <1>1
    <2>2. \A d \in Names \cup {Output} : \A e \in tree'[d] : e \in tree[d] \/ e.by = p
      BY <1>3
    <2>3. \A d \in Names \cup {Output} : d \notin dirs' => tree'[d] = {}
      BY <1>2, <1>3 DEF IndInv, NothingYet
    <2>4. QED BY <2>1, <2>2, <2>3 DEF IndInv, NothingYet
  <1>9. OwnFiles'
    BY <1>1, <1>2, <1>3, <1>5 DEF IndInv, OwnFiles
  <1>10. OutputWhole' /\ OkMeansPublished' /\ LostToSomething'
    BY <1>1, <1>2, <1>3, OutputKept
  <1>11. QED BY <1>4, <1>6, <1>7, <1>8, <1>9, <1>10 DEF IndInv

\* What an active process has in staging: its own files.
LEMMA OwnStaging ==
    ASSUME IndInv, NEW p \in Procs, Active(p)
    PROVE  /\ tree[name[p]] \in SUBSET Entry
           /\ at[p] \in Nat /\ at[p] <= Len(Package[p]) /\ Len(Package[p]) \in Nat
           /\ name[p] \in Names
    BY PublishAssumption DEF IndInv, TypeOK, PrivateStaging

LEMMA OpenFileInv ==
    ASSUME IndInv, NEW p \in Procs, OpenFile(p)
    PROVE  IndInv'
  <1>1. Active(p) /\ pc[p] = "write" /\ at[p] \in Nat /\ at[p] < Len(Package[p])
    BY DEF OpenFile, Active, IndInv, TypeOK
  <1>2. tree[name[p]] = Prefix(p, at[p])
    BY <1>1 DEF IndInv, StagingContents
  <1>3. Item(p) \in Paths
    BY <1>1, PublishAssumption DEF Item
  <1>4. Wrote(p, FALSE) \in SUBSET Entry /\ \A e \in Wrote(p, FALSE) : e.by = p
    <2>1. [path |-> Item(p), by |-> p, whole |-> FALSE] \in Entry
      BY <1>3 DEF Entry
    <2>2. Prefix(p, at[p]) \subseteq Entry /\ \A e \in Prefix(p, at[p]) : e.by = p
      BY <1>1, OwnStaging, PrefixType
    <2>3. ASSUME NEW e \in Wrote(p, FALSE) PROVE e \in Entry /\ e.by = p
      <3>1. e \in Prefix(p, at[p]) \/ e = [path |-> Item(p), by |-> p, whole |-> FALSE]
        BY <1>2 DEF Wrote
      <3>2. CASE e \in Prefix(p, at[p])
        BY <2>2, <3>2
      <3>3. CASE e = [path |-> Item(p), by |-> p, whole |-> FALSE]
        <4>1. e.by = p
          BY <3>3
        <4>2. QED BY <2>1, <3>3, <4>1
      <3>4. QED BY <3>1, <3>2, <3>3
    <2>4. QED BY <2>3
  <1>5. Wrote(p, TRUE)' = Prefix(p, at[p] + 1)
    <2>1. Item(p)' = Item(p) /\ name' = name
      BY DEF OpenFile, Item
    <2>2. tree'[name[p]] = Wrote(p, FALSE)
      BY <1>1, OwnStaging DEF OpenFile, IndInv, TypeOK
    <2>3. {e \in Wrote(p, FALSE) : e.path # Item(p)} = {e \in Prefix(p, at[p]) : e.path # Item(p)}
      BY <1>2 DEF Wrote
    <2>4. Wrote(p, TRUE)' = {e \in tree'[name[p]] : e.path # Item(p)} \cup
                             {[path |-> Item(p), by |-> p, whole |-> TRUE]}
      BY <2>1 DEF Wrote
    <2>5. QED BY <1>1, <2>2, <2>3, <2>4, PrefixGrows DEF Item
  <1>6. QED
    <2>1. /\ Goto(p, "opened") /\ tree' = [tree EXCEPT ![name[p]] = Wrote(p, FALSE)]
          /\ dirs' = dirs /\ name' = name /\ at' = at /\ "opened" \in Running \cup Ended
          /\ at \in [Procs -> Nat] /\ at[p] <= Len(Package[p])
      BY DEF OpenFile, Running, IndInv, TypeOK
    <2>2. QED BY <1>1, <1>4, <1>5, <2>1, StagingStep

LEMMA FinishFileInv ==
    ASSUME IndInv, NEW p \in Procs, FinishFile(p)
    PROVE  IndInv'
  <1>1. /\ Active(p) /\ pc[p] = "opened" /\ at[p] \in Nat /\ at[p] < Len(Package[p])
        /\ Len(Package[p]) \in Nat
        /\ Wrote(p, TRUE) = Prefix(p, at[p] + 1)
    <2>1. pc[p] = "opened" /\ Active(p)
      BY DEF FinishFile, Active
    <2>2. QED BY <2>1, OwnStaging DEF IndInv, StagingContents
  <1>2. at' \in [Procs -> Nat] /\ at'[p] = at[p] + 1 /\ \A q \in Procs : q # p => at'[q] = at[q]
    BY DEF FinishFile, IndInv, TypeOK
  <1>3. Wrote(p, TRUE) \in SUBSET Entry /\ \A e \in Wrote(p, TRUE) : e.by = p
    <2>1. at[p] + 1 \in Nat /\ at[p] + 1 <= Len(Package[p])
      BY <1>1
    <2>2. QED BY <1>1, <2>1, PrefixType
  <1>4. /\ Goto(p, "write") /\ tree' = [tree EXCEPT ![name[p]] = Wrote(p, TRUE)]
        /\ dirs' = dirs /\ name' = name /\ "write" \in Running \cup Ended
        /\ at'[p] <= Len(Package[p])
    BY <1>1, <1>2 DEF FinishFile, Running
  <1>5. QED BY <1>1, <1>2, <1>3, <1>4, StagingStep

\* Cleaning up and ending.
LEMMA GiveUpInv ==
    ASSUME IndInv, NEW p \in Procs, pc[p] = "write", NEW l \in {"unsafe", "io", "lost"},
           l = "lost" => ~CanRename,
           RemoveStaging(p), Goto(p, l), UNCHANGED <<name, at>>
    PROVE  IndInv'
  <1>1. /\ Active(p) /\ l \in Running \cup Ended /\ at \in [Procs -> Nat]
        /\ at[p] \in Nat /\ at[p] <= Len(Package[p]) /\ at' = at /\ name' = name
    BY DEF Active, Ended, IndInv, TypeOK
  <1>2. tree[name[p]] \in SUBSET Entry /\ \A e \in tree[name[p]] : e.by = p
    BY <1>1, PrefixType, OwnStaging DEF IndInv, StagingContents
  <1>3. PICK kept \in SUBSET tree[name[p]] :
          /\ tree' = [tree EXCEPT ![name[p]] = kept]
          /\ dirs' = dirs \/ (dirs' = dirs \ {name[p]} /\ kept = {})
    <2>1. CASE dirs' = dirs \ {name[p]} /\ tree' = [tree EXCEPT ![name[p]] = {}]
      <3>1. {} \in SUBSET tree[name[p]]
        OBVIOUS
      <3>2. QED BY <2>1, <3>1
    <2>2. CASE /\ UNCHANGED dirs
               /\ \E left \in SUBSET tree[name[p]] : tree' = [tree EXCEPT ![name[p]] = left]
      <3>1. PICK left \in SUBSET tree[name[p]] : tree' = [tree EXCEPT ![name[p]] = left]
        BY <2>2
      <3>2. dirs' = dirs
        BY <2>2
      <3>3. QED BY <3>1, <3>2
    <2>3. QED BY <2>1, <2>2 DEF RemoveStaging
  <1>4. kept \in SUBSET Entry /\ \A e \in kept : e.by = p
    BY <1>2, <1>3
  <1>5. QED BY <1>1, <1>3, <1>4, StagingStep

LEMMA PublishInv ==
    ASSUME IndInv, NEW p \in Procs, Publish(p)
    PROVE  IndInv'
  <1>1. /\ Active(p) /\ pc[p] = "write" /\ at[p] = Len(Package[p]) /\ name' = name /\ at' = at
        /\ CanRename
        /\ dirs' = (dirs \ {name[p]}) \cup {Output}
        /\ tree' = [tree EXCEPT ![Output] = tree[name[p]], ![name[p]] = {}]
    BY DEF Publish, Active
  <1>2. name[p] \in Names /\ name[p] \in dirs /\ name[p] # Output
    BY <1>1, PublishAssumption DEF IndInv, PrivateStaging
  <1>3. tree[name[p]] = Complete(p) /\ Complete(p) # {}
    BY <1>1, CompleteNonEmpty DEF IndInv, StagingContents
  <1>4. Complete(p) \in SUBSET Entry /\ \A e \in Complete(p) : e.by = p
    BY <1>1, <1>3, PrefixType, OwnStaging, CompleteNonEmpty
  <1>5. /\ tree' \in [Names \cup {Output} -> SUBSET Entry]
        /\ tree'[Output] = Complete(p) /\ tree'[name[p]] = {}
        /\ \A d \in Names : d # name[p] => tree'[d] = tree[d]
    BY <1>1, <1>2, <1>3, <1>4, PublishAssumption DEF IndInv, TypeOK
  <1>6. /\ pc' = [pc EXCEPT ![p] = "published"] /\ pc'[p] = "published"
        /\ pc' \in [Procs -> Running \cup Ended]
        /\ \A q \in Procs : q # p => pc'[q] = pc[q]
    BY DEF IndInv, TypeOK, Publish, Goto, Ended
  <1>7. TypeOK'
    BY <1>1, <1>5, <1>6 DEF IndInv, TypeOK
  <1>8. ~Active(p)' /\ \A q \in Procs : Active(q)' =>
          q # p /\ Active(q) /\ name[q] # name[p] /\ name[q] # Output
    BY <1>1, <1>6, PublishAssumption DEF Active, IndInv, PrivateStaging
  <1>9. PrivateStaging'
    BY <1>1, <1>2, <1>8 DEF IndInv, PrivateStaging
  <1>10. StagingContents'
    <2>1. ASSUME NEW q \in Procs
          PROVE  /\ pc'[q] = "write" => tree'[name[q]] = Prefix(q, at[q])
                 /\ pc'[q] = "opened" =>
                      /\ at[q] < Len(Package[q])
                      /\ Wrote(q, TRUE)' = Prefix(q, at[q] + 1)
      <3>1. CASE q = p
        BY <1>6, <3>1
      <3>2. CASE q # p /\ Active(q)
        <4>1. name[q] \in Names /\ name[q] # name[p]
          BY <1>1, <3>2 DEF IndInv, PrivateStaging
        <4>2. tree'[name[q]] = tree[name[q]]
          BY <1>5, <4>1
        <4>3. QED BY <1>1, <1>6, <3>2, <4>2 DEF IndInv, StagingContents, Wrote, Item
      <3>3. QED BY <1>6, <3>1, <3>2 DEF Active
    <2>2. QED BY <1>1, <2>1 DEF StagingContents, Prefix
  <1>11. NothingYet'
    <2>1. \A q \in Procs : pc'[q] \in {"generate", "check", "stage", "refused", "exists"} =>
            q # p /\ pc[q] = pc'[q]
      BY <1>6
    <2>2. \A d \in Names \cup {Output} : \A e \in tree'[d] : e \in tree[d] \/ e.by = p
      BY <1>4, <1>5
    <2>3. \A d \in Names \cup {Output} : d \notin dirs' => tree'[d] = {}
      BY <1>1, <1>2, <1>5 DEF IndInv, NothingYet
    <2>4. ASSUME NEW q \in Procs, pc'[q] \in {"generate", "check", "stage", "refused", "exists"}
          PROVE  at'[q] = 0 /\ \A d \in Names \cup {Output} : \A e \in tree'[d] : e.by # q
      <3>1. q # p /\ pc[q] \in {"generate", "check", "stage", "refused", "exists"}
        BY <2>1, <2>4
      <3>2. at[q] = 0 /\ \A d \in Names \cup {Output} : \A e \in tree[d] : e.by # q
        BY <3>1 DEF IndInv, NothingYet
      <3>3. QED BY <1>1, <2>2, <3>1, <3>2
    <2>5. QED BY <2>3, <2>4 DEF NothingYet
  <1>12. OwnFiles'
    <2>1. ASSUME NEW d \in Names \cap dirs', NEW e \in tree'[d]
          PROVE  e.by \in Procs /\ (Active(e.by)' => name[e.by] = d) /\ pc'[e.by] # "published"
      <3>1. d \in Names \cap dirs /\ d # name[p] /\ e \in tree[d]
        BY <1>1, <1>5, PublishAssumption
      <3>2. e.by \in Procs /\ (Active(e.by) => name[e.by] = d) /\ pc[e.by] # "published"
        BY <3>1 DEF IndInv, OwnFiles
      <3>3. e.by # p
        BY <1>1, <3>1, <3>2
      <3>4. QED BY <1>6, <1>8, <3>2, <3>3
    <2>2. QED BY <1>1, <2>1 DEF OwnFiles
  <1>13. \A q \in Procs : q # p => pc[q] \notin {"published", "lost"}
    <2>1. Output \in dirs => tree[Output] = {}
      BY <1>1 DEF CanRename
    <2>2. QED BY <2>1, CompleteNonEmpty DEF IndInv, OkMeansPublished, LostToSomething
  <1>14. OutputWhole' /\ OkMeansPublished' /\ LostToSomething'
    BY <1>1, <1>5, <1>6, <1>13 DEF OutputWhole, OkMeansPublished, LostToSomething, Complete
  <1>15. QED BY <1>7, <1>9, <1>10, <1>11, <1>12, <1>14 DEF IndInv

LEMMA StrangerInv ==
    ASSUME IndInv, StrangerCreates
    PROVE  IndInv'
  <1>1. PICK f \in SUBSET Paths :
          tree' = [tree EXCEPT ![Output] =
                     {[path |-> x, by |-> Stranger, whole |-> TRUE] : x \in f}]
    BY DEF StrangerCreates
  <1> DEFINE new == {[path |-> x, by |-> Stranger, whole |-> TRUE] : x \in f}
  <1>2. new \in SUBSET Entry /\ \A e \in new : e.by = Stranger
    <2>1. ASSUME NEW e \in new PROVE e \in Entry /\ e.by = Stranger
      <3>1. PICK x \in f : e = [path |-> x, by |-> Stranger, whole |-> TRUE]
        OBVIOUS
      <3>2. QED BY <3>1 DEF Entry
    <2>2. QED BY <2>1
  <1> HIDE DEF new
  <1>3. /\ Output \notin dirs /\ dirs' = dirs \cup {Output} /\ pc' = pc /\ name' = name /\ at' = at
        /\ tree' \in [Names \cup {Output} -> SUBSET Entry] /\ tree'[Output] = new
        /\ \A d \in Names : tree'[d] = tree[d]
    BY <1>1, <1>2, PublishAssumption DEF StrangerCreates, IndInv, TypeOK, new
  <1>4. TypeOK'
    BY <1>3 DEF IndInv, TypeOK
  <1>5. \A q \in Procs : Active(q)' <=> Active(q)
    BY <1>3 DEF Active
  <1>6. PrivateStaging'
    BY <1>3, <1>5 DEF IndInv, PrivateStaging
  <1>7. StagingContents'
    <2>1. ASSUME NEW q \in Procs
          PROVE  /\ pc[q] = "write" => tree'[name[q]] = Prefix(q, at[q])
                 /\ pc[q] = "opened" =>
                      /\ at[q] < Len(Package[q])
                      /\ Wrote(q, TRUE)' = Prefix(q, at[q] + 1)
      <3>1. Active(q) => tree'[name[q]] = tree[name[q]]
        BY <1>3 DEF IndInv, PrivateStaging
      <3>2. pc[q] = "write" => tree'[name[q]] = Prefix(q, at[q])
        BY <3>1 DEF IndInv, StagingContents, Active
      <3>3. ASSUME pc[q] = "opened"
            PROVE  at[q] < Len(Package[q]) /\ Wrote(q, TRUE)' = Prefix(q, at[q] + 1)
        <4>1. at[q] < Len(Package[q]) /\ Wrote(q, TRUE) = Prefix(q, at[q] + 1)
          BY <3>3 DEF IndInv, StagingContents
        <4>2. Wrote(q, TRUE)' = Wrote(q, TRUE)
          BY <1>3, <3>1, <3>3 DEF Wrote, Item, Active
        <4>3. QED BY <4>1, <4>2
      <3>4. QED BY <3>2, <3>3
    <2>2. QED BY <1>3, <2>1 DEF StagingContents, Prefix
  <1>8. NothingYet'
    <2>1. \A e \in new : e.by \notin Procs
      BY <1>2, PublishAssumption
    <2>2. \A d \in Names \cup {Output} : d \notin dirs' => d # Output /\ d \notin dirs
      BY <1>3
    <2>3. ASSUME NEW p \in Procs, NEW d \in Names \cup {Output},
                 \A e \in tree[d] : e.by # p, NEW e \in tree'[d]
          PROVE  e.by # p
      BY <1>3, <2>1, <2>3
    <2>4. \A d \in Names \cup {Output} : d \notin dirs' => tree'[d] = {}
      BY <1>3, <2>2 DEF IndInv, NothingYet
    <2>5. QED BY <1>3, <2>3, <2>4 DEF IndInv, NothingYet
  <1>9. OwnFiles'
    BY <1>3, <1>5, PublishAssumption DEF IndInv, OwnFiles
  <1>10. OutputWhole' /\ OkMeansPublished' /\ LostToSomething'
    BY <1>2, <1>3 DEF IndInv, OutputWhole, OkMeansPublished, LostToSomething
  <1>11. QED BY <1>4, <1>6, <1>7, <1>8, <1>9, <1>10 DEF IndInv

LEMMA StepInv ==
    ASSUME IndInv, NEW p \in Procs, Step(p) \/ Kill(p)
    PROVE  IndInv'
  <1> USE DEF Running, Ended
  <1>1. CASE Generate(p)
    BY <1>1, QuietStep DEF Generate
  <1>2. CASE Refuse(p)
    BY <1>2, QuietStep DEF Refuse
  <1>3. CASE CheckOutput(p)
    BY <1>3, QuietStep DEF CheckOutput
  <1>4. CASE \E d \in Names : CreateStaging(p, d)
    BY <1>4, CreateStagingInv
  <1>5. CASE StagingFails(p)
    BY <1>5, QuietStep DEF StagingFails
  <1>6. CASE OpenFile(p)
    BY <1>6, OpenFileInv
  <1>7. CASE FinishFile(p)
    BY <1>7, FinishFileInv
  <1>8. CASE WriteFails(p)
    BY <1>8, QuietStep DEF WriteFails
  <1>9. CASE RejectPath(p)
    BY <1>9, GiveUpInv DEF RejectPath
  <1>10. CASE Publish(p)
    BY <1>10, PublishInv
  <1>11. CASE LoseRace(p)
    BY <1>11, GiveUpInv DEF LoseRace
  <1>12. CASE RenameFails(p)
    BY <1>12, GiveUpInv DEF RenameFails
  <1>13. CASE Kill(p)
    BY <1>13, QuietStep DEF Kill
  <1>14. QED
    BY <1>1, <1>2, <1>3, <1>4, <1>5, <1>6, <1>7, <1>8, <1>9, <1>10, <1>11, <1>12, <1>13 DEF Step

LEMMA NextInv == IndInv /\ [Next]_vars => IndInv'
  <1> SUFFICES ASSUME IndInv, [Next]_vars PROVE IndInv'
    OBVIOUS
  <1>1. CASE \E p \in Procs : Step(p) \/ Kill(p)
    BY <1>1, StepInv
  <1>2. CASE StrangerCreates
    BY <1>2, StrangerInv
  <1>3. CASE UNCHANGED vars
    BY <1>3 DEF vars, IndInv, TypeOK, PrivateStaging, StagingContents, NothingYet, OwnFiles,
                OutputWhole, OkMeansPublished, LostToSomething, Active, Complete, Prefix, Wrote, Item
  <1>4. QED BY <1>1, <1>2, <1>3 DEF Next, AllEnded

\* The inductive invariant holds: staging directories are private and hold
\* exactly what their process has written.
THEOREM Invariance == Spec => []IndInv
  <1>1. QED BY InitInv, NextInv, PTL DEF Spec

\* Types are kept, for any processes and packages.
THEOREM TypeCorrect == Spec => []TypeOK
  <1>1. IndInv => TypeOK
    BY DEF IndInv
  <1>2. QED BY <1>1, Invariance, PTL

\* The output path never shows anything but one process's whole package.
THEOREM AllOrNothing == Spec => []OutputWhole
  <1>1. IndInv => OutputWhole
    BY DEF IndInv
  <1>2. QED BY <1>1, Invariance, PTL

\* A reported success is a published package, for good.
THEOREM SuccessIsPublished == Spec => []OkMeansPublished
  <1>1. IndInv => OkMeansPublished
    BY DEF IndInv
  <1>2. QED BY <1>1, Invariance, PTL

\* The winner and the refused leave no staging directory behind.
THEOREM LeavesNothing == Spec => []CleanExit
  <1>1. IndInv => CleanExit
    BY DEF IndInv, CleanExit, NothingYet, OwnFiles, TypeOK
  <1>2. QED BY <1>1, Invariance, PTL

\* How a process ends tells what it left behind.
THEOREM HonestExits == Spec => []ExitsAreTrue
  BY SuccessIsPublished, LeavesNothing, PTL DEF ExitsAreTrue

\* A process loses only to files that are there.
THEOREM LosesToFiles == Spec => []LostToSomething
  <1>1. IndInv => LostToSomething
    BY DEF IndInv
  <1>2. QED BY <1>1, Invariance, PTL

\* No step touches files at the output path.
THEOREM PublishedStays == Spec => NeverReplaces
  <1> DEFINE A == tree[Output] # {} => tree'[Output] = tree[Output] /\ Output \in dirs'
  <1>1. ASSUME IndInv, [Next]_vars PROVE A
    <2> SUFFICES ASSUME tree[Output] # {} PROVE tree'[Output] = tree[Output] /\ Output \in dirs'
      OBVIOUS
    <2>1. Output \in dirs /\ tree \in [Names \cup {Output} -> SUBSET Entry]
      BY <1>1 DEF IndInv, NothingYet, TypeOK
    <2>2. ASSUME NEW p \in Procs, Step(p) \/ Kill(p)
          PROVE  tree'[Output] = tree[Output] /\ Output \in dirs'
      <3>1. Active(p) => name[p] # Output
        BY <1>1, PublishAssumption DEF IndInv, PrivateStaging
      <3>2. CASE Generate(p) \/ Refuse(p) \/ CheckOutput(p) \/ StagingFails(p) \/ WriteFails(p)
                   \/ Kill(p)
        BY <2>1, <3>2 DEF Generate, Refuse, CheckOutput, StagingFails, WriteFails, Kill
      <3>3. CASE \E d \in Names : CreateStaging(p, d)
        BY <2>1, <3>3, PublishAssumption DEF CreateStaging
      <3>4. CASE OpenFile(p) \/ FinishFile(p)
        BY <2>1, <3>1, <3>4 DEF OpenFile, FinishFile, Active
      <3>5. CASE RejectPath(p) \/ LoseRace(p) \/ RenameFails(p)
        BY <2>1, <3>1, <3>5 DEF RejectPath, LoseRace, RenameFails, RemoveStaging, Active
      <3>6. CASE Publish(p)
        BY <2>1, <3>6 DEF Publish, CanRename
      <3>7. QED BY <2>2, <3>2, <3>3, <3>4, <3>5, <3>6 DEF Step
    <2>3. CASE StrangerCreates
      BY <2>1, <2>3 DEF StrangerCreates
    <2>4. QED BY <1>1, <2>1, <2>2, <2>3 DEF Next, AllEnded, vars
  <1>2. QED BY <1>1, Invariance, PTL DEF Spec, NeverReplaces

\* Every step is one of the promise's or none of them: the rename is the step that
\* publishes, and everything before it happens where nobody looks.
LEMMA PromiseStep ==
    ASSUME IndInv, [Next]_vars
    PROVE  [Promise!Next]_Promise!vars
  <1> DEFINE exit == [p \in Procs |-> IF pc[p] \in Running THEN "running" ELSE pc[p]]
  <1>1. /\ pc \in [Procs -> Running \cup Ended] /\ tree \in [Names \cup {Output} -> SUBSET Entry]
        /\ Output \notin dirs => tree[Output] = {}
    BY DEF IndInv, TypeOK, NothingYet
  <1> DEFINE Still == (Output \in dirs)' = (Output \in dirs) /\ tree'[Output] = tree[Output]
  <1>2. ASSUME NEW p \in Procs, NEW how, pc[p] \in Running, pc' = [pc EXCEPT ![p] = how]
        PROVE  /\ how \notin Running => Promise!Ends(p, how)
               /\ how \in Running => exit' = exit
    BY <1>1, <1>2 DEF Promise!Ends
  <1>3. ASSUME NEW p \in Procs, Active(p)
        PROVE  name[p] \in Names /\ name[p] # Output
    BY <1>3, PublishAssumption DEF IndInv, PrivateStaging
  <1>4. ASSUME NEW p \in Procs, RemoveStaging(p), Active(p) PROVE Still
    BY <1>1, <1>3, <1>4 DEF RemoveStaging
  <1>5. UNCHANGED <<pc, dirs, tree>> => UNCHANGED Promise!vars
    BY DEF Promise!vars
  <1>6. Still /\ exit' = exit => UNCHANGED Promise!vars
    BY DEF Promise!vars
  <1>7. ASSUME NEW p \in Procs, NEW how \in {"refused", "unsafe", "io", "killed"},
               pc[p] \in Running, pc' = [pc EXCEPT ![p] = how], Still
        PROVE  Promise!Next
    <2>1. Promise!Ends(p, how)
      <3>1. how \notin Running
        BY DEF Running
      <3>2. QED BY <1>2, <1>7, <3>1
    <2> HIDE DEF exit
    <2>2. Promise!GiveUp(p)
      BY <1>7, <2>1 DEF Promise!GiveUp
    <2>3. QED BY <2>2 DEF Promise!Next
  <1>8. ASSUME NEW p \in Procs, Step(p) \/ Kill(p) PROVE [Promise!Next]_Promise!vars
    <2>1. CASE Generate(p)
      BY <1>2, <1>6, <2>1 DEF Generate, Goto, Running
    <2>2. CASE Refuse(p) \/ StagingFails(p) \/ WriteFails(p) \/ Kill(p)
      BY <1>7, <2>2 DEF Refuse, StagingFails, WriteFails, Kill, Goto, Running
    <2>3. CASE CheckOutput(p)
      <3>1. CASE Output \in dirs
        <4>1. /\ pc[p] \in Running /\ pc' = [pc EXCEPT ![p] = "exists"] /\ "exists" \notin Running
              /\ dirs' = dirs /\ tree' = tree
          BY <2>3, <3>1 DEF CheckOutput, Goto, Running
        <4>2. Promise!Ends(p, "exists")
          BY <1>2, <4>1
        <4>3. Promise!Exists(p)
          BY <3>1, <4>1, <4>2 DEF Promise!Exists
        <4>4. QED BY <4>3 DEF Promise!Next
      <3>2. CASE Output \notin dirs
        BY <1>2, <1>6, <2>3, <3>2 DEF CheckOutput, Goto, Running
      <3>3. QED BY <3>1, <3>2
    <2>4. CASE \E d \in Names : CreateStaging(p, d)
      <3>1. PICK d \in Names : CreateStaging(p, d)
        BY <2>4
      <3>2. Still
        <4>1. d # Output /\ dirs' = dirs \cup {d} /\ tree' = [tree EXCEPT ![d] = {}]
          BY <3>1, PublishAssumption DEF CreateStaging
        <4>2. QED BY <1>1, <4>1
      <3>3. exit' = exit
        BY <1>2, <3>1 DEF CreateStaging, Goto, Running
      <3>4. QED BY <1>6, <3>2, <3>3
    <2>5. CASE OpenFile(p) \/ FinishFile(p)
      <3>1. Still
        <4>1. name[p] # Output /\ dirs' = dirs
          BY <1>3, <2>5 DEF OpenFile, FinishFile, Active
        <4>2. \E files : tree' = [tree EXCEPT ![name[p]] = files]
          BY <2>5 DEF OpenFile, FinishFile
        <4>3. QED BY <1>1, <4>1, <4>2
      <3>2. exit' = exit
        BY <1>2, <2>5 DEF OpenFile, FinishFile, Goto, Running
      <3>3. QED BY <1>6, <3>1, <3>2
    <2>6. CASE RejectPath(p) \/ RenameFails(p)
      <3>1. Still
        BY <1>4, <2>6 DEF RejectPath, RenameFails, Active
      <3>2. QED BY <1>7, <2>6, <3>1 DEF RejectPath, RenameFails, Goto, Running
    <2>7. CASE LoseRace(p)
      <3>1. Still /\ tree[Output] # {}
        BY <1>1, <1>4, <2>7 DEF LoseRace, Active, CanRename
      <3>2. Promise!Ends(p, "lost")
        <4>1. pc[p] \in Running /\ pc' = [pc EXCEPT ![p] = "lost"] /\ "lost" \notin Running
          BY <2>7 DEF LoseRace, Goto, Running
        <4>2. QED BY <1>2, <4>1
      <3>3. Promise!Lose(p)
        BY <3>1, <3>2 DEF Promise!Lose
      <3>4. QED BY <3>3 DEF Promise!Next
    <2>8. CASE Publish(p)
      <3>1. tree[Output] = {}
        BY <1>1, <2>8 DEF Publish, CanRename
      <3>2. tree[name[p]] = Complete(p)
        BY <2>8, CompleteNonEmpty DEF Publish, IndInv, StagingContents
      <3>3. Output \in dirs' /\ tree'[Output] = Complete(p)
        <4>1. /\ name[p] # Output /\ dirs' = (dirs \ {name[p]}) \cup {Output}
              /\ tree' = [tree EXCEPT ![Output] = tree[name[p]], ![name[p]] = {}]
          BY <1>3, <2>8 DEF Publish, Active
        <4>2. QED BY <1>1, <3>2, <4>1
      <3>4. Promise!Ends(p, "published")
        <4>1. pc[p] \in Running /\ pc' = [pc EXCEPT ![p] = "published"] /\ "published" \notin Running
          BY <2>8 DEF Publish, Goto, Running
        <4>2. QED BY <1>2, <4>1
      <3>5. Promise!Publish(p)
        BY <3>1, <3>3, <3>4 DEF Promise!Publish, Promise!Whole, Complete
      <3>6. QED BY <3>5 DEF Promise!Next
    <2>9. QED BY <1>8, <2>1, <2>2, <2>3, <2>4, <2>5, <2>6, <2>7, <2>8 DEF Step
  <1>9. CASE StrangerCreates
    <2>1. Promise!StrangerCreates
      BY <1>1, <1>9 DEF StrangerCreates, Promise!StrangerCreates
    <2>2. QED BY <2>1 DEF Promise!Next
  <1>10. CASE UNCHANGED vars
    BY <1>5, <1>10 DEF vars
  <1>11. QED BY <1>8, <1>9, <1>10 DEF Next, AllEnded

\* Publishing implements what it promises at the output path.
THEOREM PublishingPromise == Spec => PublishesOnce
  <1>1. Init => Promise!Init
    BY PublishAssumption DEF Init, Promise!Init, Running
  <1>2. QED BY <1>1, Invariance, PromiseStep, PTL DEF Spec, PublishesOnce, Promise!Spec

\* The same in the command line: the processes that publish run there as they do
\* alone, and nobody else touches their directories.
LEMMA PublishInCli == CliSpec => []IndInv
  <1>1. CliInit => IndInv
    BY PublishAssumption
    DEF CliInit, IndInv, TypeOK, PrivateStaging, StagingContents, NothingYet, OwnFiles, OutputWhole,
        OkMeansPublished, LostToSomething, Active, Running, Ended, Entry
  <1>2. IndInv /\ [CliNext]_cliVars => IndInv'
    <2>1. [CliNext]_cliVars => [Next]_vars
      BY DEF CliNext, Publishing, Generating, AllGenerated, Judging, Reported, cliVars
    <2>2. QED BY <2>1, NextInv
  <1>3. QED BY <1>1, <1>2, PTL DEF CliSpec

\* Whatever processes race, fail or die, the commands never show half a package,
\* and how a process ends tells what it left.
THEOREM CliPublishesWhole == CliSpec => [](OutputWhole /\ ExitsAreTrue)
  <1>1. IndInv => OutputWhole /\ ExitsAreTrue
    BY DEF IndInv, ExitsAreTrue, CleanExit, NothingYet, OwnFiles, TypeOK
  <1>2. QED BY <1>1, PublishInCli, PTL

\* Publishing implements its promise in every behaviour of the command line.
THEOREM CliPublishesOnce == CliSpec => PublishesOnce
  <1>1. CliInit => Promise!Init
    BY PublishAssumption DEF CliInit, Promise!Init, Running
  <1>2. [CliNext]_cliVars => [Next]_vars
    BY DEF CliNext, Publishing, Generating, AllGenerated, Judging, Reported, cliVars
  <1>3. IndInv /\ [CliNext]_cliVars => [Promise!Next]_Promise!vars
    BY <1>2, PromiseStep
  <1>4. QED BY <1>1, <1>3, PublishInCli, PTL DEF CliSpec, PublishesOnce, Promise!Spec

----------------------------------------------------------------------------
(* Generating an SDK.  A process is undisturbed while nobody else writes   *)
(* to its output and nobody else has drawn its reading of the clock.       *)

\* What is told is files to write and an output.
LEMMA Told ==
    ASSUME Sdk!SdkTypeOK, NEW q \in Writers
    PROVE  /\ command[q].files \in Seq(STRING) /\ Len(command[q].files) \in Nat
           /\ Sdk!OutputOf(q) \in Outputs
  BY SdkAssumption DEF Sdk!SdkTypeOK, Sdk!OutputOf

\* A process that does not move, and whose output and temporary directory nobody
\* touches as long as they are its own, keeps its part of the invariant.
LEMMA Bystander ==
    ASSUME Sdk!SdkTypeOK, NEW q \in Writers, Sdk!ProcessInv(q),
           command' = command, phase'[q] = phase[q], done'[q] = done[q],
           nonce'[q] = nonce[q], listing'[q] = listing[q],
           \A x \in Writers : nonce[x] \subseteq nonce'[x],
           Sdk!SharesNoOutput(q) => /\ places'[Sdk!OutputOf(q)] = places[Sdk!OutputOf(q)]
                                    /\ packages'[Sdk!OutputOf(q)] = packages[Sdk!OutputOf(q)],
           Sdk!OwnStaging(q)' /\ phase[q] \in Sdk!Staged =>
               staging'[Sdk!Nonce(q)] = staging[Sdk!Nonce(q)]
    PROVE  Sdk!ProcessInv(q)'
  <1>1. /\ Sdk!OutputOf(q)' = Sdk!OutputOf(q) /\ Sdk!Nonce(q)' = Sdk!Nonce(q)
        /\ Sdk!SharesNoOutput(q)' <=> Sdk!SharesNoOutput(q)
        /\ Sdk!OwnStaging(q)' => Sdk!OwnStaging(q)
        /\ Sdk!Alone(q)' => Sdk!Alone(q) /\ Sdk!OwnStaging(q)' /\ Sdk!SharesNoOutput(q)
        /\ Sdk!NextArtifact(q)' = Sdk!NextArtifact(q)
    BY DEF Sdk!OutputOf, Sdk!Nonce, Sdk!SharesNoOutput, Sdk!OwnStaging, Sdk!Alone, Sdk!NextArtifact
  <1>2. Sdk!OwnStaging(q)' /\ phase[q] \in Sdk!Staged => Sdk!Staging(q)' = Sdk!Staging(q)
    BY <1>1 DEF Sdk!Staging
  <1>3. Sdk!DrawsOnce(q)'
    BY DEF Sdk!ProcessInv, Sdk!DrawsOnce
  <1>4. Sdk!BuildIsOwn(q)'
    BY <1>1, <1>2 DEF Sdk!ProcessInv, Sdk!BuildIsOwn
  <1>5. Sdk!FilesAreOwn(q)'
    BY <1>1 DEF Sdk!ProcessInv, Sdk!FilesAreOwn
  <1>6. Sdk!CopyIsOwn(q)'
    BY <1>1, <1>2 DEF Sdk!ProcessInv, Sdk!CopyIsOwn, Sdk!Staged
  <1>7. QED BY <1>3, <1>4, <1>5, <1>6 DEF Sdk!ProcessInv

\* A step of p that draws nothing and touches no temporary directory.
LEMMA Others ==
    ASSUME Sdk!SdkInv, NEW p \in Writers,
           \A q \in Writers \ {p} :
               phase'[q] = phase[q] /\ done'[q] = done[q] /\ listing'[q] = listing[q],
           \A o \in Outputs \ {Sdk!OutputOf(p)} :
               places'[o] = places[o] /\ packages'[o] = packages[o],
           UNCHANGED <<command, staging, nonce>>
    PROVE  /\ \A q \in Writers \ {p} : Sdk!ProcessInv(q)'
           /\ Sdk!UndrawnIsClean'
  <1>1. ASSUME NEW q \in Writers \ {p} PROVE Sdk!ProcessInv(q)'
    <2>1. /\ phase'[q] = phase[q] /\ done'[q] = done[q] /\ listing'[q] = listing[q]
          /\ nonce'[q] = nonce[q] /\ Sdk!ProcessInv(q) /\ Sdk!SdkTypeOK
          /\ \A x \in Writers : nonce[x] \subseteq nonce'[x]
      BY DEF Sdk!SdkInv, Sdk!SdkTypeOK
    <2>2. Sdk!SharesNoOutput(q) => Sdk!OutputOf(p) # Sdk!OutputOf(q)
      BY DEF Sdk!SharesNoOutput
    <2>3. Sdk!OutputOf(q) \in Outputs /\ DOMAIN places = Outputs /\ DOMAIN packages = Outputs
      BY <2>1, Told DEF Sdk!SdkTypeOK
    <2>4. Sdk!SharesNoOutput(q) => /\ places'[Sdk!OutputOf(q)] = places[Sdk!OutputOf(q)]
                                   /\ packages'[Sdk!OutputOf(q)] = packages[Sdk!OutputOf(q)]
      BY <2>2, <2>3
    <2>5. QED BY <2>1, <2>4, Bystander
  <1>2. Sdk!UndrawnIsClean'
    BY DEF Sdk!SdkInv, Sdk!UndrawnIsClean, Sdk!NoStaging
  <1>3. QED BY <1>1, <1>2

\* A step of p that changes nothing but where p is, and neither starts nor ends
\* a write or a copy.
LEMMA QuietMove ==
    ASSUME Sdk!SdkInv, NEW p \in Writers, NEW to \in Sdk!Phases,
           phase' = [phase EXCEPT ![p] = to],
           UNCHANGED <<command, places, packages, staging, done, nonce, listing>>,
           \/ to \in {"refused", "io", "build failed", "incomplete", "killed"}
           \/ phase[p] = "start" /\ to = "write"
           \/ /\ phase[p] = "write" /\ done[p] = Len(command[p].files)
              /\ to = IF command[p].wasm THEN "stage" ELSE "generated"
           \/ phase[p] = "inspect" /\ to = "replace" /\ Sdk!IsPackage(Sdk!Staging(p).pkg)
    PROVE  Sdk!SdkInv'
  <1>1. /\ phase[p] \in Sdk!Phases /\ phase'[p] = to /\ Sdk!SdkTypeOK /\ Sdk!ProcessInv(p)
        /\ command[p].wasm \in BOOLEAN
    BY SdkAssumption DEF Sdk!SdkInv, Sdk!SdkTypeOK
  <1>2. Sdk!SdkTypeOK'
    BY <1>1 DEF Sdk!SdkTypeOK
  <1>3. Sdk!UndrawnIsClean' /\ \A q \in Writers \ {p} : Sdk!ProcessInv(q)'
    <2>1. \A q \in Writers \ {p} : phase'[q] = phase[q]
      BY DEF Sdk!SdkInv, Sdk!SdkTypeOK
    <2>2. QED BY <2>1, Others
  <1>4. Sdk!ProcessInv(p)'
    <2>1. /\ Sdk!OutputOf(p)' = Sdk!OutputOf(p) /\ Sdk!Nonce(p)' = Sdk!Nonce(p)
          /\ Sdk!Staging(p)' = Sdk!Staging(p)
          /\ Sdk!SharesNoOutput(p)' = Sdk!SharesNoOutput(p)
          /\ Sdk!OwnStaging(p)' = Sdk!OwnStaging(p)
      BY DEF Sdk!OutputOf, Sdk!Nonce, Sdk!Staging, Sdk!SharesNoOutput, Sdk!OwnStaging
    <2>2. Sdk!DrawsOnce(p)'
      BY <1>1 DEF Sdk!ProcessInv, Sdk!DrawsOnce, Sdk!Staged
    <2>3. Sdk!BuildIsOwn(p)'
      BY <1>1, <2>1 DEF Sdk!ProcessInv, Sdk!BuildIsOwn, Sdk!Staged
    <2>4. Sdk!FilesAreOwn(p)'
      <3>1. CASE to \in {"refused", "io", "build failed", "incomplete", "killed"}
        BY <1>1, <2>1, <3>1 DEF Sdk!ProcessInv, Sdk!FilesAreOwn, Sdk!Staged
      <3>2. CASE phase[p] = "start" /\ to = "write"
        <4>1. done[p] = 0 /\ done'[p] = 0 /\ command' = command /\ 1..0 = {}
          BY <1>1, <3>2 DEF Sdk!ProcessInv, Sdk!FilesAreOwn
        <4>2. Len(command[p].files) \in Nat
          BY <1>1, Told
        <4>3. QED BY <1>1, <3>2, <4>1, <4>2 DEF Sdk!FilesAreOwn, Sdk!Staged
      <3>3. CASE to \notin {"refused", "io", "build failed", "incomplete", "killed", "write"}
        BY <1>1, <2>1, <3>3 DEF Sdk!ProcessInv, Sdk!FilesAreOwn, Sdk!Staged
      <3>4. QED BY <3>1, <3>2, <3>3
    <2>5. Sdk!CopyIsOwn(p)'
      BY <1>1, <2>1 DEF Sdk!ProcessInv, Sdk!CopyIsOwn, Sdk!Alone
    <2>6. QED BY <2>2, <2>3, <2>4, <2>5 DEF Sdk!ProcessInv
  <1>5. QED BY <1>2, <1>3, <1>4 DEF Sdk!SdkInv

\* What no step of p changes, when p draws nothing.
LEMMA Unmoved ==
    ASSUME NEW p \in Writers, UNCHANGED <<command, nonce>>
    PROVE  /\ Sdk!OutputOf(p)' = Sdk!OutputOf(p) /\ Sdk!Nonce(p)' = Sdk!Nonce(p)
           /\ Sdk!SharesNoOutput(p)' = Sdk!SharesNoOutput(p)
           /\ Sdk!OwnStaging(p)' = Sdk!OwnStaging(p)
           /\ Sdk!Alone(p)' = Sdk!Alone(p)
           /\ staging' = staging => Sdk!Staging(p)' = Sdk!Staging(p)
           /\ Sdk!Alone(p) => Sdk!OwnStaging(p) /\ Sdk!SharesNoOutput(p)
  BY DEF Sdk!OutputOf, Sdk!Nonce, Sdk!Staging, Sdk!SharesNoOutput, Sdk!OwnStaging, Sdk!Alone

\* fs::write empties a file of the process: every other file stands.
LEMMA BeginFileInv ==
    ASSUME Sdk!SdkInv, NEW p \in Writers, Sdk!OpenFile(p)
    PROVE  Sdk!SdkInv'
  <1> DEFINE next_ == command[p].files[done[p] + 1]
  <1>1. /\ Sdk!SdkTypeOK /\ Sdk!ProcessInv(p) /\ phase[p] = "write" /\ phase'[p] = "opened"
        /\ phase' = [phase EXCEPT ![p] = "opened"]
        /\ done[p] \in Nat /\ done[p] < Len(command[p].files)
        /\ UNCHANGED <<command, packages, staging, done, nonce, listing>>
    BY DEF Sdk!SdkInv, Sdk!SdkTypeOK, Sdk!OpenFile, Sdk!Moves
  <1>2. /\ DOMAIN places' = Outputs
        /\ \A o \in Outputs \ {Sdk!OutputOf(p)} : places'[o] = places[o]
        /\ DOMAIN places'[Sdk!OutputOf(p)] = DOMAIN places[Sdk!OutputOf(p)] \cup {next_}
        /\ \A f \in DOMAIN places[Sdk!OutputOf(p)] :
             f # next_ => places'[Sdk!OutputOf(p)][f] = places[Sdk!OutputOf(p)][f]
    <2>1. /\ DOMAIN places' = Outputs
          /\ \A o \in Outputs \ {Sdk!OutputOf(p)} : places'[o] = places[o]
          /\ places'[Sdk!OutputOf(p)] =
               Sdk!With(places[Sdk!OutputOf(p)], next_, Sdk!Holds(p, FALSE))
      BY <1>1, Told DEF Sdk!OpenFile, Sdk!SdkTypeOK
    <2>2. QED BY <2>1 DEF Sdk!With
  <1>3. Sdk!SdkTypeOK'
    BY <1>1, <1>2 DEF Sdk!SdkTypeOK, Sdk!Phases
  <1>4. Sdk!UndrawnIsClean' /\ \A q \in Writers \ {p} : Sdk!ProcessInv(q)'
    <2>1. \A q \in Writers \ {p} : phase'[q] = phase[q]
      BY <1>1 DEF Sdk!SdkTypeOK
    <2>2. QED BY <1>1, <1>2, <2>1, Others
  <1>5. Sdk!DrawsOnce(p)' /\ Sdk!BuildIsOwn(p)' /\ Sdk!CopyIsOwn(p)'
    BY <1>1 DEF Sdk!ProcessInv, Sdk!DrawsOnce, Sdk!BuildIsOwn, Sdk!CopyIsOwn, Sdk!Staged
  <1>6. Sdk!FilesAreOwn(p)'
    <2>1. Sdk!SharesNoOutput(p) =>
            \A i \in 1..done[p] : /\ command[p].files[i] \in DOMAIN places[Sdk!OutputOf(p)]
                                  /\ places[Sdk!OutputOf(p)][command[p].files[i]] = Sdk!Holds(p, TRUE)
      BY <1>1 DEF Sdk!ProcessInv, Sdk!FilesAreOwn
    <2>2. Sdk!SharesNoOutput(p)' = Sdk!SharesNoOutput(p) /\ Sdk!OutputOf(p)' = Sdk!OutputOf(p)
      BY <1>1, Unmoved
    <2>3. Len(command[p].files) \in Nat
      BY <1>1, Told
    <2>4. Sdk!SharesNoOutput(p) =>
            \A i \in 1..done[p] :
              \/ command[p].files[i] = next_
              \/ /\ command[p].files[i] \in DOMAIN places'[Sdk!OutputOf(p)]
                 /\ places'[Sdk!OutputOf(p)][command[p].files[i]] = Sdk!Holds(p, TRUE)
      BY <1>2, <2>1
    <2>5. command' = command /\ done' = done /\ Sdk!Holds(p, TRUE)' = Sdk!Holds(p, TRUE)
      BY <1>1 DEF Sdk!Holds
    <2>6. done'[p] = done[p] /\ Sdk!Holds(p, TRUE)' = Sdk!Holds(p, TRUE)
      BY <2>5
    <2>7. phase'[p] \notin {"start", "stage", "generated"} \cup Sdk!Staged
      BY <1>1 DEF Sdk!Staged
    <2>8. Sdk!SharesNoOutput(p)' =>
            \A i \in 1..done'[p] :
                \/ phase'[p] = "opened" /\ command'[p].files[i] = command'[p].files[done'[p] + 1]
                \/ /\ command'[p].files[i] \in DOMAIN places'[Sdk!OutputOf(p)']
                   /\ places'[Sdk!OutputOf(p)'][command'[p].files[i]] = Sdk!Holds(p, TRUE)'
      BY <1>1, <2>2, <2>4, <2>5, <2>6
    <2>9. done'[p] <= Len(command'[p].files) /\ done'[p] < Len(command'[p].files)
      BY <1>1, <2>3, <2>5
    <2>10. QED BY <2>7, <2>8, <2>9 DEF Sdk!FilesAreOwn
  <1>7. QED BY <1>3, <1>4, <1>5, <1>6 DEF Sdk!SdkInv, Sdk!ProcessInv

\* fs::write fills the file: one more file of the process stands.
LEMMA EndFileInv ==
    ASSUME Sdk!SdkInv, NEW p \in Writers, Sdk!FillFile(p)
    PROVE  Sdk!SdkInv'
  <1> DEFINE next_ == command[p].files[done[p] + 1]
  <1>1. /\ Sdk!SdkTypeOK /\ Sdk!ProcessInv(p) /\ phase[p] = "opened" /\ phase'[p] = "write"
        /\ phase' = [phase EXCEPT ![p] = "write"]
        /\ done' = [done EXCEPT ![p] = done[p] + 1] /\ done'[p] = done[p] + 1 /\ done[p] \in Nat
        /\ UNCHANGED <<command, packages, staging, nonce, listing>>
    BY DEF Sdk!SdkInv, Sdk!SdkTypeOK, Sdk!FillFile, Sdk!Moves
  <1>2. /\ DOMAIN places' = Outputs
        /\ \A o \in Outputs \ {Sdk!OutputOf(p)} : places'[o] = places[o]
        /\ DOMAIN places'[Sdk!OutputOf(p)] = DOMAIN places[Sdk!OutputOf(p)] \cup {next_}
        /\ places'[Sdk!OutputOf(p)][next_] = Sdk!Holds(p, TRUE)
        /\ \A f \in DOMAIN places[Sdk!OutputOf(p)] :
             f # next_ => places'[Sdk!OutputOf(p)][f] = places[Sdk!OutputOf(p)][f]
    <2>1. /\ DOMAIN places' = Outputs
          /\ \A o \in Outputs \ {Sdk!OutputOf(p)} : places'[o] = places[o]
          /\ places'[Sdk!OutputOf(p)] =
               Sdk!With(places[Sdk!OutputOf(p)], next_, Sdk!Holds(p, TRUE))
      BY <1>1, Told DEF Sdk!FillFile, Sdk!SdkTypeOK
    <2>2. QED BY <2>1 DEF Sdk!With
  <1>3. Sdk!SdkTypeOK'
    <2>1. done' \in [Writers -> Nat] /\ phase' \in [Writers -> Sdk!Phases]
      BY <1>1 DEF Sdk!SdkTypeOK, Sdk!Phases
    <2>2. QED BY <1>1, <1>2, <2>1 DEF Sdk!SdkTypeOK
  <1>4. Sdk!UndrawnIsClean' /\ \A q \in Writers \ {p} : Sdk!ProcessInv(q)'
    <2>1. \A q \in Writers \ {p} : phase'[q] = phase[q] /\ done'[q] = done[q]
      BY <1>1 DEF Sdk!SdkTypeOK
    <2>2. QED BY <1>1, <1>2, <2>1, Others
  <1>5. Sdk!DrawsOnce(p)' /\ Sdk!BuildIsOwn(p)' /\ Sdk!CopyIsOwn(p)'
    BY <1>1 DEF Sdk!ProcessInv, Sdk!DrawsOnce, Sdk!BuildIsOwn, Sdk!CopyIsOwn, Sdk!Staged
  <1>6. Sdk!FilesAreOwn(p)'
    <2>1. Sdk!SharesNoOutput(p) =>
            \A i \in 1..done[p] :
              \/ command[p].files[i] = next_
              \/ /\ command[p].files[i] \in DOMAIN places[Sdk!OutputOf(p)]
                 /\ places[Sdk!OutputOf(p)][command[p].files[i]] = Sdk!Holds(p, TRUE)
      BY <1>1 DEF Sdk!ProcessInv, Sdk!FilesAreOwn
    <2>2. /\ Sdk!SharesNoOutput(p)' = Sdk!SharesNoOutput(p) /\ Sdk!OutputOf(p)' = Sdk!OutputOf(p)
          /\ Len(command[p].files) \in Nat /\ done[p] < Len(command[p].files)
      BY <1>1, Unmoved, Told DEF Sdk!ProcessInv, Sdk!FilesAreOwn
    <2>3. \A i \in 1..done'[p] : i \in 1..done[p] \/ i = done[p] + 1
      BY <1>1
    <2>4. Sdk!SharesNoOutput(p) =>
            \A i \in 1..done'[p] :
              /\ command[p].files[i] \in DOMAIN places'[Sdk!OutputOf(p)]
              /\ places'[Sdk!OutputOf(p)][command[p].files[i]] = Sdk!Holds(p, TRUE)
      BY <1>2, <2>1, <2>3
    <2>5. done'[p] \in Nat /\ done'[p] <= Len(command[p].files)
      BY <1>1, <2>2
    <2>6. QED BY <1>1, <2>2, <2>4, <2>5 DEF Sdk!FilesAreOwn, Sdk!Staged, Sdk!Holds
  <1>7. QED BY <1>3, <1>4, <1>5, <1>6 DEF Sdk!SdkInv, Sdk!ProcessInv

\* A step of p that touches only the temporary directory it has drawn.
LEMMA StagingOthers ==
    ASSUME Sdk!SdkInv, NEW p \in Writers, NEW n \in Nonces,
           n \in nonce'[p], nonce[p] \subseteq nonce'[p],
           \A q \in Writers \ {p} : /\ phase'[q] = phase[q] /\ done'[q] = done[q]
                                    /\ listing'[q] = listing[q] /\ nonce'[q] = nonce[q],
           \A m \in Nonces \ {n} : staging'[m] = staging[m],
           UNCHANGED <<command, places, packages>>
    PROVE  /\ \A q \in Writers \ {p} : Sdk!ProcessInv(q)'
           /\ Sdk!UndrawnIsClean'
  <1>1. ASSUME NEW q \in Writers \ {p} PROVE Sdk!ProcessInv(q)'
    <2>1. Sdk!ProcessInv(q) /\ Sdk!SdkTypeOK /\ \A x \in Writers : nonce[x] \subseteq nonce'[x]
      BY DEF Sdk!SdkInv
    <2>2. ASSUME Sdk!OwnStaging(q)', phase[q] \in Sdk!Staged
          PROVE  staging'[Sdk!Nonce(q)] = staging[Sdk!Nonce(q)]
      <3>1. PICK m \in Nonces : nonce[q] = {m}
        BY <2>1, <2>2 DEF Sdk!ProcessInv, Sdk!DrawsOnce
      <3>2. m # n
        BY <2>2, <3>1 DEF Sdk!OwnStaging
      <3>3. Sdk!Nonce(q) = m
        BY <3>1 DEF Sdk!Nonce
      <3>4. QED BY <3>2, <3>3
    <2>3. QED BY <2>1, <2>2, Bystander
  <1>2. Sdk!UndrawnIsClean'
    BY DEF Sdk!SdkInv, Sdk!UndrawnIsClean, Sdk!NoStaging
  <1>3. QED BY <1>1, <1>2

\* The reading a process works with.
LEMMA Drawn ==
    ASSUME Sdk!SdkInv, NEW p \in Writers, phase[p] \in Sdk!Staged
    PROVE  Sdk!Nonce(p) \in Nonces /\ nonce[p] = {Sdk!Nonce(p)}
  <1>1. PICK m \in Nonces : nonce[p] = {m}
    BY DEF Sdk!SdkInv, Sdk!ProcessInv, Sdk!DrawsOnce
  <1>2. QED BY <1>1 DEF Sdk!Nonce

\* The files in place do not matter to a step of p that writes none.
LEMMA FilesKept ==
    ASSUME Sdk!SdkInv, NEW p \in Writers,
           UNCHANGED <<command, places, done>>, phase[p] \in {"stage"} \cup Sdk!Staged,
           phase'[p] \notin {"start", "opened"}
    PROVE  Sdk!FilesAreOwn(p)'
  <1>1. /\ Sdk!FilesAreOwn(p) /\ Sdk!OutputOf(p)' = Sdk!OutputOf(p)
        /\ Sdk!SharesNoOutput(p)' = Sdk!SharesNoOutput(p)
    BY DEF Sdk!SdkInv, Sdk!ProcessInv, Sdk!OutputOf, Sdk!SharesNoOutput
  <1>2. QED BY <1>1 DEF Sdk!FilesAreOwn, Sdk!Staged

\* A directory of its own is one nobody drew before, so nothing is in it yet.
LEMMA StageInv ==
    ASSUME Sdk!SdkInv, NEW p \in Writers, NEW n \in Nonces, Sdk!Stage(p, n)
    PROVE  Sdk!SdkInv'
  <1>1. /\ Sdk!SdkTypeOK /\ phase[p] = "stage" /\ phase' = [phase EXCEPT ![p] = "build"]
        /\ phase'[p] = "build" /\ nonce' = [nonce EXCEPT ![p] = {n}]
        /\ nonce[p] = {} /\ nonce'[p] = {n}
        /\ \A q \in Writers \ {p} : phase'[q] = phase[q] /\ nonce'[q] = nonce[q]
        /\ UNCHANGED <<command, places, packages, done, listing>>
    BY DEF Sdk!SdkInv, Sdk!SdkTypeOK, Sdk!Stage, Sdk!Moves, Sdk!ProcessInv, Sdk!DrawsOnce
  <1>2. /\ staging'[n].source = p /\ staging'[n].pkg = staging[n].pkg
        /\ \A m \in Nonces \ {n} : staging'[m] = staging[m]
        /\ staging' \in [Nonces -> [exists : BOOLEAN, source : Writers \cup {Old},
                                    pkg : Sdk!Builds]]
    <2> DEFINE drawn == [exists |-> TRUE, source |-> p, pkg |-> staging[n].pkg]
    <2>1. /\ staging \in [Nonces -> [exists : BOOLEAN, source : Writers \cup {Old}, pkg : Sdk!Builds]]
          /\ drawn \in [exists : BOOLEAN, source : Writers \cup {Old}, pkg : Sdk!Builds]
      BY <1>1 DEF Sdk!SdkTypeOK
    <2>4. staging' = [staging EXCEPT ![n] = drawn]
      BY <2>1 DEF Sdk!Stage
    <2>5. QED BY <2>1, <2>4
  <1>3. Sdk!SdkTypeOK'
    BY <1>1, <1>2 DEF Sdk!SdkTypeOK, Sdk!Phases, Sdk!Staged
  <1>4. Sdk!UndrawnIsClean' /\ \A q \in Writers \ {p} : Sdk!ProcessInv(q)'
    BY <1>1, <1>2, StagingOthers
  <1>5. Sdk!Nonce(p)' = n /\ Sdk!Staging(p)' = staging'[n]
    BY <1>1 DEF Sdk!Nonce, Sdk!Staging
  <1>6. Sdk!DrawsOnce(p)' /\ Sdk!FilesAreOwn(p)'
    BY <1>1, FilesKept DEF Sdk!DrawsOnce, Sdk!Staged
  <1>7. Sdk!BuildIsOwn(p)'
    <2>1. SUFFICES ASSUME Sdk!OwnStaging(p)' PROVE Sdk!BuildIsOwn(p)'
      BY DEF Sdk!BuildIsOwn
    <2>2. \A q \in Writers : n \notin nonce[q]
      BY <1>1, <2>1 DEF Sdk!OwnStaging
    <2>3. staging[n] = Sdk!NoStaging
      BY <2>2 DEF Sdk!SdkInv, Sdk!UndrawnIsClean
    <2>4. staging'[n].source = p /\ DOMAIN staging'[n].pkg = {}
      BY <1>2, <2>3 DEF Sdk!NoStaging, Sdk!Empty
    <2>5. QED BY <1>1, <1>5, <2>4 DEF Sdk!BuildIsOwn
  <1>8. Sdk!CopyIsOwn(p)'
    BY <1>1 DEF Sdk!CopyIsOwn
  <1>9. QED BY <1>3, <1>4, <1>6, <1>7, <1>8 DEF Sdk!SdkInv, Sdk!ProcessInv

\* wasm-pack compiles the source it finds, which in a directory of its own is
\* that of the process.
LEMMA BuildInv ==
    ASSUME Sdk!SdkInv, NEW p \in Writers, NEW made \in SUBSET DOMAIN Artifacts, Sdk!Build(p, made)
    PROVE  Sdk!SdkInv'
  <1> DEFINE n == Sdk!Nonce(p)
  <1> DEFINE old == staging[n].pkg
  <1> DEFINE new == [f \in DOMAIN old \cup made |->
                        IF f \in made THEN Sdk!Holds(staging[n].source, TRUE) ELSE old[f]]
  <1>1. /\ Sdk!SdkTypeOK /\ phase[p] = "build" /\ phase' = [phase EXCEPT ![p] = "inspect"]
        /\ phase'[p] = "inspect"
        /\ \A q \in Writers \ {p} : phase'[q] = phase[q]
        /\ UNCHANGED <<command, places, packages, done, nonce, listing>>
    BY DEF Sdk!SdkInv, Sdk!SdkTypeOK, Sdk!Build, Sdk!Moves
  <1>2. n \in Nonces /\ nonce[p] = {n} /\ nonce'[p] = {n} /\ n \in nonce'[p]
    BY <1>1, Drawn DEF Sdk!Staged
  <1>3. /\ staging' = [staging EXCEPT ![n].pkg = new]
        /\ \A m \in Nonces \ {n} : staging'[m] = staging[m]
        /\ staging'[n].source = staging[n].source /\ staging'[n].pkg = new
    BY <1>2 DEF Sdk!Build, Sdk!Staging, Sdk!SdkInv, Sdk!SdkTypeOK
  <1>4. new \in Sdk!Builds
    <2>0. old \in Sdk!Builds
      BY <1>1, <1>2 DEF Sdk!SdkTypeOK
    <2>1. PICK built \in SUBSET DOMAIN Artifacts :
                 old \in [built -> [by : Writers \cup {Old}, whole : {TRUE}]]
      BY <2>0 DEF Sdk!Builds
    <2>2. staging[n].source \in Writers \cup {Old}
      BY <1>1, <1>2 DEF Sdk!SdkTypeOK
    <2>3. new \in [built \cup made -> [by : Writers \cup {Old}, whole : {TRUE}]]
      BY <2>1, <2>2 DEF Sdk!Holds
    <2>4. built \cup made \in SUBSET DOMAIN Artifacts
      OBVIOUS
    <2>5. QED BY <2>3, <2>4 DEF Sdk!Builds
  <1> HIDE DEF new
  <1>5. Sdk!SdkTypeOK'
    <2>1. staging' \in [Nonces -> [exists : BOOLEAN, source : Writers \cup {Old},
                                    pkg : Sdk!Builds]]
      <3> DEFINE Directory == [exists : BOOLEAN, source : Writers \cup {Old}, pkg : Sdk!Builds]
      <3>1. staging \in [Nonces -> Directory]
        BY <1>1 DEF Sdk!SdkTypeOK
      <3> DEFINE built == [staging[n] EXCEPT !.pkg = new]
      <3>2. built \in Directory
        BY <1>2, <1>4, <3>1
      <3>3. staging' = [staging EXCEPT ![n] = built]
        BY <1>3
      <3> HIDE DEF Directory, built, n
      <3>4. staging' \in [Nonces -> Directory]
        BY <3>1, <3>2, <3>3
      <3>5. QED BY <3>4 DEF Directory
    <2>2. QED BY <1>1, <2>1 DEF Sdk!SdkTypeOK, Sdk!Phases, Sdk!Staged
  <1>6. Sdk!UndrawnIsClean' /\ \A q \in Writers \ {p} : Sdk!ProcessInv(q)'
    BY <1>1, <1>2, <1>3, StagingOthers
  <1>7. Sdk!Nonce(p)' = n /\ Sdk!Staging(p)' = staging'[n] /\ Sdk!Staging(p) = staging[n]
    BY <1>1 DEF Sdk!Nonce, Sdk!Staging
  <1>8. Sdk!DrawsOnce(p)' /\ Sdk!FilesAreOwn(p)' /\ Sdk!CopyIsOwn(p)'
    BY <1>1, <1>2, FilesKept DEF Sdk!DrawsOnce, Sdk!Staged, Sdk!CopyIsOwn
  <1>9. Sdk!BuildIsOwn(p)'
    <2>1. Sdk!OwnStaging(p)' <=> Sdk!OwnStaging(p)
      BY <1>1, Unmoved
    <2>2. SUFFICES ASSUME Sdk!OwnStaging(p) PROVE Sdk!BuildIsOwn(p)'
      BY <2>1 DEF Sdk!BuildIsOwn
    <2>3. staging[n].source = p /\ \A f \in DOMAIN old : old[f] = Sdk!Holds(p, TRUE)
      BY <1>1, <1>7, <2>2 DEF Sdk!SdkInv, Sdk!ProcessInv, Sdk!BuildIsOwn, Sdk!Staged
    <2>4. \A f \in DOMAIN new : new[f] = Sdk!Holds(p, TRUE)
      BY <2>3 DEF new
    <2>5. QED BY <1>1, <1>3, <1>7, <2>3, <2>4 DEF Sdk!BuildIsOwn, Sdk!Staged, Sdk!Holds
  <1>10. QED BY <1>5, <1>6, <1>8, <1>9 DEF Sdk!SdkInv, Sdk!ProcessInv

\* A build holds artifacts of wasm-pack only.
LEMMA BuildFilesAreArtifacts ==
    ASSUME Sdk!SdkTypeOK, NEW n \in Nonces
    PROVE  DOMAIN staging[n].pkg \subseteq DOMAIN Artifacts
  <1>1. staging[n].pkg \in Sdk!Builds
    BY DEF Sdk!SdkTypeOK
  <1>2. QED BY <1>1 DEF Sdk!Builds

\* A directory that was removed is a directory before any build.
LEMMA EmptyBuild == Sdk!NoStaging \in [exists : BOOLEAN, source : Writers \cup {Old}, pkg : Sdk!Builds]
  <1>1. Sdk!Empty \in [{} -> [by : Writers \cup {Old}, whole : {TRUE}]]
    BY DEF Sdk!Empty
  <1>2. Sdk!Empty \in Sdk!Builds
    BY <1>1 DEF Sdk!Builds
  <1>3. QED BY <1>2 DEF Sdk!NoStaging

\* The check for the three artifacts finds all three kinds.
LEMMA PackageHasEveryKind ==
    ASSUME NEW pkg, Sdk!IsPackage(pkg), DOMAIN pkg \subseteq DOMAIN Artifacts
    PROVE  Sdk!HasEveryKind(pkg)
  BY DEF Sdk!IsPackage, Sdk!HasEveryKind

\* The temporary directory is removed.
LEMMA ForgetStaging ==
    ASSUME Sdk!SdkInv, NEW p \in Writers, phase[p] \in Sdk!Staged,
           NEW to \in Sdk!SdkEnded, phase' = [phase EXCEPT ![p] = to],
           staging' \in {staging, [staging EXCEPT ![Sdk!Nonce(p)] = Sdk!NoStaging]},
           UNCHANGED <<command, places, packages, done, nonce, listing>>
    PROVE  /\ Sdk!SdkTypeOK' /\ Sdk!UndrawnIsClean'
           /\ \A q \in Writers \ {p} : Sdk!ProcessInv(q)'
           /\ Sdk!DrawsOnce(p)' /\ Sdk!BuildIsOwn(p)' /\ Sdk!FilesAreOwn(p)'
           /\ phase'[p] = to
  <1> DEFINE n == Sdk!Nonce(p)
  <1>1. /\ Sdk!SdkTypeOK /\ phase'[p] = to
        /\ \A q \in Writers \ {p} : phase'[q] = phase[q]
    BY DEF Sdk!SdkInv, Sdk!SdkTypeOK
  <1>2. n \in Nonces /\ nonce[p] = {n} /\ n \in nonce'[p]
    BY Drawn
  <1>3. /\ \A m \in Nonces \ {n} : staging'[m] = staging[m]
        /\ staging' \in [Nonces -> [exists : BOOLEAN, source : Writers \cup {Old}, pkg : Sdk!Builds]]
    BY <1>1, <1>2, EmptyBuild DEF Sdk!SdkTypeOK
  <1>4. Sdk!SdkTypeOK'
    BY <1>1, <1>3 DEF Sdk!SdkTypeOK, Sdk!Phases
  <1>5. Sdk!UndrawnIsClean' /\ \A q \in Writers \ {p} : Sdk!ProcessInv(q)'
    BY <1>1, <1>2, <1>3, StagingOthers
  <1>6. Sdk!DrawsOnce(p)' /\ Sdk!BuildIsOwn(p)'
    BY <1>1 DEF Sdk!DrawsOnce, Sdk!BuildIsOwn, Sdk!Staged, Sdk!SdkEnded
  <1>7. Sdk!FilesAreOwn(p)'
    BY <1>1, FilesKept DEF Sdk!SdkEnded
  <1>8. QED BY <1>1, <1>4, <1>5, <1>6, <1>7

\* An incomplete package is dropped, the output untouched.
LEMMA RejectPackageInv ==
    ASSUME Sdk!SdkInv, NEW p \in Writers, Sdk!RejectPackage(p)
    PROVE  Sdk!SdkInv'
  <1>1. /\ phase[p] \in Sdk!Staged /\ "incomplete" \in Sdk!SdkEnded
        /\ phase' = [phase EXCEPT ![p] = "incomplete"]
        /\ staging' \in {staging, [staging EXCEPT ![Sdk!Nonce(p)] = Sdk!NoStaging]}
        /\ UNCHANGED <<command, places, packages, done, nonce, listing>>
    BY DEF Sdk!RejectPackage, Sdk!Moves, Sdk!Staged, Sdk!SdkEnded
  <1>2. /\ Sdk!SdkTypeOK' /\ Sdk!UndrawnIsClean'
        /\ \A q \in Writers \ {p} : Sdk!ProcessInv(q)'
        /\ Sdk!DrawsOnce(p)' /\ Sdk!BuildIsOwn(p)' /\ Sdk!FilesAreOwn(p)'
        /\ phase'[p] = "incomplete"
    BY <1>1, ForgetStaging
  <1>3. Sdk!CopyIsOwn(p)'
    BY <1>2 DEF Sdk!CopyIsOwn
  <1>4. QED BY <1>2, <1>3 DEF Sdk!SdkInv, Sdk!ProcessInv

\* When nothing is left to copy, the output holds the build: all of it, its own.
LEMMA FinishPackageInv ==
    ASSUME Sdk!SdkInv, NEW p \in Writers, Sdk!FinishPackage(p)
    PROVE  Sdk!SdkInv'
  <1>1. /\ phase[p] \in Sdk!Staged /\ phase[p] = "copy" /\ listing[p] = {}
        /\ "generated" \in Sdk!SdkEnded
        /\ phase' = [phase EXCEPT ![p] = "generated"]
        /\ staging' \in {staging, [staging EXCEPT ![Sdk!Nonce(p)] = Sdk!NoStaging]}
        /\ UNCHANGED <<command, places, packages, done, nonce, listing>>
    BY DEF Sdk!FinishPackage, Sdk!Moves, Sdk!Staged, Sdk!SdkEnded
  <1>2. /\ Sdk!SdkTypeOK' /\ Sdk!UndrawnIsClean'
        /\ \A q \in Writers \ {p} : Sdk!ProcessInv(q)'
        /\ Sdk!DrawsOnce(p)' /\ Sdk!BuildIsOwn(p)' /\ Sdk!FilesAreOwn(p)'
        /\ phase'[p] = "generated"
    BY <1>1, ForgetStaging
  <1>3. Sdk!CopyIsOwn(p)'
    <2>1. /\ Sdk!Alone(p)' <=> Sdk!Alone(p)
          /\ Sdk!Alone(p) => Sdk!OwnStaging(p)
          /\ Sdk!OutputOf(p)' = Sdk!OutputOf(p)
      BY <1>1, Unmoved
    <2>2. SUFFICES ASSUME Sdk!Alone(p), Sdk!OwnStaging(p) PROVE Sdk!CopyIsOwn(p)'
      BY <2>1 DEF Sdk!CopyIsOwn
    <2> DEFINE pkg == Sdk!Staging(p).pkg
    <2>3. /\ DOMAIN packages[Sdk!OutputOf(p)] = DOMAIN pkg
          /\ \A f \in DOMAIN pkg : packages[Sdk!OutputOf(p)][f] = Sdk!Holds(p, TRUE)
      BY <1>1, <2>2 DEF Sdk!SdkInv, Sdk!ProcessInv, Sdk!CopyIsOwn
    <2>4. Sdk!IsPackage(pkg)
      BY <1>1, <2>2 DEF Sdk!SdkInv, Sdk!ProcessInv, Sdk!BuildIsOwn
    <2>5. DOMAIN pkg \subseteq DOMAIN Artifacts
      BY <1>1, Drawn, BuildFilesAreArtifacts DEF Sdk!Staging, Sdk!SdkInv
    <2>6. Sdk!HasEveryKind(packages[Sdk!OutputOf(p)])
      BY <2>3, <2>4, <2>5, PackageHasEveryKind DEF Sdk!HasEveryKind
    <2>7. Sdk!HasEveryKind(packages[Sdk!OutputOf(p)])' /\ Sdk!Holds(p, TRUE)' = Sdk!Holds(p, TRUE)
      BY <1>1, <2>1, <2>6 DEF Sdk!HasEveryKind, Sdk!Holds
    <2>8. QED BY <1>1, <1>2, <2>1, <2>3, <2>7 DEF Sdk!CopyIsOwn
  <1>4. QED BY <1>2, <1>3 DEF Sdk!SdkInv, Sdk!ProcessInv

\* What a step of p into or inside the copying leaves as it is.
LEMMA CopyStep ==
    ASSUME Sdk!SdkInv, NEW p \in Writers,
           phase[p] \in {"replace", "copy", "copying"},
           NEW to \in {"replace", "copy", "copying"}, phase' = [phase EXCEPT ![p] = to],
           DOMAIN packages' = Outputs, listing' \in [Writers -> SUBSET DOMAIN Artifacts],
           \A o \in Outputs \ {Sdk!OutputOf(p)} : packages'[o] = packages[o],
           \A q \in Writers \ {p} : listing'[q] = listing[q],
           UNCHANGED <<command, places, staging, done, nonce>>
    PROVE  /\ Sdk!SdkTypeOK' /\ Sdk!UndrawnIsClean'
           /\ \A q \in Writers \ {p} : Sdk!ProcessInv(q)'
           /\ Sdk!DrawsOnce(p)' /\ Sdk!BuildIsOwn(p)' /\ Sdk!FilesAreOwn(p)'
           /\ phase'[p] = to
  <1>1. /\ Sdk!SdkTypeOK /\ phase'[p] = to /\ phase[p] \in Sdk!Staged /\ to \in Sdk!Staged
        /\ \A q \in Writers \ {p} : phase'[q] = phase[q]
    BY DEF Sdk!SdkInv, Sdk!SdkTypeOK, Sdk!Staged
  <1>2. Sdk!SdkTypeOK'
    BY <1>1 DEF Sdk!SdkTypeOK, Sdk!Phases
  <1>3. Sdk!UndrawnIsClean' /\ \A q \in Writers \ {p} : Sdk!ProcessInv(q)'
    BY <1>1, Others
  <1>4. Sdk!DrawsOnce(p)'
    BY <1>1 DEF Sdk!SdkInv, Sdk!ProcessInv, Sdk!DrawsOnce
  <1>5. Sdk!BuildIsOwn(p)'
    <2>1. Sdk!OwnStaging(p)' = Sdk!OwnStaging(p) /\ Sdk!Staging(p)' = Sdk!Staging(p)
      BY Unmoved
    <2>2. Sdk!BuildIsOwn(p)
      BY DEF Sdk!SdkInv, Sdk!ProcessInv
    <2>3. phase[p] \in Sdk!Staged /\ phase[p] \in {"replace", "copy", "copying"}
      BY <1>1
    <2>4. ASSUME Sdk!OwnStaging(p)
          PROVE  /\ Sdk!Staging(p).source = p
                 /\ \A f \in DOMAIN Sdk!Staging(p).pkg : Sdk!Staging(p).pkg[f] = Sdk!Holds(p, TRUE)
                 /\ Sdk!IsPackage(Sdk!Staging(p).pkg)
      BY <2>2, <2>3, <2>4 DEF Sdk!BuildIsOwn
    <2>5. Sdk!Holds(p, TRUE)' = Sdk!Holds(p, TRUE)
      BY DEF Sdk!Holds
    <2> HIDE DEF Sdk!OwnStaging, Sdk!Staging, Sdk!Holds, Sdk!IsPackage
    <2>6. QED BY <2>1, <2>4, <2>5 DEF Sdk!BuildIsOwn, Sdk!IsPackage
  <1>6. Sdk!FilesAreOwn(p)'
    BY <1>1, FilesKept
  <1>7. QED BY <1>1, <1>2, <1>3, <1>4, <1>5, <1>6

\* The old output goes file by file; nothing of it is counted on.
LEMMA RemoveFileInv ==
    ASSUME Sdk!SdkInv, NEW p \in Writers, Sdk!RemoveFile(p)
    PROVE  Sdk!SdkInv'
  <1>1. /\ phase[p] = "replace" /\ phase' = [phase EXCEPT ![p] = "replace"]
        /\ DOMAIN packages' = Outputs /\ listing' \in [Writers -> SUBSET DOMAIN Artifacts]
        /\ \A o \in Outputs \ {Sdk!OutputOf(p)} : packages'[o] = packages[o]
        /\ UNCHANGED <<command, places, staging, done, nonce, listing>>
    BY DEF Sdk!RemoveFile, Sdk!SdkInv, Sdk!SdkTypeOK
  <1>2. /\ Sdk!SdkTypeOK' /\ Sdk!UndrawnIsClean'
        /\ \A q \in Writers \ {p} : Sdk!ProcessInv(q)'
        /\ Sdk!DrawsOnce(p)' /\ Sdk!BuildIsOwn(p)' /\ Sdk!FilesAreOwn(p)'
        /\ phase'[p] = "replace"
    BY <1>1, CopyStep
  <1>3. Sdk!CopyIsOwn(p)'
    BY <1>2 DEF Sdk!CopyIsOwn
  <1>4. QED BY <1>2, <1>3 DEF Sdk!SdkInv, Sdk!ProcessInv

\* The copying starts from an empty output.
LEMMA ReplaceOutputInv ==
    ASSUME Sdk!SdkInv, NEW p \in Writers, Sdk!ReplaceOutput(p)
    PROVE  Sdk!SdkInv'
  <1> DEFINE pkg == Sdk!Staging(p).pkg
  <1>1. /\ phase[p] = "replace" /\ phase' = [phase EXCEPT ![p] = "copy"]
        /\ Sdk!SdkTypeOK /\ phase[p] \in Sdk!Staged
        /\ packages[Sdk!OutputOf(p)] = Sdk!Empty
        /\ listing' = [listing EXCEPT ![p] = DOMAIN pkg]
        /\ UNCHANGED <<command, places, packages, staging, done, nonce>>
    BY DEF Sdk!ReplaceOutput, Sdk!Moves, Sdk!SdkInv, Sdk!Staged
  <1>2. DOMAIN pkg \subseteq DOMAIN Artifacts
    BY <1>1, Drawn, BuildFilesAreArtifacts DEF Sdk!Staging
  <1>3. /\ DOMAIN packages' = Outputs /\ listing' \in [Writers -> SUBSET DOMAIN Artifacts]
        /\ listing'[p] = DOMAIN pkg
        /\ \A q \in Writers \ {p} : listing'[q] = listing[q]
    BY <1>1, <1>2 DEF Sdk!SdkTypeOK
  <1>4. /\ Sdk!SdkTypeOK' /\ Sdk!UndrawnIsClean'
        /\ \A q \in Writers \ {p} : Sdk!ProcessInv(q)'
        /\ Sdk!DrawsOnce(p)' /\ Sdk!BuildIsOwn(p)' /\ Sdk!FilesAreOwn(p)'
        /\ phase'[p] = "copy"
    BY <1>1, <1>3, CopyStep
  <1>5. Sdk!CopyIsOwn(p)'
    <2>1. Sdk!Staging(p)' = Sdk!Staging(p) /\ Sdk!OutputOf(p)' = Sdk!OutputOf(p)
      BY <1>1, Unmoved
    <2>2. DOMAIN packages'[Sdk!OutputOf(p)] = {}
      BY <1>1 DEF Sdk!Empty
    <2>3. QED BY <1>1, <1>3, <1>4, <2>1, <2>2 DEF Sdk!CopyIsOwn
  <1>6. QED BY <1>4, <1>5 DEF Sdk!SdkInv, Sdk!ProcessInv

\* The artifact being copied is there, in part or whole.
LEMMA CopyNextFile ==
    ASSUME Sdk!SdkInv, NEW p \in Writers, NEW whole \in BOOLEAN, Sdk!CopyNext(p, whole)
    PROVE  /\ DOMAIN packages' = Outputs
           /\ \A o \in Outputs \ {Sdk!OutputOf(p)} : packages'[o] = packages[o]
           /\ DOMAIN packages'[Sdk!OutputOf(p)] =
                DOMAIN packages[Sdk!OutputOf(p)] \cup {Sdk!NextArtifact(p)}
           /\ packages'[Sdk!OutputOf(p)][Sdk!NextArtifact(p)] =
                Sdk!Holds(Sdk!Staging(p).pkg[Sdk!NextArtifact(p)].by, whole)
           /\ \A f \in DOMAIN packages[Sdk!OutputOf(p)] :
                f # Sdk!NextArtifact(p) =>
                    packages'[Sdk!OutputOf(p)][f] = packages[Sdk!OutputOf(p)][f]
           /\ Sdk!NextArtifact(p) \in listing[p]
           /\ Sdk!NextArtifact(p) \in DOMAIN Sdk!Staging(p).pkg
  <1>1. DOMAIN packages = Outputs /\ Sdk!OutputOf(p) \in Outputs
    BY Told DEF Sdk!SdkInv, Sdk!SdkTypeOK
  <1>2. /\ DOMAIN packages' = Outputs
        /\ \A o \in Outputs \ {Sdk!OutputOf(p)} : packages'[o] = packages[o]
        /\ packages'[Sdk!OutputOf(p)] =
             Sdk!With(packages[Sdk!OutputOf(p)], Sdk!NextArtifact(p),
                      Sdk!Holds(Sdk!Staging(p).pkg[Sdk!NextArtifact(p)].by, whole))
    BY <1>1 DEF Sdk!CopyNext
  <1>3. Sdk!NextArtifact(p) \in listing[p] /\ Sdk!NextArtifact(p) \in DOMAIN Sdk!Staging(p).pkg
    BY DEF Sdk!CopyNext, Sdk!NextArtifact
  <1>4. QED BY <1>2, <1>3 DEF Sdk!With

\* An artifact that is being copied is there, not yet its bytes.
LEMMA BeginCopyInv ==
    ASSUME Sdk!SdkInv, NEW p \in Writers, Sdk!OpenCopy(p)
    PROVE  Sdk!SdkInv'
  <1> DEFINE pkg == Sdk!Staging(p).pkg
  <1> DEFINE out == Sdk!OutputOf(p)
  <1> DEFINE f == Sdk!NextArtifact(p)
  <1>1. /\ phase[p] = "copy" /\ phase' = [phase EXCEPT ![p] = "copying"]
        /\ Sdk!CopyNext(p, FALSE)
        /\ listing' \in [Writers -> SUBSET DOMAIN Artifacts]
        /\ UNCHANGED <<command, places, staging, done, nonce, listing>>
    BY DEF Sdk!OpenCopy, Sdk!Moves, Sdk!SdkInv, Sdk!SdkTypeOK
  <1>2. /\ DOMAIN packages' = Outputs
        /\ \A o \in Outputs \ {out} : packages'[o] = packages[o]
        /\ DOMAIN packages'[out] = DOMAIN packages[out] \cup {f}
        /\ \A g \in DOMAIN packages[out] : g # f => packages'[out][g] = packages[out][g]
        /\ f \in listing[p] /\ f \in DOMAIN pkg
    BY <1>1, CopyNextFile
  <1>3. /\ Sdk!SdkTypeOK' /\ Sdk!UndrawnIsClean'
        /\ \A q \in Writers \ {p} : Sdk!ProcessInv(q)'
        /\ Sdk!DrawsOnce(p)' /\ Sdk!BuildIsOwn(p)' /\ Sdk!FilesAreOwn(p)'
        /\ phase'[p] = "copying"
    BY <1>1, <1>2, CopyStep
  <1>4. Sdk!CopyIsOwn(p)'
    <2>1. /\ Sdk!Staging(p)' = Sdk!Staging(p) /\ Sdk!OutputOf(p)' = Sdk!OutputOf(p)
          /\ Sdk!Alone(p)' <=> Sdk!Alone(p)
          /\ Sdk!NextArtifact(p)' = Sdk!NextArtifact(p)
          /\ Sdk!Holds(p, TRUE)' = Sdk!Holds(p, TRUE)
      BY <1>1, Unmoved DEF Sdk!NextArtifact, Sdk!Holds
    <2>2. SUFFICES ASSUME Sdk!Alone(p) PROVE Sdk!CopyIsOwn(p)'
      BY <2>1 DEF Sdk!CopyIsOwn
    <2>3. /\ listing[p] \subseteq DOMAIN pkg
          /\ DOMAIN packages[out] = DOMAIN pkg \ listing[p]
          /\ \A g \in DOMAIN pkg \ listing[p] : packages[out][g] = Sdk!Holds(p, TRUE)
      BY <1>1, <2>2 DEF Sdk!SdkInv, Sdk!ProcessInv, Sdk!CopyIsOwn
    <2>4. /\ DOMAIN packages'[out] = (DOMAIN pkg \ listing[p]) \cup {g \in listing[p] : g = f}
          /\ \A g \in DOMAIN pkg \ listing[p] : packages'[out][g] = Sdk!Holds(p, TRUE)
          /\ listing[p] # {}
      <3>1. listing[p] # {}
        BY <1>2
      <3>2. {g \in listing[p] : g = f} = {f}
        BY <1>2
      <3>3. DOMAIN packages'[out] = (DOMAIN pkg \ listing[p]) \cup {f}
        BY <1>2, <2>3
      <3>4. \A g \in DOMAIN pkg \ listing[p] : g \in DOMAIN packages[out] /\ g # f
        BY <1>2, <2>3
      <3>5. ASSUME NEW g \in DOMAIN pkg \ listing[p]
            PROVE  packages'[out][g] = Sdk!Holds(p, TRUE)
        <4>1. packages'[out][g] = packages[out][g]
          BY <1>2, <3>4
        <4>2. QED BY <2>3, <4>1
      <3>6. QED BY <3>1, <3>2, <3>3, <3>5
    <2>5. QED BY <1>1, <1>3, <2>1, <2>3, <2>4 DEF Sdk!CopyIsOwn
  <1>5. QED BY <1>3, <1>4 DEF Sdk!SdkInv, Sdk!ProcessInv

\* An artifact that was copied is there whole, as it was built.
LEMMA EndCopyInv ==
    ASSUME Sdk!SdkInv, NEW p \in Writers, Sdk!FillCopy(p)
    PROVE  Sdk!SdkInv'
  <1> DEFINE pkg == Sdk!Staging(p).pkg
  <1> DEFINE out == Sdk!OutputOf(p)
  <1> DEFINE f == Sdk!NextArtifact(p)
  <1>1. /\ phase[p] = "copying" /\ phase' = [phase EXCEPT ![p] = "copy"]
        /\ Sdk!CopyNext(p, TRUE)
        /\ listing' = [listing EXCEPT ![p] = listing[p] \ {f}]
        /\ listing \in [Writers -> SUBSET DOMAIN Artifacts]
        /\ UNCHANGED <<command, places, staging, done, nonce>>
    BY DEF Sdk!FillCopy, Sdk!Moves, Sdk!SdkInv, Sdk!SdkTypeOK
  <1>2. /\ DOMAIN packages' = Outputs
        /\ \A o \in Outputs \ {out} : packages'[o] = packages[o]
        /\ DOMAIN packages'[out] = DOMAIN packages[out] \cup {f}
        /\ packages'[out][f] = Sdk!Holds(pkg[f].by, TRUE)
        /\ \A g \in DOMAIN packages[out] : g # f => packages'[out][g] = packages[out][g]
        /\ f \in listing[p] /\ f \in DOMAIN pkg
    BY <1>1, CopyNextFile
  <1>3. /\ listing' \in [Writers -> SUBSET DOMAIN Artifacts] /\ listing'[p] = listing[p] \ {f}
        /\ \A q \in Writers \ {p} : listing'[q] = listing[q]
    BY <1>1
  <1>4. /\ Sdk!SdkTypeOK' /\ Sdk!UndrawnIsClean'
        /\ \A q \in Writers \ {p} : Sdk!ProcessInv(q)'
        /\ Sdk!DrawsOnce(p)' /\ Sdk!BuildIsOwn(p)' /\ Sdk!FilesAreOwn(p)'
        /\ phase'[p] = "copy"
    BY <1>1, <1>2, <1>3, CopyStep
  <1>5. Sdk!CopyIsOwn(p)'
    <2>1. /\ Sdk!Staging(p)' = Sdk!Staging(p) /\ Sdk!OutputOf(p)' = Sdk!OutputOf(p)
          /\ Sdk!Alone(p)' <=> Sdk!Alone(p)
          /\ Sdk!Alone(p) => Sdk!OwnStaging(p)
          /\ Sdk!Holds(p, TRUE)' = Sdk!Holds(p, TRUE)
      BY <1>1, Unmoved DEF Sdk!Holds
    <2>2. SUFFICES ASSUME Sdk!Alone(p), Sdk!OwnStaging(p) PROVE Sdk!CopyIsOwn(p)'
      BY <2>1 DEF Sdk!CopyIsOwn
    <2>3. /\ listing[p] \subseteq DOMAIN pkg
          /\ DOMAIN packages[out] = (DOMAIN pkg \ listing[p]) \cup {g \in listing[p] : g = f}
          /\ \A g \in DOMAIN pkg \ listing[p] : packages[out][g] = Sdk!Holds(p, TRUE)
      BY <1>1, <2>2 DEF Sdk!SdkInv, Sdk!ProcessInv, Sdk!CopyIsOwn
    <2>4. pkg[f] = Sdk!Holds(p, TRUE)
      BY <1>1, <1>2, <2>2 DEF Sdk!SdkInv, Sdk!ProcessInv, Sdk!BuildIsOwn, Sdk!Staged
    <2>5. packages'[out][f] = Sdk!Holds(p, TRUE)
      BY <1>2, <2>4 DEF Sdk!Holds
    <2>6. /\ DOMAIN packages'[out] = DOMAIN pkg \ listing'[p]
          /\ \A g \in DOMAIN pkg \ listing'[p] : packages'[out][g] = Sdk!Holds(p, TRUE)
          /\ listing'[p] \subseteq DOMAIN pkg
      BY <1>2, <1>3, <2>3, <2>5
    <2>7. QED BY <1>1, <1>4, <2>1, <2>6 DEF Sdk!CopyIsOwn
  <1>6. QED BY <1>4, <1>5 DEF Sdk!SdkInv, Sdk!ProcessInv

\* Every step of every process keeps the invariant.
LEMMA SdkStepInv ==
    ASSUME Sdk!SdkInv, Sdk!SdkNext
    PROVE  Sdk!SdkInv'
  <1>1. PICK p \in Writers : Sdk!SdkStep(p) \/ Sdk!SdkKill(p)
    BY DEF Sdk!SdkNext
  <1>2. /\ phase[p] \in Sdk!Phases /\ {"write", "stage", "replace"} \subseteq Sdk!Phases
        /\ {"refused", "io", "build failed", "incomplete", "killed", "generated"} \subseteq Sdk!Phases
        /\ command[p].wasm \in BOOLEAN
    BY SdkAssumption DEF Sdk!SdkInv, Sdk!SdkTypeOK, Sdk!Phases, Sdk!Staged, Sdk!SdkEnded
  <1>3. CASE Sdk!Generate(p)
    BY <1>2, <1>3, QuietMove DEF Sdk!Generate
  <1>4. CASE Sdk!OpenFile(p)
    BY <1>4, BeginFileInv
  <1>5. CASE Sdk!FillFile(p)
    BY <1>5, EndFileInv
  <1>6. CASE Sdk!FilesWritten(p)
    <2>1. (IF command[p].wasm THEN "stage" ELSE "generated") \in Sdk!Phases
      BY <1>2
    <2>2. QED BY <1>6, <2>1, QuietMove DEF Sdk!FilesWritten, Sdk!Moves
  <1>7. CASE \E n \in Nonces : Sdk!Stage(p, n)
    BY <1>7, StageInv
  <1>8. CASE \E made \in SUBSET DOMAIN Artifacts : Sdk!Build(p, made)
    BY <1>8, BuildInv
  <1>9. CASE Sdk!BuildFails(p)
    BY <1>2, <1>9, QuietMove DEF Sdk!BuildFails, Sdk!Moves
  <1>10. CASE Sdk!RejectPackage(p)
    BY <1>10, RejectPackageInv
  <1>11. CASE Sdk!AcceptPackage(p)
    BY <1>2, <1>11, QuietMove DEF Sdk!AcceptPackage, Sdk!Moves
  <1>12. CASE Sdk!RemoveFile(p)
    BY <1>12, RemoveFileInv
  <1>13. CASE Sdk!ReplaceOutput(p)
    BY <1>13, ReplaceOutputInv
  <1>14. CASE Sdk!OpenCopy(p)
    BY <1>14, BeginCopyInv
  <1>15. CASE Sdk!FillCopy(p)
    BY <1>15, EndCopyInv
  <1>16. CASE Sdk!FinishPackage(p)
    BY <1>16, FinishPackageInv
  <1>17. CASE Sdk!CallFails(p)
    BY <1>2, <1>17, QuietMove DEF Sdk!CallFails
  <1>18. CASE Sdk!SdkKill(p)
    BY <1>2, <1>18, QuietMove DEF Sdk!SdkKill
  <1>19. QED BY <1>1, <1>3, <1>4, <1>5, <1>6, <1>7, <1>8, <1>9, <1>10, <1>11, <1>12, <1>13, <1>14,
                <1>15, <1>16, <1>17, <1>18 DEF Sdk!SdkStep

\* What does not touch the SDK processes keeps it too.
LEMMA SdkUnchanged == Sdk!SdkInv /\ UNCHANGED sdkState => Sdk!SdkInv'
  <1>1. SUFFICES ASSUME Sdk!SdkInv, UNCHANGED sdkState PROVE Sdk!SdkInv'
    OBVIOUS
  <1>2. UNCHANGED <<command, places, packages, staging, phase, done, nonce, listing>>
    BY <1>1 DEF sdkState
  <1>3. ASSUME NEW q \in Writers PROVE Sdk!ProcessInv(q)'
    BY <1>1, <1>2, Bystander DEF Sdk!SdkInv
  <1>4. Sdk!SdkTypeOK' /\ Sdk!UndrawnIsClean'
    BY <1>1, <1>2 DEF Sdk!SdkInv, Sdk!SdkTypeOK, Sdk!UndrawnIsClean, Sdk!NoStaging
  <1>5. QED BY <1>3, <1>4 DEF Sdk!SdkInv

\* The invariant holds before the processes run, whatever is at the outputs.
LEMMA SdkInit ==
    ASSUME NEW before, NEW start \in {"start", "killed"}, Sdk!Init(before, start)
    PROVE  Sdk!SdkInv
  <1>1. /\ command \in Commands /\ DOMAIN places = Outputs /\ DOMAIN packages = Outputs
        /\ \A n \in Nonces : staging[n] = Sdk!NoStaging
        /\ staging = [n \in Nonces |-> Sdk!NoStaging]
        /\ \A q \in Writers : /\ phase[q] = start /\ done[q] = 0
                              /\ nonce[q] = {} /\ listing[q] = {}
        /\ phase \in [Writers -> {start}] /\ done \in [Writers -> {0}]
        /\ nonce \in [Writers -> {{}}] /\ listing \in [Writers -> {{}}]
    BY DEF Sdk!Init
  <1>2. start \in Sdk!Phases /\ start \notin Sdk!Staged
        /\ start \notin {"write", "opened", "stage", "generated", "copy", "copying"}
    BY DEF Sdk!Phases, Sdk!SdkEnded, Sdk!Staged
  <1>3. Sdk!SdkTypeOK
    BY <1>1, <1>2, EmptyBuild DEF Sdk!SdkTypeOK
  <1>4. Sdk!UndrawnIsClean
    BY <1>1 DEF Sdk!UndrawnIsClean
  <1>5. ASSUME NEW q \in Writers PROVE Sdk!ProcessInv(q)
    <2>1. Len(command[q].files) \in Nat
      BY <1>3, Told
    <2>2. phase[q] = start /\ done[q] = 0 /\ nonce[q] = {} /\ 1..0 = {}
      BY <1>1
    <2>3. Sdk!DrawsOnce(q) /\ Sdk!BuildIsOwn(q) /\ Sdk!CopyIsOwn(q)
      BY <1>2, <2>2 DEF Sdk!DrawsOnce, Sdk!BuildIsOwn, Sdk!CopyIsOwn
    <2>4. Sdk!FilesAreOwn(q)
      BY <1>2, <2>1, <2>2 DEF Sdk!FilesAreOwn
    <2>5. QED BY <2>3, <2>4 DEF Sdk!ProcessInv
  <1>6. QED BY <1>3, <1>4, <1>5 DEF Sdk!SdkInv

\* Who has drawn a name stays one who has.
LEMMA DrawersStay ==
    ASSUME \A x \in Writers : nonce[x] \subseteq nonce'[x], command' = command
    PROVE  /\ \A n \in Nonces : Sdk!Drawers(n) \subseteq Sdk!Drawers(n)'
           /\ \A q \in Writers : Sdk!Sharers(q) \subseteq Sdk!Sharers(q)'
           /\ \A q \in Writers : /\ Sdk!OutputOf(q)' = Sdk!OutputOf(q)
                                 /\ Sdk!SharesNoOutput(q)' <=> Sdk!SharesNoOutput(q)
  BY DEF Sdk!Drawers, Sdk!Sharers, Sdk!OutputOf, Sdk!SharesNoOutput

\* Draws only add to what is drawn, and no step changes what a process was told.
LEMMA NothingUndrawn ==
    ASSUME Sdk!SdkInv, Sdk!SdkNext
    PROVE  (\A x \in Writers : nonce[x] \subseteq nonce'[x]) /\ command' = command
  <1>1. PICK p \in Writers : (\E n \in Nonces : Sdk!Stage(p, n)) \/ UNCHANGED nonce
    BY DEF Sdk!SdkNext, Sdk!SdkStep, Sdk!SdkKill, Sdk!Generate, Sdk!OpenFile, Sdk!FillFile,
           Sdk!FilesWritten, Sdk!Build, Sdk!BuildFails, Sdk!RejectPackage, Sdk!AcceptPackage,
           Sdk!RemoveFile, Sdk!ReplaceOutput, Sdk!OpenCopy, Sdk!FillCopy, Sdk!FinishPackage,
           Sdk!CallFails
  <1>2. ASSUME NEW n \in Nonces, Sdk!Stage(p, n)
        PROVE  \A x \in Writers : nonce[x] \subseteq nonce'[x]
    BY <1>2 DEF Sdk!Stage, Sdk!Moves, Sdk!SdkInv, Sdk!SdkTypeOK, Sdk!ProcessInv, Sdk!DrawsOnce
  <1>3. command' = command
    BY DEF Sdk!SdkNext, Sdk!SdkStep, Sdk!SdkKill, Sdk!Generate, Sdk!OpenFile, Sdk!FillFile,
           Sdk!FilesWritten, Sdk!Stage, Sdk!Build, Sdk!BuildFails, Sdk!RejectPackage,
           Sdk!AcceptPackage, Sdk!RemoveFile, Sdk!ReplaceOutput, Sdk!OpenCopy, Sdk!FillCopy,
           Sdk!FinishPackage, Sdk!CallFails
  <1>4. QED BY <1>1, <1>2, <1>3

\* wasm-pack compiles a source of somebody who drew the name of the directory.
LEMMA BuiltByDrawersStep ==
    ASSUME Sdk!SdkInv, Sdk!BuiltByDrawers, Sdk!SdkNext
    PROVE  Sdk!BuiltByDrawers'
  <1>1. \A n \in Nonces : Sdk!Drawers(n) \subseteq Sdk!Drawers(n)'
    BY NothingUndrawn, DrawersStay
  <1>2. /\ staging \in [Nonces -> [exists : BOOLEAN, source : Writers \cup {Old}, pkg : Sdk!Builds]]
        /\ \A n \in Nonces :
              /\ staging[n].exists => staging[n].source \in Sdk!Drawers(n)
              /\ \A f \in DOMAIN staging[n].pkg : staging[n].pkg[f].by \in Sdk!Drawers(n)
    BY DEF Sdk!SdkInv, Sdk!SdkTypeOK, Sdk!BuiltByDrawers
  <1>3. PICK p \in Writers :
           \/ \E n \in Nonces : Sdk!Stage(p, n)
           \/ \E made \in SUBSET DOMAIN Artifacts : Sdk!Build(p, made)
           \/ Sdk!RejectPackage(p) \/ Sdk!FinishPackage(p)
           \/ UNCHANGED staging
    BY DEF Sdk!SdkNext, Sdk!SdkStep, Sdk!SdkKill, Sdk!Generate, Sdk!OpenFile, Sdk!FillFile,
           Sdk!FilesWritten, Sdk!BuildFails, Sdk!RemoveFile, Sdk!OpenCopy, Sdk!FillCopy,
           Sdk!AcceptPackage, Sdk!ReplaceOutput, Sdk!CallFails
  <1>4. SUFFICES ASSUME NEW n \in Nonces
                 PROVE  /\ staging'[n].exists => staging'[n].source \in Sdk!Drawers(n)'
                        /\ \A f \in DOMAIN staging'[n].pkg : staging'[n].pkg[f].by \in Sdk!Drawers(n)'
    BY DEF Sdk!BuiltByDrawers
  <1>5. CASE staging'[n] = staging[n]
    BY <1>1, <1>2, <1>5
  <1>6. CASE staging'[n] = Sdk!NoStaging
    BY <1>6 DEF Sdk!NoStaging, Sdk!Empty
  <1>7. ASSUME NEW m \in Nonces, Sdk!Stage(p, m), n = m
        PROVE  /\ staging'[n].source \in Sdk!Drawers(n)'
               /\ \A f \in DOMAIN staging'[n].pkg : staging'[n].pkg[f].by \in Sdk!Drawers(n)'
    <2>1. staging'[n].source = p /\ staging'[n].pkg = staging[n].pkg
      BY <1>2, <1>7 DEF Sdk!Stage
    <2>2. n \in nonce'[p]
      BY <1>7 DEF Sdk!Stage, Sdk!SdkInv, Sdk!SdkTypeOK
    <2>3. QED BY <1>1, <1>2, <2>1, <2>2 DEF Sdk!Drawers
  <1>8. ASSUME NEW made \in SUBSET DOMAIN Artifacts, Sdk!Build(p, made), n = Sdk!Nonce(p)
        PROVE  /\ staging'[n].source \in Sdk!Drawers(n)'
               /\ \A f \in DOMAIN staging'[n].pkg : staging'[n].pkg[f].by \in Sdk!Drawers(n)'
    <2>1. /\ staging[n].exists /\ staging'[n].source = staging[n].source
          /\ staging'[n].pkg = [f \in DOMAIN staging[n].pkg \cup made |->
                IF f \in made THEN Sdk!Holds(staging[n].source, TRUE) ELSE staging[n].pkg[f]]
      BY <1>2, <1>8 DEF Sdk!Build, Sdk!Staging
    <2>2. staging[n].source \in Sdk!Drawers(n)'
      BY <1>1, <1>2, <2>1
    <2>3. \A f \in DOMAIN staging[n].pkg : staging[n].pkg[f].by \in Sdk!Drawers(n)'
      BY <1>1, <1>2
    <2>4. QED BY <2>1, <2>2, <2>3 DEF Sdk!Holds
  <1>9. ASSUME NEW m \in Nonces, Sdk!Stage(p, m), n # m PROVE staging'[n] = staging[n]
    BY <1>2, <1>9 DEF Sdk!Stage
  <1>10. ASSUME NEW made \in SUBSET DOMAIN Artifacts, Sdk!Build(p, made), n # Sdk!Nonce(p)
         PROVE  staging'[n] = staging[n]
    BY <1>2, <1>10 DEF Sdk!Build
  <1>11. ASSUME Sdk!RejectPackage(p) \/ Sdk!FinishPackage(p)
         PROVE  staging'[n] = staging[n] \/ staging'[n] = Sdk!NoStaging
    BY <1>2, <1>11 DEF Sdk!RejectPackage, Sdk!FinishPackage
  <1>12. QED BY <1>3, <1>5, <1>6, <1>7, <1>8, <1>9, <1>10, <1>11

\* What q copies was in its temporary directory.
LEMMA CopiedFromSharersStep ==
    ASSUME Sdk!SdkInv, Sdk!SharingInv, Sdk!SdkNext, NEW q \in Writers
    PROVE  Sdk!CopiedFromSharers(q)'
  <1> DEFINE out == Sdk!OutputOf(q)
  <1>1. /\ Sdk!Sharers(q) \subseteq Sdk!Sharers(q)' /\ Sdk!OutputOf(q)' = out
        /\ Sdk!SharesNoOutput(q)' <=> Sdk!SharesNoOutput(q)
        /\ command' = command
    BY NothingUndrawn, DrawersStay
  <1>2. SUFFICES ASSUME Sdk!SharesNoOutput(q) PROVE Sdk!CopiedFromSharers(q)'
    BY <1>1 DEF Sdk!CopiedFromSharers
  <1>3. /\ Sdk!SdkTypeOK /\ Sdk!BuiltByDrawers /\ Sdk!CopiedFromSharers(q)
        /\ phase \in [Writers -> Sdk!Phases] /\ listing \in [Writers -> SUBSET DOMAIN Artifacts]
        /\ DOMAIN packages = Outputs /\ out \in Outputs
    BY Told DEF Sdk!SdkInv, Sdk!SdkTypeOK, Sdk!SharingInv
  <1>4. ASSUME packages'[out] = packages[out],
               \/ phase'[q] = phase[q] /\ listing'[q] = listing[q]
               \/ phase[q] = "copy" /\ phase'[q] = "generated"
               \/ phase'[q] \notin {"copy", "copying", "generated"}
               \/ phase'[q] = "generated" /\ ~command[q].wasm
        PROVE  Sdk!CopiedFromSharers(q)'
    <2>1. \A f : Sdk!FromSharer(q, f) => Sdk!FromSharer(q, f)'
      BY <1>1, <1>4 DEF Sdk!FromSharer
    <2>2. listing'[q] = listing[q] => Sdk!NextArtifact(q)' = Sdk!NextArtifact(q)
      BY DEF Sdk!NextArtifact
    <2>3. QED BY <1>1, <1>2, <1>3, <1>4, <2>1, <2>2 DEF Sdk!CopiedFromSharers
  <1>5. PICK p \in Writers : Sdk!SdkStep(p) \/ Sdk!SdkKill(p)
    BY DEF Sdk!SdkNext
  <1>6. CASE p # q
    <2>1. Sdk!OutputOf(p) # out
      BY <1>2, <1>6 DEF Sdk!SharesNoOutput
    <2>2. phase'[q] = phase[q]
      BY <1>3, <1>5, <1>6 DEF Sdk!SdkStep, Sdk!SdkKill, Sdk!Moves, Sdk!Generate, Sdk!OpenFile,
         Sdk!FillFile, Sdk!FilesWritten, Sdk!Stage, Sdk!Build, Sdk!BuildFails, Sdk!RejectPackage,
         Sdk!AcceptPackage, Sdk!RemoveFile, Sdk!ReplaceOutput, Sdk!OpenCopy, Sdk!FillCopy,
         Sdk!FinishPackage, Sdk!CallFails
    <2>3. listing'[q] = listing[q]
      BY <1>3, <1>5, <1>6 DEF Sdk!SdkStep, Sdk!SdkKill, Sdk!Generate, Sdk!OpenFile,
         Sdk!FillFile, Sdk!FilesWritten, Sdk!Stage, Sdk!Build, Sdk!BuildFails, Sdk!RejectPackage,
         Sdk!AcceptPackage, Sdk!RemoveFile, Sdk!ReplaceOutput, Sdk!OpenCopy, Sdk!FillCopy,
         Sdk!FinishPackage, Sdk!CallFails
    <2>4. packages'[out] = packages[out]
      BY <1>3, <1>5, <2>1 DEF Sdk!SdkStep, Sdk!SdkKill, Sdk!Generate, Sdk!OpenFile,
         Sdk!FillFile, Sdk!FilesWritten, Sdk!Stage, Sdk!Build, Sdk!BuildFails, Sdk!RejectPackage,
         Sdk!AcceptPackage, Sdk!RemoveFile, Sdk!ReplaceOutput, Sdk!OpenCopy, Sdk!FillCopy,
         Sdk!FinishPackage, Sdk!CallFails, Sdk!CopyNext
    <2>5. QED BY <1>4, <2>2, <2>3, <2>4
  <1>7. CASE p = q /\ ~Sdk!ReplaceOutput(q) /\ ~Sdk!OpenCopy(q) /\ ~Sdk!FillCopy(q) /\ ~Sdk!RemoveFile(q)
    <2>1. packages' = packages
      BY <1>5, <1>7 DEF Sdk!SdkStep, Sdk!SdkKill, Sdk!Generate, Sdk!OpenFile,
         Sdk!FillFile, Sdk!FilesWritten, Sdk!Stage, Sdk!Build, Sdk!BuildFails, Sdk!RejectPackage,
         Sdk!AcceptPackage, Sdk!FinishPackage, Sdk!CallFails
    <2>2. \/ phase[q] = "copy" /\ phase'[q] = "generated"
          \/ phase'[q] \notin {"copy", "copying", "generated"}
          \/ phase'[q] = "generated" /\ ~command[q].wasm
      BY <1>3, <1>5, <1>7 DEF Sdk!SdkStep, Sdk!SdkKill, Sdk!Moves, Sdk!Generate, Sdk!OpenFile,
         Sdk!FillFile, Sdk!FilesWritten, Sdk!Stage, Sdk!Build, Sdk!BuildFails, Sdk!RejectPackage,
         Sdk!AcceptPackage, Sdk!FinishPackage, Sdk!CallFails
    <2>3. QED BY <1>4, <2>1, <2>2
  <1>8. CASE Sdk!RemoveFile(q)
    BY <1>3, <1>8 DEF Sdk!RemoveFile, Sdk!CopiedFromSharers
  <1>9. CASE Sdk!ReplaceOutput(q)
    <2>1. phase'[q] = "copy" /\ DOMAIN packages'[Sdk!OutputOf(q)'] = {}
      BY <1>1, <1>3, <1>9 DEF Sdk!ReplaceOutput, Sdk!Moves, Sdk!Empty
    <2>2. QED BY <2>1 DEF Sdk!CopiedFromSharers
  <1>10. CASE Sdk!OpenCopy(q) \/ Sdk!FillCopy(q)
    <2>0. PICK f : f = Sdk!NextArtifact(q)
      OBVIOUS
    <2>1. PICK whole \in BOOLEAN :
             /\ Sdk!CopyNext(q, whole)
             /\ IF whole THEN phase[q] = "copying" /\ phase'[q] = "copy"
                ELSE phase[q] = "copy" /\ phase'[q] = "copying" /\ listing' = listing
             /\ nonce' = nonce
      BY <1>3, <1>10 DEF Sdk!OpenCopy, Sdk!FillCopy, Sdk!Moves
    <2>2. /\ DOMAIN packages'[out] = DOMAIN packages[out] \cup {f}
          /\ packages'[out][f] = Sdk!Holds(Sdk!Staging(q).pkg[f].by, whole)
          /\ \A g \in DOMAIN packages[out] : g # f => packages'[out][g] = packages[out][g]
          /\ f \in DOMAIN Sdk!Staging(q).pkg
      BY <2>0, <2>1, CopyNextFile
    <2>3. \A g \in DOMAIN packages[out] : g # f => Sdk!FromSharer(q, g)
      BY <1>2, <1>3, <2>0, <2>1 DEF Sdk!CopiedFromSharers
    <2>4. \A g \in DOMAIN packages'[out] : g # f => Sdk!FromSharer(q, g)'
      BY <1>1, <2>2, <2>3 DEF Sdk!FromSharer
    <2>5. Sdk!Staging(q).pkg[f].by \in Sdk!Sharers(q)
      <3>1. Sdk!Nonce(q) \in Nonces /\ nonce[q] = {Sdk!Nonce(q)}
        BY <2>1, Drawn DEF Sdk!Staged
      <3>2. Sdk!Staging(q).pkg[f].by \in Sdk!Drawers(Sdk!Nonce(q))
        BY <1>3, <2>2, <3>1 DEF Sdk!BuiltByDrawers, Sdk!Staging
      <3>3. QED BY <3>1, <3>2 DEF Sdk!Drawers, Sdk!Sharers
    <2>6. whole => Sdk!FromSharer(q, f)'
      BY <1>1, <2>2, <2>5 DEF Sdk!FromSharer, Sdk!Holds
    <2>7. ~whole => Sdk!NextArtifact(q)' = f
      BY <2>0, <2>1 DEF Sdk!NextArtifact
    <2>8. QED BY <1>1, <2>1, <2>4, <2>6, <2>7 DEF Sdk!CopiedFromSharers
  <1>11. QED BY <1>5, <1>6, <1>7, <1>8, <1>9, <1>10

\* Nothing is staged or copied before the processes run.
LEMMA SharingStart ==
    ASSUME NEW before, NEW start \in {"start", "killed"}, Sdk!Init(before, start)
    PROVE  Sdk!SharingInv
  <1>1. /\ staging = [n \in Nonces |-> Sdk!NoStaging]
        /\ \A q \in Writers : phase[q] \notin {"copy", "copying", "generated"}
    BY DEF Sdk!Init
  <1>2. Sdk!BuiltByDrawers
    BY <1>1 DEF Sdk!BuiltByDrawers, Sdk!NoStaging, Sdk!Empty
  <1>3. QED BY <1>1, <1>2 DEF Sdk!SharingInv, Sdk!CopiedFromSharers

\* The two invariants give what a process that reported success has left.
LEMMA SdkInvOwn == Sdk!SdkInv /\ Sdk!SharingInv => SdkIsOwn
  <1>1. SUFFICES ASSUME Sdk!SdkInv, Sdk!SharingInv, NEW q \in Writers,
                        phase[q] = "generated", Sdk!SharesNoOutput(q)
                 PROVE  /\ \A i \in DOMAIN command[q].files :
                              places[Sdk!OutputOf(q)][command[q].files[i]] = Sdk!Holds(q, TRUE)
                        /\ command[q].wasm =>
                              /\ \A f \in DOMAIN packages[Sdk!OutputOf(q)] : Sdk!FromSharer(q, f)
                              /\ Sdk!OwnStaging(q) => Sdk!HasEveryKind(packages[Sdk!OutputOf(q)])
    BY DEF SdkIsOwn, Sdk!SdkIsOwn
  <1>2. Sdk!FilesAreOwn(q) /\ Sdk!CopyIsOwn(q) /\ Sdk!CopiedFromSharers(q)
    BY <1>1 DEF Sdk!SdkInv, Sdk!ProcessInv, Sdk!SharingInv
  <1>3. DOMAIN command[q].files = 1..Len(command[q].files)
    BY <1>1, Told DEF Sdk!SdkInv
  <1>4. Sdk!OwnStaging(q) => Sdk!Alone(q)
    BY <1>1 DEF Sdk!Alone
  <1>5. QED BY <1>1, <1>2, <1>3, <1>4 DEF Sdk!FilesAreOwn, Sdk!CopyIsOwn, Sdk!CopiedFromSharers

\* A step that changes what is at an output is one of a process with a build.
LEMMA OnlyBuildersWrite ==
    ASSUME Sdk!SdkInv, Sdk!SdkNext, NEW o \in Outputs
    PROVE  Sdk!OldIsKept(o)
  <1>0. SUFFICES ASSUME packages'[o] # packages[o]
                 PROVE  \E q \in Writers :
                           /\ Sdk!OutputOf(q) = o
                           /\ nonce[q] # {}
                           /\ Sdk!OwnStaging(q) => Sdk!HasEveryKind(Sdk!Staging(q).pkg)
    BY DEF Sdk!OldIsKept
  <1>1. PICK q \in Writers : Sdk!RemoveFile(q) \/ Sdk!OpenCopy(q) \/ Sdk!FillCopy(q)
    BY <1>0 DEF Sdk!SdkNext, Sdk!SdkStep, Sdk!SdkKill, Sdk!Generate, Sdk!OpenFile, Sdk!FillFile,
           Sdk!FilesWritten, Sdk!Stage, Sdk!Build, Sdk!BuildFails, Sdk!RejectPackage,
           Sdk!AcceptPackage, Sdk!ReplaceOutput, Sdk!FinishPackage, Sdk!CallFails
  <1>2. phase[q] \in {"replace", "copy", "copying"} /\ phase[q] \in Sdk!Staged
    BY <1>1 DEF Sdk!RemoveFile, Sdk!OpenCopy, Sdk!FillCopy, Sdk!Moves, Sdk!Staged
  <1>3. Sdk!OutputOf(q) = o
    <2>1. \/ \E old : packages' = [packages EXCEPT ![Sdk!OutputOf(q)] = old]
      BY <1>1 DEF Sdk!RemoveFile, Sdk!OpenCopy, Sdk!FillCopy, Sdk!CopyNext
    <2>2. DOMAIN packages = Outputs
      BY DEF Sdk!SdkInv, Sdk!SdkTypeOK
    <2>3. QED BY <1>0, <2>1, <2>2
  <1>4. nonce[q] # {} /\ Sdk!Nonce(q) \in Nonces
    BY <1>2, Drawn
  <1>5. ASSUME Sdk!OwnStaging(q) PROVE Sdk!HasEveryKind(Sdk!Staging(q).pkg)
    <2>1. Sdk!IsPackage(Sdk!Staging(q).pkg)
      BY <1>2, <1>5 DEF Sdk!SdkInv, Sdk!ProcessInv, Sdk!BuildIsOwn
    <2>2. DOMAIN Sdk!Staging(q).pkg \subseteq DOMAIN Artifacts
      BY <1>4, BuildFilesAreArtifacts DEF Sdk!SdkInv, Sdk!Staging
    <2>3. QED BY <2>1, <2>2, PackageHasEveryKind
  <1>6. QED BY <1>3, <1>4, <1>5

\* A directory changes at the hand of the one process that has drawn its name.
LEMMA OnlyItsOwnerChanges ==
    ASSUME Sdk!SdkInv, Sdk!SdkNext, NEW q \in Writers, nonce[q] # {}, Sdk!OwnStaging(q),
           Sdk!Nonce(q) \in Nonces, Sdk!Staging(q).pkg' # Sdk!Staging(q).pkg
    PROVE  \/ \E made \in SUBSET DOMAIN Artifacts : Sdk!Build(q, made)
           \/ Sdk!RejectPackage(q) \/ Sdk!FinishPackage(q)
  <1> DEFINE n == Sdk!Nonce(q)
  <1>1. n \in nonce[q]
    BY DEF Sdk!Nonce
  <1>2. PICK p \in Writers :
           \/ \E m \in Nonces : Sdk!Stage(p, m)
           \/ \E made \in SUBSET DOMAIN Artifacts : Sdk!Build(p, made)
           \/ Sdk!RejectPackage(p) \/ Sdk!FinishPackage(p)
           \/ UNCHANGED <<staging, nonce>>
    BY DEF Sdk!SdkNext, Sdk!SdkStep, Sdk!SdkKill, Sdk!Generate, Sdk!OpenFile, Sdk!FillFile,
           Sdk!FilesWritten, Sdk!BuildFails, Sdk!RemoveFile, Sdk!OpenCopy, Sdk!FillCopy,
           Sdk!AcceptPackage, Sdk!ReplaceOutput, Sdk!CallFails
  <1>3. UNCHANGED <<staging, nonce>> => Sdk!Staging(q)' = Sdk!Staging(q)
    BY DEF Sdk!Staging, Sdk!Nonce
  <1>4. ASSUME NEW m \in Nonces, Sdk!Stage(p, m) PROVE FALSE
    <2>1. nonce[p] = {} /\ p # q
      BY <1>4 DEF Sdk!Stage, Sdk!Moves, Sdk!SdkInv, Sdk!ProcessInv, Sdk!DrawsOnce
    <2>2. nonce'[q] = nonce[q] /\ staging'[n].pkg = staging[n].pkg
      BY <1>4, <2>1 DEF Sdk!Stage, Sdk!SdkInv, Sdk!SdkTypeOK
    <2>3. Sdk!Staging(q)' = staging'[n] /\ Sdk!Staging(q) = staging[n]
      BY <2>2 DEF Sdk!Staging, Sdk!Nonce
    <2>4. QED BY <2>2, <2>3
  <1>5. ASSUME p # q, phase[p] \in Sdk!Staged, nonce' = nonce,
               \A m \in Nonces \ {Sdk!Nonce(p)} : staging'[m] = staging[m]
        PROVE  FALSE
    <2>1. nonce[p] = {Sdk!Nonce(p)}
      BY <1>5, Drawn
    <2>2. n # Sdk!Nonce(p)
      BY <1>1, <1>5, <2>1 DEF Sdk!OwnStaging
    <2>3. staging'[n] = staging[n] /\ Sdk!Nonce(q)' = n
      BY <1>5, <2>2 DEF Sdk!Nonce
    <2>4. QED BY <2>3 DEF Sdk!Staging
  <1>6. \/ \E made \in SUBSET DOMAIN Artifacts : Sdk!Build(p, made)
        \/ Sdk!RejectPackage(p) \/ Sdk!FinishPackage(p)
    BY <1>2, <1>3, <1>4
  <1>7. phase[p] \in Sdk!Staged /\ nonce' = nonce
    BY <1>6 DEF Sdk!Build, Sdk!RejectPackage, Sdk!FinishPackage, Sdk!Moves, Sdk!Staged
  <1>8. \A m \in Nonces \ {Sdk!Nonce(p)} : staging'[m] = staging[m]
    BY <1>6 DEF Sdk!Build, Sdk!RejectPackage, Sdk!FinishPackage, Sdk!SdkInv, Sdk!SdkTypeOK
  <1>9. p = q
    BY <1>5, <1>7, <1>8
  <1>10. QED BY <1>6, <1>9

\* The build of a process that works alone is removed only once it is copied.
LEMMA BuildOutlivesCopy ==
    ASSUME Sdk!SdkInv, Sdk!SdkNext, NEW q \in Writers
    PROVE  Sdk!BuildIsKept(q)
  <1>1. SUFFICES ASSUME nonce[q] # {}, Sdk!Alone(q), Sdk!HasEveryKind(Sdk!Staging(q).pkg),
                        ~Sdk!HasEveryKind(Sdk!Staging(q).pkg)'
                 PROVE  Sdk!IsDelivered(q)
    BY DEF Sdk!BuildIsKept
  <1>2. Sdk!OwnStaging(q) /\ Sdk!Nonce(q) \in nonce[q] /\ Sdk!Nonce(q) \in Nonces
    BY <1>1 DEF Sdk!Alone, Sdk!Nonce, Sdk!SdkInv, Sdk!SdkTypeOK
  <1>3. Sdk!Staging(q).pkg' # Sdk!Staging(q).pkg
    BY <1>1 DEF Sdk!HasEveryKind
  <1>4. CASE \E made \in SUBSET DOMAIN Artifacts : Sdk!Build(q, made)
    <2>1. PICK made \in SUBSET DOMAIN Artifacts : Sdk!Build(q, made)
      BY <1>4
    <2>2. DOMAIN Sdk!Staging(q).pkg \subseteq DOMAIN Sdk!Staging(q)'.pkg
      <3>1. Sdk!Staging(q)' = staging'[Sdk!Nonce(q)] /\ Sdk!Staging(q) = staging[Sdk!Nonce(q)]
        BY <2>1 DEF Sdk!Build, Sdk!Staging, Sdk!Nonce
      <3>2. DOMAIN staging'[Sdk!Nonce(q)].pkg = DOMAIN staging[Sdk!Nonce(q)].pkg \cup made
        BY <1>2, <2>1 DEF Sdk!Build, Sdk!Staging, Sdk!SdkInv, Sdk!SdkTypeOK
      <3>3. QED BY <3>1, <3>2
    <2>3. QED BY <1>1, <2>2 DEF Sdk!HasEveryKind
  <1>5. CASE Sdk!RejectPackage(q)
    <2>1. ~Sdk!IsPackage(Sdk!Staging(q).pkg)
      BY <1>5 DEF Sdk!RejectPackage
    <2>2. QED BY <1>1, <2>1 DEF Sdk!HasEveryKind, Sdk!IsPackage
  <1>6. CASE Sdk!FinishPackage(q)
    <2>1. phase[q] = "copy" /\ listing[q] = {}
      BY <1>6 DEF Sdk!FinishPackage, Sdk!Moves
    <2>2. QED BY <1>1, <2>1 DEF Sdk!SdkInv, Sdk!ProcessInv, Sdk!CopyIsOwn, Sdk!IsDelivered
  <1>7. QED BY <1>1, <1>2, <1>3, <1>4, <1>5, <1>6, OnlyItsOwnerChanges

\* The inductive invariant of the SDK commands holds in every behaviour of the
\* command line.
THEOREM SdkInvariance == CliSpec => []Sdk!SdkInv
  <1>1. CliInit => Sdk!SdkInv
    BY SdkInit DEF CliInit
  <1>2. Sdk!SdkInv /\ [CliNext]_cliVars => Sdk!SdkInv'
    BY SdkStepInv, SdkUnchanged
    DEF CliNext, Publishing, Generating, AllGenerated, Judging, Reported, cliVars
  <1>3. QED BY <1>1, <1>2, PTL DEF CliSpec

\* A process that reported success at an output of its own left its own files
\* there and a package of whole files, built by those it shared its temporary
\* directory with, and complete when it shared it with nobody.
THEOREM OwnSdk == CliSpec => []SdkIsOwn
  <1>1. CliInit => Sdk!SharingInv
    BY SharingStart DEF CliInit
  <1>2. Sdk!SdkInv /\ Sdk!SharingInv /\ [CliNext]_cliVars => Sdk!SharingInv'
    <2>1. SUFFICES ASSUME Sdk!SdkInv, Sdk!SharingInv, [CliNext]_cliVars PROVE Sdk!SharingInv'
      OBVIOUS
    <2>2. CASE Sdk!SdkNext
      BY <2>1, <2>2, BuiltByDrawersStep, CopiedFromSharersStep DEF Sdk!SharingInv
    <2>3. CASE UNCHANGED sdkState
      BY <2>1, <2>3 DEF sdkState, Sdk!SharingInv, Sdk!BuiltByDrawers, Sdk!CopiedFromSharers,
         Sdk!Drawers, Sdk!SharesNoOutput, Sdk!FromSharer, Sdk!Sharers, Sdk!OutputOf, Sdk!NextArtifact
    <2>4. QED BY <2>1, <2>2, <2>3
              DEF CliNext, Publishing, Generating, AllGenerated, Judging, Reported, cliVars
  <1>3. QED BY <1>1, <1>2, SdkInvariance, SdkInvOwn, PTL DEF CliSpec

\* Whatever fails or is killed when, a whole package is left: only a process with a
\* complete build touches the one at an output, and the build of a process that
\* works alone is there until all of it is at the output.
THEOREM SdkNotLost == CliSpec => PackageNotLost
  <1> DEFINE Kept == /\ \A o \in Outputs : Sdk!OldIsKept(o)
                     /\ \A q \in Writers : Sdk!BuildIsKept(q)
  <1>1. Sdk!SdkInv /\ [CliNext]_cliVars => [Kept]_<<command, places, packages, staging, phase, done, nonce, listing>>
    <2>1. SUFFICES ASSUME Sdk!SdkInv, [CliNext]_cliVars PROVE Kept \/ UNCHANGED sdkState
      BY DEF sdkState
    <2>2. Sdk!SdkNext \/ UNCHANGED sdkState
      BY <2>1 DEF CliNext, Publishing, Generating, AllGenerated, Judging, Reported, cliVars
    <2>3. QED BY <2>1, <2>2, OnlyBuildersWrite, BuildOutlivesCopy
  <1>2. QED BY <1>1, SdkInvariance, PTL DEF CliSpec, PackageNotLost, Sdk!PackageNotLost, Sdk!sdkVars

----------------------------------------------------------------------------
(* The root commands. *)

\* Every objective can be compared.
Comparable == \A i \in DOMAIN roots : roots[i].cost \in [1..3 -> Nat]

Total(i) == roots[i].cost[1] + roots[i].cost[2] + roots[i].cost[3]

\* A nonempty set of naturals has a least element.
LEMMA LeastNatural ==
    ASSUME NEW S \in SUBSET Nat, S # {}
    PROVE  \E x \in S : \A y \in S : x <= y
  <1>1. PICK x \in S : \A y \in S : ~(<<y, x>> \in OpToRel(<, Nat))
    BY NatLessThanWellFounded, WFMin
  <1>2. \A y \in S : ~(y < x)
    BY <1>1 DEF OpToRel
  <1>3. QED BY <1>2

LEMMA Beaten ==
    ASSUME Comparable, NEW i \in DOMAIN roots, NEW j \in DOMAIN roots,
           Analysis!dominates(roots[j], roots[i])
    PROVE  Total(i) \in Nat /\ Total(j) \in Nat /\ Total(j) < Total(i)
  <1>1. \A k \in 1 .. 3 : roots[i].cost[k] \in Nat /\ roots[j].cost[k] \in Nat
    BY DEF Comparable
  <1>2. /\ roots[j].cost[1] <= roots[i].cost[1] /\ roots[j].cost[2] <= roots[i].cost[2]
        /\ roots[j].cost[3] <= roots[i].cost[3]
        /\ \E k \in 1 .. 3 : roots[j].cost[k] < roots[i].cost[k]
    BY DEF Analysis!dominates
  <1>3. \A k \in 1 .. 3 : k = 1 \/ k = 2 \/ k = 3
    OBVIOUS
  <1>4. \/ roots[j].cost[1] < roots[i].cost[1] \/ roots[j].cost[2] < roots[i].cost[2]
        \/ roots[j].cost[3] < roots[i].cost[3]
    BY <1>2, <1>3
  <1>5. /\ roots[i].cost[1] \in Nat /\ roots[i].cost[2] \in Nat /\ roots[i].cost[3] \in Nat
        /\ roots[j].cost[1] \in Nat /\ roots[j].cost[2] \in Nat /\ roots[j].cost[3] \in Nat
    BY <1>1
  <1>6. QED BY <1>2, <1>4, <1>5 DEF Total

LEMMA DominanceIsTransitive ==
    ASSUME Comparable, NEW i \in DOMAIN roots, NEW j \in DOMAIN roots, NEW k \in DOMAIN roots,
           Analysis!dominates(roots[k], roots[j]), Analysis!dominates(roots[j], roots[i])
    PROVE  Analysis!dominates(roots[k], roots[i])
  <1>1. \A n \in 1 .. 3 : /\ roots[i].cost[n] \in Nat /\ roots[j].cost[n] \in Nat /\ roots[k].cost[n] \in Nat
    BY DEF Comparable
  <1>2. QED BY <1>1 DEF Analysis!dominates

\* The least of those that beat a root is beaten by none, since it would be beaten
\* by one with a smaller total.
LEMMA FrontBeats ==
    ASSUME Comparable, NEW i \in DOMAIN roots \ Analysis!pareto_front
    PROVE  \E j \in Analysis!pareto_front : Analysis!dominates(roots[j], roots[i])
  <1> DEFINE B == {j \in DOMAIN roots : Analysis!dominates(roots[j], roots[i])}
             S == {Total(j) : j \in B}
  <1>1. S \in SUBSET Nat /\ S # {}
    <2>1. PICK j \in DOMAIN roots : Analysis!dominates(roots[j], roots[i])
      BY DEF Analysis!pareto_front
    <2>2. j \in B
      BY <2>1
    <2>3. \A k \in B : Total(k) \in Nat
      BY Beaten
    <2> HIDE DEF B
    <2>4. QED BY <2>2, <2>3
  <1>2. PICK j \in B : \A k \in B : Total(j) <= Total(k)
    <2>1. PICK x \in S : \A y \in S : x <= y
      <3> HIDE DEF S
      <3>1. QED BY <1>1, LeastNatural
    <2> HIDE DEF B
    <2>2. PICK j \in B : x = Total(j)
      BY <2>1
    <2>3. QED BY <2>1, <2>2
  <1>3. ASSUME NEW k \in DOMAIN roots, Analysis!dominates(roots[k], roots[j]) PROVE FALSE
    <2>1. k \in B
      BY <1>3, DominanceIsTransitive
    <2>2. Total(k) < Total(j) /\ Total(k) \in Nat /\ Total(j) \in Nat
      BY <1>3, Beaten
    <2>3. Total(j) <= Total(k)
      BY <1>2, <2>1
    <2>4. QED BY <2>2, <2>3
  <1>4. j \in Analysis!pareto_front
    BY <1>3 DEF Analysis!pareto_front
  <1>5. QED BY <1>2, <1>4

LEMMA AskedFrames ==
    ASSUME Analysis!SearchInv, path # << >>, NEW next
    PROVE  /\ Len(path) \in Nat /\ Len(path) >= 1
           /\ Analysis!Asked(next) \in Seq(Analysis!Activation)
           /\ Len(Analysis!Asked(next)) = Len(path)
           /\ \A k \in 1 .. Len(path) :
                /\ Analysis!Asked(next)[k].node = path[k].node
                /\ Analysis!Asked(next)[k].left =
                     IF k = Len(path) THEN path[k].left \ {next} ELSE path[k].left
  <1> DEFINE a == [node |-> path[Len(path)].node, left |-> path[Len(path)].left \ {next}]
  <1>1. path \in Seq(Analysis!Activation) /\ Len(path) \in Nat /\ Len(path) >= 1
    BY DEF Analysis!SearchInv
  <1>2. path[Len(path)] \in Analysis!Activation
    BY <1>1
  <1>3. a \in Analysis!Activation
    BY <1>2 DEF Analysis!Activation
  <1>4. a.node = path[Len(path)].node /\ a.left = path[Len(path)].left \ {next}
    OBVIOUS
  <1>5. Analysis!Asked(next) = [path EXCEPT ![Len(path)] = a]
    BY DEF Analysis!Asked
  <1> HIDE DEF a
  <1>6. Analysis!Asked(next) \in Seq(Analysis!Activation) /\ Len(Analysis!Asked(next)) = Len(path)
    BY <1>1, <1>3, <1>5
  <1>7. ASSUME NEW k \in 1 .. Len(path)
        PROVE  /\ Analysis!Asked(next)[k].node = path[k].node
               /\ Analysis!Asked(next)[k].left =
                    IF k = Len(path) THEN path[k].left \ {next} ELSE path[k].left
    <2>1. Analysis!Asked(next)[k] = IF k = Len(path) THEN a ELSE path[k]
      BY <1>1, <1>5, <1>7
    <2>2. QED BY <1>4, <2>1
  <1>8. QED BY <1>1, <1>6, <1>7

\* What holds of the search, one activation at a time.
LEMMA SearchFacts ==
    ASSUME Analysis!SearchInv, path # << >>
    PROVE  /\ marks \in [DOMAIN roots -> 0 .. 2]
           /\ Len(path) \in Nat /\ Len(path) >= 1
           /\ \A k \in 1 .. Len(path) : path[k] \in Analysis!Activation
           /\ Analysis!PathIsMarked /\ Analysis!AskedIsDone /\ Analysis!FinishedIsFree
  BY DEF Analysis!SearchInv

LEMMA BeginInv == Analysis!SearchInv /\ Analysis!Begin => Analysis!SearchInv'
  <1> SUFFICES ASSUME Analysis!Begin PROVE Analysis!SearchInv'
    OBVIOUS
  <1> DEFINE a == [node |-> Analysis!NoRoot, left |-> DOMAIN roots]
  <1>1. /\ path' = <<a>> /\ roots' = roots /\ marks' = [i \in DOMAIN roots |-> 0]
    BY DEF Analysis!Begin
  <1>2. a \in Analysis!Activation' /\ a.left = DOMAIN roots
    BY <1>1 DEF Analysis!Activation
  <1> HIDE DEF a
  <1>3. path' \in Seq(Analysis!Activation') /\ Len(path') = 1 /\ path'[1] = a
    BY <1>1, <1>2
  <1>4. Analysis!PathIsMarked'
    BY <1>1, <1>3 DEF Analysis!PathIsMarked
  <1>5. Analysis!AskedIsDone'
    BY <1>1, <1>2, <1>3 DEF Analysis!AskedIsDone, Analysis!Work
  <1>6. Analysis!FinishedIsFree'
    BY <1>1 DEF Analysis!FinishedIsFree, Analysis!Finished
  <1>7. marks' \in [DOMAIN roots' -> 0 .. 2]
    BY <1>1
  <1>8. QED BY <1>3, <1>4, <1>5, <1>6, <1>7 DEF Analysis!SearchInv

LEMMA SkipInv ==
    ASSUME Analysis!SearchInv, NEW next \in DOMAIN roots, Analysis!Skip(next)
    PROVE  Analysis!SearchInv'
  <1>1. /\ path # << >> /\ next \in path[Len(path)].left /\ marks[next] = 2
        /\ path' = Analysis!Asked(next) /\ roots' = roots /\ marks' = marks
    BY DEF Analysis!Skip, Analysis!Calls, Analysis!Top
  <1>2. /\ Len(path) \in Nat /\ Len(path) >= 1 /\ Len(path') = Len(path)
        /\ path' \in Seq(Analysis!Activation)
        /\ \A k \in 1 .. Len(path) :
             /\ path'[k].node = path[k].node
             /\ path'[k].left = IF k = Len(path) THEN path[k].left \ {next} ELSE path[k].left
    BY <1>1, AskedFrames
  <1>3. path' \in Seq(Analysis!Activation') /\ marks' \in [DOMAIN roots' -> 0 .. 2]
    BY <1>1, <1>2, SearchFacts DEF Analysis!Activation
  <1>4. Analysis!PathIsMarked'
    <2>1. Analysis!PathIsMarked
      BY <1>1, SearchFacts
    <2>2. \A k \in 3 .. Len(path) : k \in 1 .. Len(path) /\ k - 1 \in 1 .. Len(path)
      BY <1>2
    <2>3. \A k \in 2 .. Len(path) : k \in 1 .. Len(path)
      BY <1>2
    <2>4. \A i : Analysis!adjacency(i)' = Analysis!adjacency(i)
      BY <1>1 DEF Analysis!adjacency
    <2>5. ASSUME NEW i \in DOMAIN roots, marks[i] = 1 PROVE \E k \in 2 .. Len(path) : path'[k].node = i
      <3>1. PICK k \in 2 .. Len(path) : path[k].node = i
        BY <2>1, <2>5 DEF Analysis!PathIsMarked
      <3>2. path'[k].node = path[k].node
        BY <1>2, <2>3
      <3>3. QED BY <3>1, <3>2
    <2>6. \A k \in 2 .. Len(path) : path'[k].node \in DOMAIN roots /\ marks[path'[k].node] = 1
      BY <1>2, <2>1, <2>3 DEF Analysis!PathIsMarked
    <2>7. \A k, l \in 2 .. Len(path) : path'[k].node = path'[l].node => k = l
      BY <1>2, <2>1, <2>3 DEF Analysis!PathIsMarked
    <2>8. \A k \in 3 .. Len(path) : path'[k].node \in Analysis!adjacency(path'[k - 1].node)
      BY <1>2, <2>1, <2>2 DEF Analysis!PathIsMarked
    <2>9. QED BY <1>1, <1>2, <2>4, <2>5, <2>6, <2>7, <2>8 DEF Analysis!PathIsMarked
  <1>5. Analysis!AskedIsDone'
    <2>1. Analysis!AskedIsDone
      BY <1>1, SearchFacts
    <2>2. Analysis!Finished' = Analysis!Finished /\ next \in Analysis!Finished
      BY <1>1 DEF Analysis!Finished
    <2>3. \A k \in 1 .. Len(path) : Analysis!Work(k)' = Analysis!Work(k)
      BY <1>1, <1>2 DEF Analysis!Work, Analysis!adjacency
    <2>4. \A k \in 1 .. Len(path) : k < Len(path) => k + 1 \in 1 .. Len(path)
      BY <1>2
    <2>5. ASSUME NEW k \in 1 .. Len(path)
          PROVE  /\ path'[k].left \subseteq Analysis!Work(k)
                 /\ \A i \in Analysis!Work(k) \ path'[k].left :
                       i \in Analysis!Finished \/ (k < Len(path) /\ i = path'[k + 1].node)
      <3>1. /\ path[k].left \subseteq Analysis!Work(k)
            /\ \A i \in Analysis!Work(k) \ path[k].left :
                  i \in Analysis!Finished \/ (k < Len(path) /\ i = path[k + 1].node)
        BY <2>1 DEF Analysis!AskedIsDone
      <3>2. k < Len(path) => path'[k + 1].node = path[k + 1].node
        BY <1>2, <2>4
      <3>3. path'[k].left = IF k = Len(path) THEN path[k].left \ {next} ELSE path[k].left
        BY <1>2
      <3>4. QED BY <2>2, <3>1, <3>2, <3>3
    <2>6. QED BY <1>2, <2>2, <2>3, <2>5 DEF Analysis!AskedIsDone
  <1>6. Analysis!FinishedIsFree'
    <2>1. Analysis!FinishedIsFree
      BY <1>1, SearchFacts
    <2>2. QED BY <1>1, <2>1 DEF Analysis!FinishedIsFree, Analysis!Finished, Analysis!Knot
  <1>7. QED BY <1>3, <1>4, <1>5, <1>6 DEF Analysis!SearchInv

LEMMA DescendInv ==
    ASSUME Analysis!SearchInv, NEW next \in DOMAIN roots, Analysis!Descend(next)
    PROVE  Analysis!SearchInv'
  <1>0. PICK L : L = Len(path)
    OBVIOUS
  <1> DEFINE a == [node |-> next, left |-> Analysis!adjacency(next)]
  <1>1. /\ path # << >> /\ next \in path[L].left /\ marks[next] = 0
        /\ path' = Append(Analysis!Asked(next), a)
        /\ roots' = roots /\ marks' = [marks EXCEPT ![next] = 1]
    BY <1>0 DEF Analysis!Descend, Analysis!Calls, Analysis!Top
  <1>2. a \in Analysis!Activation /\ a.node = next /\ a.left = Analysis!adjacency(next)
    BY DEF Analysis!Activation, Analysis!adjacency
  <1> HIDE DEF a
  <1>3. /\ L \in Nat /\ L >= 1 /\ Len(path') = L + 1
        /\ path' \in Seq(Analysis!Activation)
        /\ path'[L + 1] = a
        /\ \A k \in 1 .. L :
             /\ path'[k].node = path[k].node
             /\ path'[k].left = IF k = L THEN path[k].left \ {next} ELSE path[k].left
    <2>0. path # << >>
      BY <1>1
    <2>1. /\ L \in Nat /\ L >= 1
          /\ Analysis!Asked(next) \in Seq(Analysis!Activation)
          /\ Len(Analysis!Asked(next)) = L
      BY <1>0, <2>0, AskedFrames
    <2> DEFINE asked == Analysis!Asked(next)
    <2>2. path' = Append(asked, a)
      BY <1>1
    <2> HIDE DEF asked
    <2>3. /\ path' \in Seq(Analysis!Activation) /\ Len(path') = L + 1 /\ path'[L + 1] = a
          /\ \A k \in 1 .. L : path'[k] = asked[k]
      BY <1>2, <2>1, <2>2 DEF asked
    <2>4. \A k \in 1 .. L :
             /\ Analysis!Asked(next)[k].node = path[k].node
             /\ Analysis!Asked(next)[k].left = IF k = L THEN path[k].left \ {next} ELSE path[k].left
      BY <1>0, <2>0, AskedFrames
    <2>5. QED BY <2>1, <2>3, <2>4 DEF asked
  <1>4. marks \in [DOMAIN roots -> 0 .. 2] /\ marks' \in [DOMAIN roots -> 0 .. 2]
        /\ \A i \in DOMAIN roots : marks'[i] = IF i = next THEN 1 ELSE marks[i]
    BY <1>1, SearchFacts
  <1>5. path' \in Seq(Analysis!Activation')
    BY <1>1, <1>3 DEF Analysis!Activation
  <1>6. /\ \A i : Analysis!adjacency(i)' = Analysis!adjacency(i)
        /\ \A k : k # L + 1 /\ k \in 1 .. L => Analysis!Work(k)' = Analysis!Work(k)
        /\ Analysis!Work(L + 1)' = Analysis!adjacency(next)
    <2>1. \A i : Analysis!adjacency(i)' = Analysis!adjacency(i)
      BY <1>1 DEF Analysis!adjacency
    <2>2. \A k \in 1 .. L : Analysis!Work(k)' = Analysis!Work(k)
      BY <1>1, <1>3, <2>1 DEF Analysis!Work
    <2>3. Analysis!Work(L + 1)' = Analysis!adjacency(next)
      <3>1. L + 1 # 1 /\ path'[L + 1].node = next
        BY <1>2, <1>3
      <3>2. QED BY <1>1, <3>1 DEF Analysis!Work, Analysis!adjacency
    <2>4. QED BY <2>1, <2>2, <2>3
  <1>7. Analysis!PathIsMarked /\ Analysis!AskedIsDone /\ Analysis!FinishedIsFree
    BY <1>1, SearchFacts
  <1>8. Analysis!PathIsMarked'
    <2>1. \A k \in 2 .. L : path[k].node \in DOMAIN roots /\ marks[path[k].node] = 1 /\ path[k].node # next
      BY <1>0, <1>1, <1>7 DEF Analysis!PathIsMarked
    <2>2. \A k \in 2 .. L : k \in 1 .. L /\ k \in 2 .. L + 1
      BY <1>3
    <2>3. \A k \in 2 .. L + 1 : k \in 2 .. L \/ k = L + 1
      BY <1>3
    <2>4. ASSUME NEW i \in DOMAIN roots, marks'[i] = 1 PROVE \E k \in 2 .. L + 1 : path'[k].node = i
      <3>1. CASE i = next
        BY <1>0, <1>2, <1>3, <3>1
      <3>2. CASE i # next
        <4>1. PICK k \in 2 .. L : path[k].node = i
          BY <1>0, <1>4, <1>7, <2>4, <3>2 DEF Analysis!PathIsMarked
        <4>2. QED BY <1>3, <2>2, <4>1
      <3>3. QED BY <3>1, <3>2
    <2>5. ASSUME NEW k \in 2 .. L + 1 PROVE path'[k].node \in DOMAIN roots /\ marks'[path'[k].node] = 1
      <3>1. CASE k = L + 1
        BY <1>2, <1>3, <1>4, <3>1
      <3>2. CASE k \in 2 .. L
        BY <1>3, <1>4, <2>1, <2>2, <3>2
      <3>3. QED BY <2>3, <3>1, <3>2
    <2>6. ASSUME NEW k \in 2 .. L + 1, NEW l \in 2 .. L + 1, path'[k].node = path'[l].node
          PROVE  k = l
      <3>1. \A m \in 2 .. L : path'[m].node = path[m].node /\ path'[m].node # next
        BY <1>3, <2>1, <2>2
      <3>2. path'[L + 1].node = next
        BY <1>2, <1>3
      <3>3. \A m, n \in 2 .. L : path[m].node = path[n].node => m = n
        BY <1>0, <1>7 DEF Analysis!PathIsMarked
      <3>4. QED BY <2>3, <2>6, <3>1, <3>2, <3>3
    <2>7. ASSUME NEW k \in 3 .. L + 1 PROVE path'[k].node \in Analysis!adjacency(path'[k - 1].node)
      <3>1. CASE k = L + 1
        <4>1. L \in 2 .. L
          BY <1>3, <2>7, <3>1
        <4>2. path[L].left \subseteq Analysis!adjacency(path[L].node)
          BY <1>0, <1>3, <1>7, <4>1 DEF Analysis!AskedIsDone, Analysis!Work
        <4>3. k - 1 = L /\ path'[k].node = next /\ path'[L].node = path[L].node
          <5>1. k - 1 = L /\ L \in 1 .. L
            BY <1>3, <3>1
          <5>2. path'[k].node = next
            BY <1>2, <1>3, <3>1
          <5>3. path'[L].node = path[L].node
            BY <1>3, <5>1
          <5>4. QED BY <5>1, <5>2, <5>3
        <4>4. QED BY <1>0, <1>1, <4>2, <4>3
      <3>2. CASE k # L + 1
        <4>1. k \in 3 .. L /\ k \in 1 .. L /\ k - 1 \in 1 .. L
          BY <1>3, <3>2
        <4>2. path[k].node \in Analysis!adjacency(path[k - 1].node)
          BY <1>0, <1>7, <4>1 DEF Analysis!PathIsMarked
        <4>3. QED BY <1>3, <4>1, <4>2
      <3>3. QED BY <3>1, <3>2
    <2>8. QED BY <1>0, <1>1, <1>3, <1>6, <2>4, <2>5, <2>6, <2>7 DEF Analysis!PathIsMarked
  <1>9. Analysis!AskedIsDone'
    <2>1. Analysis!Finished' = Analysis!Finished
      BY <1>1, <1>4 DEF Analysis!Finished
    <2>2. ASSUME NEW k \in 1 .. L
          PROVE  /\ path'[k].left \subseteq Analysis!Work(k)
                 /\ \A i \in Analysis!Work(k) \ path'[k].left :
                       i \in Analysis!Finished \/ i = path'[k + 1].node
      <3>1. /\ path[k].left \subseteq Analysis!Work(k)
            /\ \A i \in Analysis!Work(k) \ path[k].left :
                  i \in Analysis!Finished \/ (k < L /\ i = path[k + 1].node)
        BY <1>0, <1>7 DEF Analysis!AskedIsDone
      <3>2. CASE k = L
        <4>1. path'[k].left = path[k].left \ {next} /\ path'[k + 1].node = next
          BY <1>2, <1>3, <3>2
        <4>2. ~(k < L)
          BY <1>3, <3>2
        <4>3. QED BY <3>1, <4>1, <4>2
      <3>3. CASE k # L
        <4>1. k < L /\ k + 1 \in 1 .. L
          BY <1>3, <3>3
        <4>2. QED BY <1>3, <3>1, <3>3, <4>1
      <3>4. QED BY <3>2, <3>3
    <2>3. path'[L + 1].left = Analysis!adjacency(next)
      BY <1>2, <1>3
    <2>4. ASSUME NEW k \in 1 .. L + 1
          PROVE  /\ path'[k].left \subseteq Analysis!Work(k)'
                 /\ \A i \in Analysis!Work(k)' \ path'[k].left :
                       i \in Analysis!Finished' \/ (k < L + 1 /\ i = path'[k + 1].node)
      <3>1. CASE k = L + 1
        <4>1. path'[k].left = Analysis!adjacency(next) /\ Analysis!Work(k)' = Analysis!adjacency(next)
          BY <1>6, <2>3, <3>1
        <4>2. QED BY <4>1
      <3>2. CASE k # L + 1
        <4>1. k \in 1 .. L /\ k < L + 1
          BY <1>3, <3>2
        <4>2. QED BY <1>6, <2>1, <2>2, <4>1
      <3>3. QED BY <3>1, <3>2
    <2>5. QED BY <1>3, <2>4 DEF Analysis!AskedIsDone
  <1>10. Analysis!FinishedIsFree'
    <2>1. Analysis!Finished' = Analysis!Finished
      BY <1>1, <1>4 DEF Analysis!Finished
    <2>2. QED BY <1>1, <1>7, <2>1 DEF Analysis!FinishedIsFree, Analysis!Knot
  <1>11. QED BY <1>1, <1>4, <1>5, <1>8, <1>9, <1>10 DEF Analysis!SearchInv

\* A root is finished when all it depends on is, so no knot can hold it.
LEMMA LeaveInv == Analysis!SearchInv /\ Analysis!Leave => Analysis!SearchInv'
  <1> SUFFICES ASSUME Analysis!SearchInv, Analysis!Leave PROVE Analysis!SearchInv'
    OBVIOUS
  <1>1. PICK L : L = Len(path)
    OBVIOUS
  <1>2. PICK n : n = path[L].node
    OBVIOUS
  <1>3. /\ path # << >> /\ L > 1 /\ path[L].left = {}
        /\ path' = SubSeq(path, 1, L - 1) /\ roots' = roots /\ marks' = [marks EXCEPT ![n] = 2]
    BY <1>1, <1>2 DEF Analysis!Leave, Analysis!Top
  <1>4. L \in Nat /\ path \in Seq(Analysis!Activation)
    BY <1>1 DEF Analysis!SearchInv
  <1>5. /\ path' \in Seq(Analysis!Activation) /\ Len(path') = L - 1
        /\ \A k \in 1 .. L - 1 : path'[k] = path[k]
    BY <1>1, <1>3, <1>4
  <1>6. marks \in [DOMAIN roots -> 0 .. 2] /\ Analysis!PathIsMarked /\ Analysis!AskedIsDone /\ Analysis!FinishedIsFree
    BY <1>3, SearchFacts
  <1>7. /\ L \in 1 .. L /\ L \in 2 .. L /\ L - 1 \in Nat
        /\ \A k \in 1 .. L - 1 : k \in 1 .. L /\ k < L
        /\ \A k \in 2 .. L - 1 : k \in 2 .. L /\ k \in 1 .. L - 1 /\ k # L
        /\ \A k \in 3 .. L - 1 : k \in 3 .. L /\ k \in 1 .. L - 1 /\ k - 1 \in 1 .. L - 1
        /\ \A k \in 2 .. L : k # L => k \in 2 .. L - 1
    BY <1>3, <1>4
  <1>8. n \in DOMAIN roots /\ marks[n] = 1
    BY <1>1, <1>2, <1>6, <1>7 DEF Analysis!PathIsMarked
  <1>9. /\ marks' \in [DOMAIN roots -> 0 .. 2]
        /\ \A i \in DOMAIN roots : marks'[i] = IF i = n THEN 2 ELSE marks[i]
    BY <1>3, <1>6, <1>8
  <1>10. Analysis!Finished' = Analysis!Finished \cup {n}
    BY <1>3, <1>8, <1>9 DEF Analysis!Finished
  <1>11. \A i : Analysis!adjacency(i)' = Analysis!adjacency(i)
    BY <1>3 DEF Analysis!adjacency
  <1>12. Analysis!adjacency(n) \subseteq Analysis!Finished
    <2>1. \A i \in Analysis!Work(L) \ path[L].left : i \in Analysis!Finished \/ L < L
      BY <1>1, <1>6, <1>7 DEF Analysis!AskedIsDone
    <2>2. Analysis!Work(L) = Analysis!adjacency(n)
      BY <1>2, <1>3 DEF Analysis!Work
    <2>3. QED BY <1>3, <1>4, <2>1, <2>2
  <1>13. Analysis!PathIsMarked'
    <2>1. /\ \A i \in DOMAIN roots : marks[i] = 1 => \E k \in 2 .. L : path[k].node = i
          /\ \A k \in 2 .. L : path[k].node \in DOMAIN roots /\ marks[path[k].node] = 1
          /\ \A k, l \in 2 .. L : path[k].node = path[l].node => k = l
          /\ \A k \in 3 .. L : path[k].node \in Analysis!adjacency(path[k - 1].node)
      BY <1>1, <1>6 DEF Analysis!PathIsMarked
    <2>2. ASSUME NEW i \in DOMAIN roots, marks'[i] = 1 PROVE \E k \in 2 .. L - 1 : path'[k].node = i
      <3>1. i # n /\ marks[i] = 1
        BY <1>9, <2>2
      <3>2. PICK k \in 2 .. L : path[k].node = i
        BY <2>1, <3>1
      <3>3. k # L
        BY <1>2, <3>1, <3>2
      <3>4. QED BY <1>5, <1>7, <3>2, <3>3
    <2>3. ASSUME NEW k \in 2 .. L - 1 PROVE path'[k].node \in DOMAIN roots /\ marks'[path'[k].node] = 1
      <3>1. path'[k] = path[k] /\ path[k].node # n
        BY <1>2, <1>5, <1>7, <2>1
      <3>2. QED BY <1>7, <1>9, <2>1, <3>1
    <2>4. \A k, l \in 2 .. L - 1 : path'[k].node = path'[l].node => k = l
      BY <1>5, <1>7, <2>1
    <2>5. \A k \in 3 .. L - 1 : path'[k].node \in Analysis!adjacency(path'[k - 1].node)
      BY <1>5, <1>7, <2>1
    <2>6. QED BY <1>3, <1>5, <1>11, <2>2, <2>3, <2>4, <2>5 DEF Analysis!PathIsMarked
  <1>14. Analysis!AskedIsDone'
    <2>1. ASSUME NEW k \in 1 .. L - 1
          PROVE  /\ path'[k].left \subseteq Analysis!Work(k)'
                 /\ \A i \in Analysis!Work(k)' \ path'[k].left :
                       i \in Analysis!Finished' \/ (k < L - 1 /\ i = path'[k + 1].node)
      <3>1. /\ path[k].left \subseteq Analysis!Work(k)
            /\ \A i \in Analysis!Work(k) \ path[k].left :
                  i \in Analysis!Finished \/ (k < L /\ i = path[k + 1].node)
        BY <1>1, <1>6, <1>7 DEF Analysis!AskedIsDone
      <3>2. path'[k] = path[k]
        BY <1>5
      <3>3. Analysis!Work(k)' = Analysis!Work(k)
        BY <1>3, <1>11, <3>2 DEF Analysis!Work
      <3>4. CASE k = L - 1
        <4>1. k + 1 = L
          BY <1>4, <3>4
        <4>2. QED BY <1>2, <1>10, <3>1, <3>2, <3>3, <4>1
      <3>5. CASE k # L - 1
        <4>1. k < L - 1 /\ k + 1 \in 1 .. L - 1
          BY <1>4, <3>5
        <4>2. path'[k + 1] = path[k + 1]
          BY <1>5, <4>1
        <4>3. QED BY <1>10, <3>1, <3>2, <3>3, <4>1, <4>2
      <3>6. QED BY <3>4, <3>5
    <2>2. QED BY <1>5, <2>1 DEF Analysis!AskedIsDone
  <1>15. Analysis!FinishedIsFree'
    <2>1. ASSUME NEW S \in SUBSET DOMAIN roots, Analysis!Knot(S) PROVE S \cap (Analysis!Finished \cup {n}) = {}
      <3>1. S \cap Analysis!Finished = {}
        BY <1>6, <2>1 DEF Analysis!FinishedIsFree
      <3>2. ASSUME n \in S PROVE FALSE
        <4>1. PICK j \in S : Analysis!DependsOn(roots[n], roots[j])
          BY <2>1, <3>2 DEF Analysis!Knot
        <4>2. j \in Analysis!adjacency(n)
          BY <4>1 DEF Analysis!adjacency
        <4>3. QED BY <1>12, <3>1, <4>2
      <3>3. QED BY <3>1, <3>2
    <2>2. \A S : Analysis!Knot(S)' = Analysis!Knot(S)
      BY <1>3 DEF Analysis!Knot
    <2>3. QED BY <1>3, <1>10, <2>1, <2>2 DEF Analysis!FinishedIsFree
  <1>16. path' \in Seq(Analysis!Activation')
    BY <1>3, <1>5 DEF Analysis!Activation
  <1>17. QED BY <1>3, <1>9, <1>13, <1>14, <1>15, <1>16 DEF Analysis!SearchInv

\* A root met on the path closes a knot: the roots from it on up.
LEMMA CycleIsKnot ==
    ASSUME Analysis!SearchInv, NEW next \in DOMAIN roots, Analysis!FindCycle(next)
    PROVE  \E S \in SUBSET DOMAIN roots : Analysis!Knot(S)
  <1>1. PICK L : L = Len(path)
    OBVIOUS
  <1>2. path # << >> /\ next \in path[L].left /\ marks[next] = 1
    BY <1>1 DEF Analysis!FindCycle, Analysis!Calls, Analysis!Top
  <1>3. L \in Nat /\ L >= 1 /\ Analysis!PathIsMarked /\ Analysis!AskedIsDone
    BY <1>1, <1>2, SearchFacts
  <1>4. PICK m \in 2 .. L : path[m].node = next
    BY <1>1, <1>2, <1>3 DEF Analysis!PathIsMarked
  <1> DEFINE S == {path[k].node : k \in m .. L}
  <1>5. L > 1 /\ L \in 1 .. L /\ m \in m .. L /\ \A k \in m .. L : k \in 2 .. L
    BY <1>3, <1>4
  <1>6. S \in SUBSET DOMAIN roots
    BY <1>1, <1>3, <1>5 DEF Analysis!PathIsMarked
  <1>7. next \in Analysis!adjacency(path[L].node)
    BY <1>1, <1>2, <1>3, <1>5 DEF Analysis!AskedIsDone, Analysis!Work
  <1>8. ASSUME NEW k \in m .. L
        PROVE  \E j \in S : Analysis!DependsOn(roots[path[k].node], roots[j])
    <2>1. CASE k = L
      BY <1>4, <1>5, <1>7, <2>1 DEF Analysis!adjacency
    <2>2. CASE k # L
      <3>1. k + 1 \in m .. L /\ k + 1 \in 3 .. L /\ (k + 1) - 1 = k
        BY <1>3, <1>4, <2>2
      <3>2. path[k + 1].node \in Analysis!adjacency(path[k].node)
        BY <1>1, <1>3, <3>1 DEF Analysis!PathIsMarked
      <3>3. QED BY <3>1, <3>2 DEF Analysis!adjacency
    <2>3. QED BY <2>1, <2>2
  <1>9. Analysis!Knot(S)
    BY <1>5, <1>8 DEF Analysis!Knot
  <1>10. QED BY <1>6, <1>9

\* When the last search has ended every root is finished.
LEMMA PassedIsFree ==
    ASSUME Analysis!SearchInv, Analysis!Pass, NEW S \in SUBSET DOMAIN roots
    PROVE  ~Analysis!Knot(S)
  <1>1. path # << >> /\ Len(path) = 1 /\ path[1].left = {}
    BY DEF Analysis!Pass, Analysis!Top
  <1>2. Analysis!AskedIsDone /\ Analysis!FinishedIsFree
    BY <1>1, SearchFacts
  <1>3. DOMAIN roots \subseteq Analysis!Finished
    BY <1>1, <1>2 DEF Analysis!AskedIsDone, Analysis!Work
  <1>4. QED BY <1>2, <1>3 DEF Analysis!FinishedIsFree, Analysis!Knot

\* What a command has reported, once it has.
LEMMA OneReport ==
    ASSUME NEW r
    PROVE  Analysis!Range(<<r>>) = {r} /\ Analysis!Range(<< >>) = {}
  BY DEF Analysis!Range

LEMMA CheckStepKeeps ==
    ASSUME Analysis!SearchInv, Analysis!CheckStep
    PROVE  /\ Analysis!SearchInv' /\ Analysis!CheckIsExact' /\ roots' = roots
           /\ \A r \in Analysis!Range(report') : r.command = "check"
  <1>1. CASE Analysis!Begin \/ Analysis!Leave \/ \E n \in DOMAIN roots : Analysis!Skip(n) \/ Analysis!Descend(n)
    <2>1. Analysis!SearchInv'
      BY <1>1, BeginInv, LeaveInv, SkipInv, DescendInv
    <2>2. report' = << >> /\ roots' = roots
      BY <1>1 DEF Analysis!Begin, Analysis!Leave, Analysis!Skip, Analysis!Descend, Analysis!Calls, Analysis!Idle
    <2>3. QED BY <2>1, <2>2, OneReport DEF Analysis!CheckIsExact
  <1>2. ASSUME NEW acyclic \in BOOLEAN, report' = Analysis!CheckReport(acyclic), roots' = roots, path' = << >>,
               acyclic <=> \A S \in SUBSET DOMAIN roots : ~Analysis!Knot(S)
        PROVE  /\ Analysis!SearchInv' /\ Analysis!CheckIsExact'
               /\ \A r \in Analysis!Range(report') : r.command = "check"
    <2>1. PICK r : /\ report' = <<r>> /\ r.command = "check"
                   /\ r.passed = (acyclic /\ \A i \in DOMAIN roots : roots[i].dependencies # << >>)
      BY <1>2 DEF Analysis!CheckReport
    <2>2. Analysis!Range(report') = {r}
      BY <2>1, OneReport
    <2>3. \A S : Analysis!Knot(S)' = Analysis!Knot(S)
      BY <1>2 DEF Analysis!Knot
    <2>4. Analysis!CheckIsExact'
      BY <1>2, <2>1, <2>2, <2>3 DEF Analysis!CheckIsExact
    <2>5. Analysis!SearchInv'
      BY <1>2 DEF Analysis!SearchInv
    <2>6. QED BY <2>1, <2>2, <2>4, <2>5
  <1>3. CASE \E n \in DOMAIN roots : Analysis!FindCycle(n)
    <2>1. \E S \in SUBSET DOMAIN roots : Analysis!Knot(S)
      BY <1>3, CycleIsKnot
    <2>2. report' = Analysis!CheckReport(FALSE) /\ roots' = roots /\ path' = << >>
      BY <1>3 DEF Analysis!FindCycle
    <2>3. QED BY <1>2, <2>1, <2>2
  <1>4. CASE Analysis!Pass
    <2>1. \A S \in SUBSET DOMAIN roots : ~Analysis!Knot(S)
      BY <1>4, PassedIsFree
    <2>2. report' = Analysis!CheckReport(TRUE) /\ roots' = roots /\ path' = << >>
      BY <1>4 DEF Analysis!Pass
    <2>3. QED BY <1>2, <2>1, <2>2
  <1>5. QED BY <1>1, <1>3, <1>4 DEF Analysis!CheckStep

LEMMA ParetoIsRight ==
    ASSUME Comparable, Analysis!Pareto
    PROVE  /\ Analysis!FrontCovers' /\ roots' = roots /\ path' = path /\ path = << >>
           /\ \A r \in Analysis!Range(report') : r.command = "pareto"
  <1>1. PICK r : /\ report' = <<r>> /\ r.command = "pareto" /\ r.found = Analysis!pareto_front
    BY DEF Analysis!Pareto
  <1>2. roots' = roots /\ path' = path /\ path = << >>
    BY DEF Analysis!Pareto, Analysis!Idle, Analysis!search
  <1>3. Analysis!Range(report') = {r}
    BY <1>1, OneReport
  <1>4. \A i \in DOMAIN roots \ Analysis!pareto_front :
           \E j \in Analysis!pareto_front : Analysis!dominates(roots[j], roots[i])
    BY FrontBeats
  <1>5. Analysis!FrontCovers'
    BY <1>1, <1>2, <1>3, <1>4 DEF Analysis!FrontCovers, Analysis!dominates
  <1>6. QED BY <1>1, <1>2, <1>3, <1>5

\* The invariant of every family: a family without roots has nothing to report.
RootInv == Analysis!SearchInv /\ Comparable /\ RootReportsAreRight

LEMMA NoReportYet == report = << >> => RootReportsAreRight
  BY OneReport DEF RootReportsAreRight, Analysis!CheckIsExact, Analysis!FrontCovers

LEMMA RootStart == CliInit => RootInv
  <1> SUFFICES ASSUME CliInit PROVE RootInv
    OBVIOUS
  <1>1. path = << >> /\ report = << >>
    BY DEF CliInit, Analysis!RootInit
  <1>2. Analysis!SearchInv
    BY <1>1 DEF Analysis!SearchInv
  <1>3. Comparable
    <2>1. CASE family = "roots"
      <3>1. PICK f \in RootFiles : roots = Analysis!filter_roots(f.roots, f.all)
        BY <2>1 DEF CliInit, Analysis!RootInit
      <3>2. \A i \in DOMAIN roots : i \in DOMAIN f.roots /\ roots[i] = f.roots[i]
        BY <3>1 DEF Analysis!filter_roots, Analysis!Restrict
      <3>3. QED BY <3>1, <3>2, RootsAssumption DEF Comparable
    <2>2. CASE family # "roots"
      <3>1. roots = << >>
        BY <2>2 DEF CliInit
      <3>2. QED BY <3>1 DEF Comparable
    <2>3. QED BY <2>1, <2>2
  <1>4. QED BY <1>1, <1>2, <1>3, NoReportYet DEF RootInv

LEMMA RootStep == RootInv /\ [CliNext]_cliVars => RootInv'
  <1> SUFFICES ASSUME RootInv, [CliNext]_cliVars PROVE RootInv'
    OBVIOUS
  <1>1. Analysis!SearchInv /\ Comparable /\ RootReportsAreRight
    BY DEF RootInv
  <1>2. CASE Analysis!CheckStep
    <2>1. /\ Analysis!SearchInv' /\ Analysis!CheckIsExact' /\ roots' = roots
          /\ \A r \in Analysis!Range(report') : r.command = "check"
      BY <1>1, <1>2, CheckStepKeeps
    <2>2. Analysis!FrontCovers'
      BY <2>1 DEF Analysis!FrontCovers
    <2>3. Comparable'
      BY <1>1, <2>1 DEF Comparable
    <2>4. QED BY <2>1, <2>2, <2>3 DEF RootInv, RootReportsAreRight
  <1>3. CASE Analysis!Pareto
    <2>1. /\ Analysis!FrontCovers' /\ roots' = roots /\ path' = << >>
          /\ \A r \in Analysis!Range(report') : r.command = "pareto"
      BY <1>1, <1>3, ParetoIsRight
    <2>2. Analysis!CheckIsExact'
      BY <2>1 DEF Analysis!CheckIsExact
    <2>3. Comparable' /\ Analysis!SearchInv'
      BY <1>1, <2>1 DEF Comparable, Analysis!SearchInv
    <2>4. QED BY <2>1, <2>2, <2>3 DEF RootInv, RootReportsAreRight
  <1>4. CASE Analysis!Connect
    <2>1. PICK r : report' = <<r>> /\ r.command = "connect"
      BY <1>4 DEF Analysis!Connect
    <2>2. roots' = roots /\ path' = << >>
      BY <1>4 DEF Analysis!Connect, Analysis!Idle, Analysis!search
    <2>3. Analysis!Range(report') = {r}
      BY <2>1, OneReport
    <2>4. Analysis!CheckIsExact' /\ Analysis!FrontCovers'
      BY <2>1, <2>3 DEF Analysis!CheckIsExact, Analysis!FrontCovers
    <2>5. Comparable' /\ Analysis!SearchInv'
      BY <1>1, <2>2 DEF Comparable, Analysis!SearchInv
    <2>6. QED BY <2>4, <2>5 DEF RootInv, RootReportsAreRight
  <1>5. CASE UNCHANGED rootState
    <2>1. roots' = roots /\ marks' = marks /\ path' = path /\ report' = report
      BY <1>5 DEF rootState
    <2>2. Comparable'
      BY <1>1, <2>1 DEF Comparable
    <2>3. Analysis!SearchInv'
      <3>1. Analysis!PathIsMarked => Analysis!PathIsMarked'
        BY <2>1 DEF Analysis!PathIsMarked, Analysis!adjacency
      <3>2. Analysis!AskedIsDone => Analysis!AskedIsDone'
        BY <2>1 DEF Analysis!AskedIsDone, Analysis!Finished, Analysis!Work, Analysis!adjacency
      <3>3. Analysis!FinishedIsFree => Analysis!FinishedIsFree'
        BY <2>1 DEF Analysis!FinishedIsFree, Analysis!Finished, Analysis!Knot
      <3>4. QED BY <1>1, <2>1, <3>1, <3>2, <3>3 DEF Analysis!SearchInv, Analysis!Activation
    <2>4. RootReportsAreRight'
      BY <1>1, <2>1 DEF RootReportsAreRight, Analysis!CheckIsExact, Analysis!FrontCovers, Analysis!Knot
    <2>5. QED BY <2>2, <2>3, <2>4 DEF RootInv
  <1>6. QED BY <1>2, <1>3, <1>4, <1>5
        DEF CliNext, Publishing, Generating, AllGenerated, Judging, Reported, cliVars, rootState, Analysis!RootNext

\* The root commands report what the file says.
THEOREM RootReports == CliSpec => []RootReportsAreRight
  <1>1. RootInv => RootReportsAreRight
    BY DEF RootInv
  <1>2. QED BY RootStart, RootStep, <1>1, PTL DEF CliSpec
================================================================================
