------------------------- MODULE WorkspaceMountProofs -------------------------
(***************************************************************************)
(* Proofs about WorkspaceMount for any calls, roots and bound files.       *)
(***************************************************************************)
EXTENDS WorkspaceMount, TLAPS

CallType == [st : States, root : Roots \cup {NoRoot}, done : 0 .. Len(Sizes),
             got : Nat, bytes : Bytes, built : 0 .. Guests,
             urls : 0 .. Modules, timer : {"off", "armed", "fired"}]

\* What holds of one call on its own.
Good(l) ==
    /\ l \in CallType
    /\ l.st \in Fetching => l.done < Len(Sizes)
    /\ l.st \in {"read", "digest"} => l.got <= Sizes[l.done + 1]
    /\ l.st \in Claimed => l.root \in Roots
    /\ l.st \notin Loading => l.timer = "off" /\ l.urls = 0
    /\ l.st \in {"link", "compile", "import", "open", "live"} =>
         l.done = Len(Sizes) /\ l.bytes = "bound" /\ l.got = Sizes[Len(Sizes)]
    /\ l.st \in {"fetch", "read", "digest", "link", "idle"} => l.built = 0
    /\ l.st = "idle" => l.done = 0
    /\ l.st = "compile" => l.built < Guests

\* A live view is in its root.
Shown == \A c \in Calls : call[c].st = "live" => c \in dom[call[c].root]

\* ClaimsExact, root by root.
Held == \A r : r \in mounts <=> \E d \in Calls : call[d].st \in Claimed /\ call[d].root = r

Inv ==
    /\ mounts \subseteq Roots
    /\ dom \in [Roots -> SUBSET Calls]
    /\ call \in [Calls -> CallType]
    /\ \A c \in Calls : Good(call[c])
    /\ OneMountPerRoot
    /\ Held
    /\ Shown

LEMMA SizesType == Len(Sizes) \in Nat \ {0} /\ \A i \in 1 .. Len(Sizes) : Sizes[i] \in Nat \ {0}
  BY MountAssumption

LEMMA InitInv == Init => Inv
  <1> SUFFICES ASSUME Init PROVE Inv
    OBVIOUS
  <1>1. \A c \in Calls : call[c] = NewCall
    BY DEF Init
  <1>2. Good(NewCall) /\ NewCall.st = "idle"
    <2>1. /\ "idle" \in States /\ 0 \in 0 .. Len(Sizes) /\ 0 \in 0 .. Guests /\ 0 \in 0 .. Modules
          /\ "bound" \in Bytes
      BY SizesType, MountAssumption DEF States, Bytes
    <2>2. /\ NewCall \in CallType /\ NewCall.st = "idle" /\ NewCall.timer = "off"
          /\ NewCall.urls = 0 /\ NewCall.done = 0 /\ NewCall.built = 0
      BY <2>1 DEF NewCall, CallType
    <2>3. QED BY <2>2 DEF Good, Claimed, Loading, Fetching
  <1>3. \A c \in Calls : call[c].st = "idle" /\ "idle" \notin Claimed
    BY <1>1, <1>2 DEF Claimed, Loading, Fetching
  <1>4. Held /\ OneMountPerRoot /\ Shown
    BY <1>3 DEF Init, Held, OneMountPerRoot, Shown
  <1>5. call \in [Calls -> CallType]
    BY <1>1, <1>2 DEF Init, Good
  <1>6. QED BY <1>1, <1>2, <1>4, <1>5 DEF Init, Inv

\* A step that only moves one call on, with its claim.
LEMMA Moves ==
    ASSUME Inv, NEW c \in Calls, NEW l, call' = [call EXCEPT ![c] = l], Good(l),
           call[c].st \in Claimed, l.st \in Claimed, l.root = call[c].root,
           l.st = "live" => call[c].st = "live" \/ c \in dom[l.root],
           UNCHANGED <<mounts, dom>>
    PROVE  Inv'
  <1>1. /\ call' \in [Calls -> CallType] /\ call'[c] = l
        /\ \A d \in Calls : d # c => call'[d] = call[d]
    BY DEF Inv, Good
  <1>2. \A d \in Calls : Good(call'[d])
    BY <1>1 DEF Inv
  <1>3. \A d \in Calls : /\ call'[d].root = call[d].root
                         /\ call'[d].st \in Claimed <=> call[d].st \in Claimed
    BY <1>1
  <1>4. OneMountPerRoot'
    BY <1>3 DEF Inv, OneMountPerRoot
  <1>5. Held'
    BY <1>3 DEF Inv, Held
  <1>6. Shown'
    BY <1>1 DEF Inv, Shown
  <1>7. QED BY <1>1, <1>2, <1>4, <1>5, <1>6 DEF Inv, Good

\* A step that gives up the claim of one call and may empty its root or take its
\* view out.
LEMMA Releases ==
    ASSUME Inv, NEW c \in Calls, NEW l, call' = [call EXCEPT ![c] = l], Good(l),
           call[c].st \in Claimed, l.st \notin Claimed,
           mounts' = mounts \ {call[c].root},
           NEW left \in SUBSET Calls, dom' = [dom EXCEPT ![call[c].root] = left]
    PROVE  Inv'
  <1>1. /\ call' \in [Calls -> CallType] /\ call'[c] = l
        /\ \A d \in Calls : d # c => call'[d] = call[d]
    BY DEF Inv, Good
  <1>2. \A d \in Calls : Good(call'[d])
    BY <1>1 DEF Inv
  <1>3. \A d \in Calls : /\ call'[d].st \in Claimed => d # c /\ call[d].st \in Claimed
                         /\ d # c /\ call[d].st \in Claimed => call'[d].st \in Claimed
                         /\ d # c /\ call[d].st \in Claimed => call[d].root # call[c].root
    BY <1>1 DEF Inv, OneMountPerRoot
  <1>4. call[c].root \in Roots
    BY DEF Inv, Good
  <1>5. /\ mounts' \subseteq Roots /\ dom' \in [Roots -> SUBSET Calls]
        /\ \A r \in Roots : r # call[c].root => dom'[r] = dom[r]
    BY <1>4 DEF Inv
  <1>6. OneMountPerRoot'
    BY <1>1, <1>3 DEF Inv, OneMountPerRoot
  <1>7. Held'
    BY <1>1, <1>3 DEF Inv, Held
  <1>8. Shown'
    <2>1. ASSUME NEW d \in Calls, call'[d].st = "live" PROVE d \in dom'[call'[d].root]
      <3>1. "live" \in Claimed
        BY DEF Claimed
      <3>2. d # c /\ call'[d] = call[d] /\ call[d].root # call[c].root /\ call[d].root \in Roots
        BY <1>1, <1>3, <2>1, <3>1 DEF Inv, Good
      <3>3. QED BY <1>5, <2>1, <3>2 DEF Inv, Shown
    <2>2. QED BY <2>1 DEF Shown
  <1>9. QED BY <1>1, <1>2, <1>5, <1>6, <1>7, <1>8 DEF Inv

LEMMA MountInv ==
    ASSUME Inv, NEW c \in Calls, NEW r \in Roots, Mount(c, r)
    PROVE  Inv'
  <1> DEFINE l == [call[c] EXCEPT !.st = "fetch", !.root = r, !.timer = "armed"]
  <1>1. /\ Good(call[c]) /\ call[c].st = "idle" /\ "idle" \notin Claimed /\ "fetch" \in Claimed
    BY DEF Inv, Mount, Claimed, Loading, Fetching
  <1>2. call' = [call EXCEPT ![c] = l] /\ mounts' = mounts \cup {r} /\ dom' = dom /\ r \notin mounts
    BY DEF Mount, Inv
  <1>3. /\ l.st = "fetch" /\ l.root = r /\ l.done = 0 /\ l.built = 0
        /\ l \in CallType
    BY <1>1 DEF Good, CallType, States, Claimed, Loading, Fetching
  <1>4. Good(l)
    <2> HIDE DEF l
    <2>1. QED BY <1>3, SizesType DEF Good, Loading, Fetching
  <1> HIDE DEF l
  <1>5. /\ call' \in [Calls -> CallType] /\ call'[c] = l
        /\ \A d \in Calls : d # c => call'[d] = call[d]
    BY <1>2, <1>3, <1>4 DEF Inv, Good
  <1>6. \A d \in Calls : Good(call'[d])
    BY <1>4, <1>5 DEF Inv
  <1>7. \A d \in Calls : call[d].st \in Claimed => call[d].root \in mounts
    BY DEF Inv, Held
  <1>8. OneMountPerRoot'
    BY <1>2, <1>3, <1>5, <1>7 DEF Inv, OneMountPerRoot
  <1>9. Held'
    BY <1>1, <1>2, <1>3, <1>5 DEF Inv, Held
  <1>10. Shown'
    BY <1>2, <1>3, <1>5 DEF Inv, Shown
  <1>11. QED BY <1>2, <1>5, <1>6, <1>8, <1>9, <1>10 DEF Inv

LEMMA RejectedInv ==
    ASSUME Inv, NEW c \in Calls, NEW r \in Roots, MountRejected(c, r)
    PROVE  Inv'
  <1> DEFINE l == [call[c] EXCEPT !.st = "rejected"]
  <1>1. /\ Good(call[c]) /\ call[c].st = "idle" /\ "idle" \notin Claimed
        /\ "rejected" \notin Claimed
    BY DEF Inv, MountRejected, Claimed, Loading, Fetching
  <1>2. call' = [call EXCEPT ![c] = l] /\ mounts' = mounts /\ dom' = dom
    BY DEF MountRejected, Inv
  <1>3. l.st = "rejected" /\ Good(l)
    BY <1>1, SizesType DEF Good, CallType, States, Claimed, Loading, Fetching
  <1> HIDE DEF l
  <1>4. /\ call' \in [Calls -> CallType] /\ call'[c] = l
        /\ \A d \in Calls : d # c => call'[d] = call[d]
    BY <1>2, <1>3 DEF Inv, Good
  <1>5. \A d \in Calls : Good(call'[d])
    BY <1>3, <1>4 DEF Inv
  <1>6. {d \in Calls : call'[d].st \in Claimed} = {d \in Calls : call[d].st \in Claimed}
    BY <1>1, <1>3, <1>4
  <1>7. \A d \in Calls : call'[d].st \in Claimed => call'[d] = call[d]
    BY <1>1, <1>3, <1>4
  <1>8. OneMountPerRoot'
    BY <1>6, <1>7 DEF Inv, OneMountPerRoot
  <1>9. Held'
    BY <1>2, <1>6, <1>7 DEF Inv, Held
  <1>10. Shown'
    BY <1>2, <1>3, <1>4 DEF Inv, Shown
  <1>11. QED BY <1>2, <1>4, <1>5, <1>8, <1>9, <1>10 DEF Inv

LEMMA FailInv ==
    ASSUME Inv, NEW c \in Calls, call[c].st \in Claimed, Fail(c)
    PROVE  Inv'
  <1> DEFINE l == [Cleaned(call[c]) EXCEPT !.st = "failed"]
  <1>1. Good(call[c])
    BY DEF Inv
  <1>2. call' = [call EXCEPT ![c] = l]
    BY DEF Fail, Inv
  <1>3. Good(l) /\ l.st \notin Claimed
    <2>1. "failed" \in States /\ 0 \in 0 .. Modules /\ call[c] \in CallType
      BY <1>1, MountAssumption DEF Good, States
    <2>2. l \in CallType /\ l.st = "failed" /\ l.timer = "off" /\ l.urls = 0
      BY <2>1 DEF CallType, Cleaned
    <2> HIDE DEF l
    <2>3. QED BY <2>2 DEF Good, Claimed, Loading, Fetching
  <1> HIDE DEF l
  <1>4. mounts' = mounts \ {call[c].root} /\ dom' = [dom EXCEPT ![call[c].root] = {}]
    BY DEF Fail
  <1>5. {} \in SUBSET Calls
    OBVIOUS
  <1>6. QED BY <1>2, <1>3, <1>4, <1>5, Releases

LEMMA CloseInv ==
    ASSUME Inv, NEW c \in Calls, Close(c), call[c].st = "live"
    PROVE  Inv'
  <1> DEFINE l == [call[c] EXCEPT !.st = "closed"]
  <1>1. Good(call[c]) /\ call[c].st \in Claimed
    BY DEF Inv, Claimed
  <1>2. call' = [call EXCEPT ![c] = l]
    BY DEF Close, Inv
  <1>3. Good(l) /\ l.st \notin Claimed
    BY <1>1 DEF Good, CallType, States, Claimed, Loading, Fetching
  <1> HIDE DEF l
  <1>4. call[c].root \in Roots /\ dom \in [Roots -> SUBSET Calls]
    BY <1>1 DEF Good, Inv
  <1>5. PICK left \in SUBSET Calls : dom' = [dom EXCEPT ![call[c].root] = left]
    <2>1. CASE dom' = [dom EXCEPT ![call[c].root] = @ \ {c}]
      <3>1. dom[call[c].root] \ {c} \in SUBSET Calls
        BY <1>4
      <3>2. QED BY <2>1, <3>1
    <2>2. CASE dom' = dom
      <3>1. dom[call[c].root] \in SUBSET Calls /\ dom' = [dom EXCEPT ![call[c].root] = dom[call[c].root]]
        BY <1>4, <2>2
      <3>2. QED BY <3>1
    <2>3. QED BY <2>1, <2>2 DEF Close
  <1>6. mounts' = mounts \ {call[c].root}
    BY DEF Close
  <1>7. QED BY <1>1, <1>2, <1>3, <1>5, <1>6, Releases

LEMMA RendersInv ==
    ASSUME Inv, NEW c \in Calls, OpenRenders(c)
    PROVE  Inv'
  <1>1. call[c].root \in Roots
    BY DEF Inv, Good, OpenRenders, Claimed
  <1>2. dom' \in [Roots -> SUBSET Calls] /\ \A r \in Roots : dom[r] \subseteq dom'[r]
    BY <1>1 DEF OpenRenders, Inv
  <1>3. \A d \in Calls : call[d].st = "live" => call[d].root \in Roots
    BY DEF Inv, Good, Claimed
  <1>4. Shown'
    BY <1>2, <1>3 DEF OpenRenders, Inv, Shown
  <1>5. QED BY <1>2, <1>4 DEF OpenRenders, Inv, OneMountPerRoot, Held

----------------------------------------------------------------------------
(* The steps of load.                                                      *)

LEMMA FetchOkInv ==
    ASSUME Inv, NEW c \in Calls, FetchOk(c)
    PROVE  Inv'
  <1> DEFINE l == [call[c] EXCEPT !.st = "read", !.got = 0]
  <1>1. Good(call[c]) /\ call[c] \in CallType /\ call[c].st = "fetch"
    BY DEF Inv, Good, FetchOk
  <1>2. call' = [call EXCEPT ![c] = l] /\ UNCHANGED <<mounts, dom>>
    BY DEF FetchOk, Inv
  <1>3. /\ "read" \in States /\ 0 \in Nat /\ call[c].done < Len(Sizes) /\ call[c].done \in Nat
        /\ Sizes[call[c].done + 1] \in Nat
    BY <1>1, SizesType, MountAssumption DEF Good, CallType, States, Claimed, Loading, Fetching, Bytes
  <1>4. /\ l.st = "read"
        /\ l.root = call[c].root
        /\ l.done = call[c].done
        /\ l.got = 0
        /\ l.bytes = call[c].bytes
        /\ l.built = call[c].built
        /\ l.urls = call[c].urls
        /\ l.timer = call[c].timer
    BY <1>1 DEF CallType
  <1>5. l \in CallType
    BY <1>1, <1>3 DEF CallType, Bytes
  <1> HIDE DEF l
  <1>6. Good(l)
    BY <1>1, <1>3, <1>4, <1>5 DEF Good, Claimed, Loading, Fetching
  <1>7. l.st \in Claimed /\ call[c].st \in Claimed
    BY <1>1, <1>3, <1>4 DEF Claimed, Loading, Fetching
  <1>8. QED BY <1>1, <1>2, <1>3, <1>4, <1>6, <1>7, Moves

LEMMA ReadPartInv ==
    ASSUME Inv, NEW c \in Calls, NEW part \in Bytes, ReadPart(c, part)
    PROVE  Inv'
  <1>1. Good(call[c]) /\ call[c] \in CallType /\ call[c].st = "read"
    BY DEF Inv, Good, ReadPart
  <1>2. PICK n \in Parts :
          /\ Fits(c, n)
          /\ call' = [call EXCEPT ![c].got = @ + n, ![c].bytes = IF part = "bound" THEN @ ELSE part]
    BY DEF ReadPart
  <1> DEFINE bytes == IF part = "bound" THEN call[c].bytes ELSE part
             l == [call[c] EXCEPT !.got = @ + n, !.bytes = bytes]
  <1>3. call' = [call EXCEPT ![c] = l] /\ UNCHANGED <<mounts, dom>>
    BY <1>2 DEF ReadPart, Inv
  <1>4. /\ Sizes[call[c].done + 1] \in Nat /\ call[c].done \in Nat
        /\ call[c].done < Len(Sizes) /\ call[c].got <= Sizes[call[c].done + 1]
        /\ call[c].got \in Nat
    BY <1>1, SizesType DEF Good, CallType, Fetching
  <1>5. /\ call[c].got + n \in Nat /\ call[c].got + n <= Sizes[call[c].done + 1]
        /\ bytes \in Bytes
    <2>1. n \in Nat /\ n <= Sizes[call[c].done + 1] - call[c].got
      BY <1>2, MountAssumption DEF Fits, Size
    <2>2. QED BY <1>1, <1>4, <2>1 DEF CallType
  <1>6. /\ l.st = "read" /\ l.root = call[c].root /\ l.done = call[c].done
        /\ l.got = call[c].got + n /\ l.bytes = bytes /\ l.built = call[c].built
        /\ l.urls = call[c].urls /\ l.timer = call[c].timer
    BY <1>1 DEF CallType
  <1>7. l \in CallType
    BY <1>1, <1>5 DEF CallType
  <1> HIDE DEF l, bytes
  <1>8. Good(l)
    BY <1>1, <1>4, <1>5, <1>6, <1>7 DEF Good, Claimed, Loading, Fetching
  <1>9. "read" \in Claimed
    BY DEF Claimed, Loading, Fetching
  <1>10. QED BY <1>1, <1>3, <1>6, <1>8, <1>9, Moves

LEMMA ReadDoneInv ==
    ASSUME Inv, NEW c \in Calls, ReadDone(c)
    PROVE  Inv'
  <1> DEFINE l == [call[c] EXCEPT !.st = "digest"]
  <1>1. Good(call[c]) /\ call[c] \in CallType /\ call[c].st = "read"
    BY DEF Inv, Good, ReadDone
  <1>2. call' = [call EXCEPT ![c] = l] /\ UNCHANGED <<mounts, dom>>
    BY DEF ReadDone, Inv
  <1>3. "digest" \in States
    BY <1>1, SizesType, MountAssumption DEF Good, CallType, States, Claimed, Loading, Fetching, Bytes
  <1>4. /\ l.st = "digest"
        /\ l.root = call[c].root
        /\ l.done = call[c].done
        /\ l.got = call[c].got
        /\ l.bytes = call[c].bytes
        /\ l.built = call[c].built
        /\ l.urls = call[c].urls
        /\ l.timer = call[c].timer
    BY <1>1 DEF CallType
  <1>5. l \in CallType
    BY <1>1, <1>3 DEF CallType, Bytes
  <1> HIDE DEF l
  <1>6. Good(l)
    BY <1>1, <1>3, <1>4, <1>5 DEF Good, Claimed, Loading, Fetching
  <1>7. l.st \in Claimed /\ call[c].st \in Claimed
    BY <1>1, <1>3, <1>4 DEF Claimed, Loading, Fetching
  <1>8. QED BY <1>1, <1>2, <1>3, <1>4, <1>6, <1>7, Moves

LEMMA DigestOkInv ==
    ASSUME Inv, NEW c \in Calls, DigestOk(c)
    PROVE  Inv'
  <1> DEFINE next == IF call[c].done + 1 = Len(Sizes) THEN "link" ELSE "fetch"
             l == [call[c] EXCEPT !.done = @ + 1, !.st = next]
  <1>1. Good(call[c]) /\ call[c] \in CallType /\ call[c].st = "digest" /\ call[c].bytes = "bound"
        /\ call[c].got = Sizes[call[c].done + 1]
    BY DEF Inv, Good, DigestOk, Verified, Size
  <1>2. call' = [call EXCEPT ![c] = l] /\ UNCHANGED <<mounts, dom>>
    BY DEF DigestOk, Verified, Size, Inv
  <1>3. /\ next \in States /\ call[c].done + 1 \in 0 .. Len(Sizes) /\ next \in {"link", "fetch"}
        /\ next = "link" => call[c].done + 1 = Len(Sizes)
        /\ next = "fetch" => call[c].done + 1 < Len(Sizes)
        /\ call[c].built = 0
    BY <1>1, SizesType, MountAssumption DEF Good, CallType, States, Claimed, Loading, Fetching, Bytes
  <1>4. /\ l.st = next
        /\ l.root = call[c].root
        /\ l.done = call[c].done + 1
        /\ l.got = call[c].got
        /\ l.bytes = call[c].bytes
        /\ l.built = call[c].built
        /\ l.urls = call[c].urls
        /\ l.timer = call[c].timer
    BY <1>1 DEF CallType
  <1>5. l \in CallType
    BY <1>1, <1>3 DEF CallType, Bytes
  <1> HIDE DEF l
  <1>6. Good(l)
    BY <1>1, <1>3, <1>4, <1>5 DEF Good, Claimed, Loading, Fetching
  <1>7. l.st \in Claimed /\ call[c].st \in Claimed
    BY <1>1, <1>3, <1>4 DEF Claimed, Loading, Fetching
  <1>8. QED BY <1>1, <1>2, <1>3, <1>4, <1>6, <1>7, Moves

LEMMA LinkInv ==
    ASSUME Inv, NEW c \in Calls, Link(c)
    PROVE  Inv'
  <1> DEFINE next == IF Guests = 0 THEN "import" ELSE "compile"
             l == [call[c] EXCEPT !.urls = Modules, !.st = next]
  <1>1. Good(call[c]) /\ call[c] \in CallType /\ call[c].st = "link"
    BY DEF Inv, Good, Link
  <1>2. call' = [call EXCEPT ![c] = l] /\ UNCHANGED <<mounts, dom>>
    BY DEF Link, Inv
  <1>3. /\ next \in States /\ Modules \in 0 .. Modules /\ next \in {"import", "compile"}
        /\ next = "compile" => 0 < Guests
        /\ Modules \in Nat
    BY <1>1, SizesType, MountAssumption DEF Good, CallType, States, Claimed, Loading, Fetching, Bytes
  <1>4. /\ l.st = next
        /\ l.root = call[c].root
        /\ l.done = call[c].done
        /\ l.got = call[c].got
        /\ l.bytes = call[c].bytes
        /\ l.built = call[c].built
        /\ l.urls = Modules
        /\ l.timer = call[c].timer
    BY <1>1 DEF CallType
  <1>5. l \in CallType
    BY <1>1, <1>3 DEF CallType, Bytes
  <1> HIDE DEF l
  <1>6. Good(l)
    BY <1>1, <1>3, <1>4, <1>5 DEF Good, Claimed, Loading, Fetching
  <1>7. l.st \in Claimed /\ call[c].st \in Claimed
    BY <1>1, <1>3, <1>4 DEF Claimed, Loading, Fetching
  <1>8. QED BY <1>1, <1>2, <1>3, <1>4, <1>6, <1>7, Moves

LEMMA CompileOkInv ==
    ASSUME Inv, NEW c \in Calls, CompileOk(c)
    PROVE  Inv'
  <1> DEFINE next == IF call[c].built + 1 = Guests THEN "import" ELSE "compile"
             l == [call[c] EXCEPT !.built = @ + 1, !.st = next]
  <1>1. Good(call[c]) /\ call[c] \in CallType /\ call[c].st = "compile"
    BY DEF Inv, Good, CompileOk
  <1>2. call' = [call EXCEPT ![c] = l] /\ UNCHANGED <<mounts, dom>>
    BY DEF CompileOk, Inv
  <1>3. /\ next \in States /\ call[c].built + 1 \in 0 .. Guests /\ next \in {"import", "compile"}
        /\ next = "compile" => call[c].built + 1 < Guests
    BY <1>1, SizesType, MountAssumption DEF Good, CallType, States, Claimed, Loading, Fetching, Bytes
  <1>4. /\ l.st = next
        /\ l.root = call[c].root
        /\ l.done = call[c].done
        /\ l.got = call[c].got
        /\ l.bytes = call[c].bytes
        /\ l.built = call[c].built + 1
        /\ l.urls = call[c].urls
        /\ l.timer = call[c].timer
    BY <1>1 DEF CallType
  <1>5. l \in CallType
    BY <1>1, <1>3 DEF CallType, Bytes
  <1> HIDE DEF l
  <1>6. Good(l)
    BY <1>1, <1>3, <1>4, <1>5 DEF Good, Claimed, Loading, Fetching
  <1>7. l.st \in Claimed /\ call[c].st \in Claimed
    BY <1>1, <1>3, <1>4 DEF Claimed, Loading, Fetching
  <1>8. QED BY <1>1, <1>2, <1>3, <1>4, <1>6, <1>7, Moves

LEMMA ImportOkInv ==
    ASSUME Inv, NEW c \in Calls, ImportOk(c)
    PROVE  Inv'
  <1> DEFINE l == [Cleaned(call[c]) EXCEPT !.st = "open"]
  <1>1. Good(call[c]) /\ call[c] \in CallType /\ call[c].st = "import"
    BY DEF Inv, Good, ImportOk
  <1>2. call' = [call EXCEPT ![c] = l] /\ UNCHANGED <<mounts, dom>>
    BY DEF ImportOk, Inv
  <1>3. "open" \in States /\ 0 \in 0 .. Modules
    BY <1>1, SizesType, MountAssumption DEF Good, CallType, States, Claimed, Loading, Fetching, Bytes
  <1>4. /\ l.st = "open"
        /\ l.root = call[c].root
        /\ l.done = call[c].done
        /\ l.got = call[c].got
        /\ l.bytes = call[c].bytes
        /\ l.built = call[c].built
        /\ l.urls = 0
        /\ l.timer = "off"
    BY <1>1 DEF CallType, Cleaned
  <1>5. l \in CallType
    BY <1>1, <1>3 DEF CallType, Bytes, Cleaned
  <1> HIDE DEF l
  <1>6. Good(l)
    BY <1>1, <1>3, <1>4, <1>5 DEF Good, Claimed, Loading, Fetching
  <1>7. l.st \in Claimed /\ call[c].st \in Claimed
    BY <1>1, <1>3, <1>4 DEF Claimed, Loading, Fetching
  <1>8. QED BY <1>1, <1>2, <1>3, <1>4, <1>6, <1>7, Moves

LEMMA TimerInv ==
    ASSUME Inv, NEW c \in Calls, TimerFires(c)
    PROVE  Inv'
  <1> DEFINE l == [call[c] EXCEPT !.timer = "fired"]
  <1>1. Good(call[c]) /\ call[c].st \in Loading
    BY DEF Inv, TimerFires, Good
  <1>2. call' = [call EXCEPT ![c] = l] /\ UNCHANGED <<mounts, dom>>
    BY DEF TimerFires, Inv
  <1>3. Good(l)
    BY <1>1 DEF Good, CallType, States, Claimed, Loading, Fetching
  <1>4. l.root = call[c].root /\ l.st = call[c].st /\ call[c].st \in Claimed
    BY <1>1 DEF Good, CallType, Claimed
  <1> HIDE DEF l
  <1>5. QED BY <1>1, <1>2, <1>3, <1>4, Moves

LEMMA OpenOkInv ==
    ASSUME Inv, NEW c \in Calls, OpenOk(c)
    PROVE  Inv'
  <1> DEFINE l == [call[c] EXCEPT !.st = "live"]
  <1>1. Good(call[c]) /\ call[c].st = "open" /\ c \in dom[call[c].root]
    BY DEF Inv, OpenOk
  <1>2. call' = [call EXCEPT ![c] = l] /\ UNCHANGED <<mounts, dom>>
    BY DEF OpenOk, Inv
  <1>3. Good(l)
    BY <1>1 DEF Good, CallType, States, Claimed, Loading, Fetching
  <1>4. l.root = call[c].root /\ l.st = "live" /\ "open" \in Claimed /\ "live" \in Claimed
    BY <1>1 DEF Good, CallType, Claimed
  <1> HIDE DEF l
  <1>5. QED BY <1>1, <1>2, <1>3, <1>4, Moves

LEMMA NextInv == Inv /\ [Next]_vars => Inv'
  <1> SUFFICES ASSUME Inv, [Next]_vars PROVE Inv'
    OBVIOUS
  <1>1. ASSUME UNCHANGED vars PROVE Inv'
    BY <1>1 DEF vars, Inv, OneMountPerRoot, Held, Shown, Good
  <1>2. ASSUME NEW c \in Calls, Page(c) PROVE Inv'
    <2>1. CASE \E r \in Roots : Mount(c, r)
      BY <2>1, MountInv
    <2>2. CASE \E r \in Roots : MountRejected(c, r)
      BY <2>2, RejectedInv
    <2>3. CASE Close(c)
      BY <1>1, <2>3, CloseInv DEF Close
    <2>4. QED BY <1>2, <2>1, <2>2, <2>3 DEF Page
  <1>3. ASSUME NEW c \in Calls, Network(c) \/ LoadStep(c) \/ TimerFires(c) \/ ViewHost(c) PROVE Inv'
    <2>1. CASE \/ FetchFails(c) \/ ReadFails(c) \/ DigestFails(c) \/ LinkFails(c)
               \/ CompileFails(c) \/ ImportFails(c) \/ OpenFails(c)
      <3>1. Fail(c) /\ call[c].st \in Claimed
        BY <2>1 DEF FetchFails, ReadFails, DigestFails, LinkFails, CompileFails, ImportFails,
                    OpenFails, Claimed, Loading, Fetching
      <3>2. QED BY <3>1, FailInv
    <2>2. CASE \/ FetchOk(c) \/ ReadDone(c) \/ (\E part \in Bytes : ReadPart(c, part))
               \/ DigestOk(c) \/ Link(c) \/ CompileOk(c) \/ ImportOk(c) \/ TimerFires(c)
      BY <2>2, FetchOkInv, ReadDoneInv, ReadPartInv, DigestOkInv, LinkInv, CompileOkInv,
         ImportOkInv, TimerInv
    <2>3. CASE OpenRenders(c) \/ OpenOk(c)
      BY <2>3, RendersInv, OpenOkInv
    <2>4. QED BY <1>3, <2>1, <2>2, <2>3 DEF Network, LoadStep, ViewHost
  <1>4. QED BY <1>1, <1>2, <1>3 DEF Next, PageDone

\* The inductive invariant: claims, calls and the page agree.
THEOREM Invariance == Spec => []Inv
  <1>1. QED BY InitInv, NextInv, PTL DEF Spec

\* Types are kept, for any bound sizes.
THEOREM TypeCorrect == Spec => []TypeOK
  <1>1. Inv => TypeOK
    <2> SUFFICES ASSUME Inv PROVE TypeOK
      OBVIOUS
    <2>1. \A c \in Calls : Good(call[c])
      BY DEF Inv
    <2>2. QED BY <2>1 DEF Inv, TypeOK, Good, CallType
  <1>2. QED BY <1>1, Invariance, PTL

\* Two calls never hold the same root.
THEOREM Exclusive == Spec => []OneMountPerRoot
  <1>1. Inv => OneMountPerRoot
    BY DEF Inv
  <1>2. QED BY <1>1, Invariance, PTL

\* Roots are claimed exactly by the calls that hold them.
THEOREM Claims == Spec => []ClaimsExact
  <1>1. Inv => ClaimsExact
    BY DEF Inv, Held, ClaimsExact
  <1>2. QED BY <1>1, Invariance, PTL

\* The claims on roots are locks.
THEOREM Locked == Spec => []RootsAreLocked
  BY Exclusive, Claims, PTL DEF RootsAreLocked

\* An ended load leaves no timer and no blob URL.
THEOREM CleanedUp == Spec => []LoadCleansUp
  <1>1. Inv => LoadCleansUp
    BY DEF Inv, LoadCleansUp, Good
  <1>2. QED BY <1>1, Invariance, PTL

\* No load takes more bytes than a file is bound to have, and no view is opened on
\* anything but the bound files, however the network cuts the bodies into parts.
THEOREM VerifiedFiles == Spec => []OnlyVerified
  <1>1. Inv => OnlyVerified
    BY DEF Inv, OnlyVerified, Good, Size
  <1>2. QED BY <1>1, Invariance, PTL

\* A live view keeps its children until its own close.
THEOREM ViewsKept == Spec => LiveViewKept
  <1>1. ASSUME Inv, Inv', [Next]_vars
        PROVE  \A c \in Calls : call[c].st = "live" /\ call'[c].st = "live" =>
                 c \in dom[call[c].root] /\ c \in dom'[call[c].root]
    <2> SUFFICES ASSUME NEW c \in Calls, call[c].st = "live", call'[c].st = "live"
                 PROVE  c \in dom[call[c].root] /\ c \in dom'[call[c].root]
      OBVIOUS
    <2>1. c \in dom[call[c].root] /\ c \in dom'[call'[c].root]
      BY <1>1 DEF Inv, Shown
    <2>2. call'[c].root = call[c].root
      <3>1. call[c].st \notin {"idle"} /\ \A d \in Calls : Good(call[d]) /\ call \in [Calls -> CallType]
        BY <1>1 DEF Inv
      <3>2. ASSUME NEW d \in Calls, Fail(d) PROVE call'[c].root = call[c].root
        BY <3>1, <3>2 DEF Fail, Cleaned, Good, CallType
      <3>3. ASSUME NEW d \in Calls, Page(d) PROVE call'[c].root = call[c].root
        <4>1. CASE \E r \in Roots : Mount(d, r)
          BY <3>1, <4>1 DEF Mount, CallType
        <4>2. CASE \E r \in Roots : MountRejected(d, r)
          BY <3>1, <4>2 DEF MountRejected, CallType
        <4>3. CASE Close(d)
          BY <3>1, <4>3 DEF Close, Good, CallType, vars
        <4>4. QED BY <3>3, <4>1, <4>2, <4>3 DEF Page
      <3>4. ASSUME NEW d \in Calls, Network(d) PROVE call'[c].root = call[c].root
        BY <3>1, <3>2, <3>4 DEF Network, FetchOk, FetchFails, ReadPart, ReadDone, ReadFails, Good,
                                CallType
      <3>5. ASSUME NEW d \in Calls, LoadStep(d) PROVE call'[c].root = call[c].root
        BY <3>1, <3>2, <3>5 DEF LoadStep, FetchFails, ReadFails, DigestOk, DigestFails, Link,
                LinkFails, CompileOk, CompileFails, ImportOk, ImportFails, Cleaned, Good, CallType
      <3>6. ASSUME NEW d \in Calls, TimerFires(d) \/ ViewHost(d) PROVE call'[c].root = call[c].root
        <4>1. CASE OpenFails(d)
          BY <3>2, <4>1 DEF OpenFails
        <4>2. CASE TimerFires(d) \/ OpenOk(d) \/ OpenRenders(d)
          BY <3>1, <4>2 DEF TimerFires, OpenOk, OpenRenders, Good, CallType
        <4>3. QED BY <3>6, <4>1, <4>2 DEF ViewHost
      <3>7. QED BY <1>1, <3>3, <3>4, <3>5, <3>6 DEF Next, PageDone, vars
    <2>3. QED BY <2>1, <2>2
  <1>2. QED BY <1>1, Invariance, PTL DEF Spec, LiveViewKept
=============================================================================
