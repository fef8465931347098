-------------------------- MODULE ViewSessionProofs --------------------------
(***************************************************************************)
(* For any number of submissions and any chunking of the responses: what a *)
(* page shows, when it is busy, and how much of a response it reads.       *)
(***************************************************************************)
EXTENDS ViewSession, SequenceTheorems, TLAPS

\* On a guarded page only the last accepted submission can be pending.
OnlyLastPending == Guarded => \A i \in Pending : i = Len(calls)

\* Only the page that streams its response has a call past "waiting".
OnlyStreamsRead ==
    \A i \in DOMAIN calls : calls[i] \in {"reading", "cancelling"} => Streams

IInv ==
    /\ TypeOK /\ OneCallAtATime /\ OnlyLastPending /\ OnlyStreamsRead /\ AnswerIsLatest
    /\ MessageKept /\ InvokedWhenReady /\ ReadIsBounded

-----------------------------------------------------------------------------
\* The messages are told apart by their first components and call numbers.
LEMMA MessagesDiffer ==
    /\ \A i, j \in Nat : Answer(i) = Answer(j) => i = j
    /\ \A i \in Nat : Answer(i) \notin Errors \cup {InitialStatus, Empty}
    /\ InitialStatus \notin Errors /\ Empty \notin Errors
    /\ InputError \in Errors /\ Failure \in Errors
BY DEF Answer, Errors, InputError, ResponseError, InitialStatus, Empty, Failure

\* An accepted submission is the only pending one of a guarded page.
LEMMA AppendKeeps ==
    ASSUME IInv, SubmitAccepted
    PROVE  IInv'
<1> USE ConstantsAssumption
<1>0. calls \in Seq(Stages) /\ "waiting" \in Stages /\ Len(calls) \in Nat
    BY DEF IInv, TypeOK, Stages
<1>1. /\ calls' = Append(calls, "waiting")
      /\ calls' \in Seq(Stages) /\ Len(calls') = Len(calls) + 1
      /\ DOMAIN calls = 1..Len(calls) /\ DOMAIN calls' = 1..(Len(calls) + 1)
      /\ \A i \in 1..Len(calls) : calls'[i] = calls[i]
      /\ calls'[Len(calls) + 1] = "waiting"
    BY <1>0, AppendProperties DEF SubmitAccepted
<1>2. Pending' = Pending \cup {Len(calls) + 1}
    BY <1>0, <1>1 DEF Pending
<1>3. TypeOK'
    <2>1. Messages \subseteq Messages'
        <3>1. DOMAIN calls \subseteq DOMAIN calls'
            BY <1>0, <1>1
        <3> QED
            BY <3>1, Zenon DEF Messages, Errors, Answer, InputError
    <2>2. busy' \in BOOLEAN /\ disabled' \in BOOLEAN /\ invalid' \in BOOLEAN
        BY DEF SubmitAccepted, Guarded
    <2>3. Len(calls') <= MaxCalls
        BY <1>0, <1>1 DEF SubmitAccepted
    <2> QED
        BY <1>1, <2>1, <2>2, <2>3 DEF IInv, TypeOK, SubmitAccepted, InitialStatus, Empty
<1>4. Guarded => Pending = {}
    BY DEF IInv, OneCallAtATime, SubmitAccepted
<1>5. Guarded' = Guarded /\ Browser' = Browser
    BY DEF SubmitAccepted, Guarded, Browser
<1>6. OneCallAtATime' /\ OnlyLastPending' /\ OnlyStreamsRead'
    <2>1. OneCallAtATime' /\ OnlyLastPending'
        BY <1>0, <1>1, <1>2, <1>4, <1>5 DEF OneCallAtATime, OnlyLastPending, SubmitAccepted
    <2>2. OnlyStreamsRead'
        BY <1>0, <1>1 DEF IInv, OnlyStreamsRead, Streams, SubmitAccepted
    <2> QED
        BY <2>1, <2>2
<1>7. \A i \in DOMAIN calls' : shown' = Answer(i) => i \in DOMAIN calls /\ shown = Answer(i)
    <2>1. shown' = shown /\ shown \in Messages \cup {InitialStatus, Empty}
        BY DEF SubmitAccepted, IInv, TypeOK
    <2>2. \A i \in Nat : shown = Answer(i) => i \in DOMAIN calls
        BY <2>1, <1>0, <1>1, MessagesDiffer DEF Messages
    <2> QED
        BY <2>1, <2>2, <1>0, <1>1
<1>8. AnswerIsLatest'
    BY <1>0, <1>1, <1>2, <1>5, <1>7 DEF IInv, AnswerIsLatest, Pending
<1>9. MessageKept'
    <2>1. \A i \in DOMAIN calls' : shown = Answer(i) => i \in DOMAIN calls
        BY <1>7 DEF SubmitAccepted
    <2>2. DOMAIN calls \subseteq DOMAIN calls'
        BY <1>0, <1>1
    <2>3. shown \in Messages' <=> shown \in Messages
        BY <2>1, <2>2, Zenon DEF Messages, Errors, Answer
    <2>4. shown' = shown /\ displayed' = displayed
        BY DEF SubmitAccepted
    <2> QED
        BY <2>3, <2>4 DEF IInv, MessageKept
<1>10. InvokedWhenReady' /\ ReadIsBounded'
    BY <1>1, <1>5, <1>7 DEF IInv, InvokedWhenReady, ReadIsBounded, SubmitAccepted
<1> QED
    BY <1>3, <1>6, <1>8, <1>9, <1>10 DEF IInv

\* A call that settles is the pending one; its outcome is the latest.
LEMMA SettleKeeps ==
    ASSUME IInv, NEW i \in DOMAIN calls, calls[i] # "settled",
           NEW message \in {Answer(i), Failure}, Settle(i, message),
           message = Answer(i) /\ Browser => ready = "ok"
    PROVE  IInv'
<1> USE ConstantsAssumption
<1>0. /\ calls \in Seq(Stages) /\ Len(calls) \in Nat /\ DOMAIN calls = 1..Len(calls)
      /\ "settled" \in Stages /\ i \in Pending
    BY DEF IInv, TypeOK, Stages, Pending
<1>1. /\ calls' \in Seq(Stages) /\ Len(calls') = Len(calls) /\ DOMAIN calls' = DOMAIN calls
      /\ \A j \in DOMAIN calls : calls'[j] = IF j = i THEN "settled" ELSE calls[j]
    BY <1>0 DEF Settle
<1>2. Pending' = Pending \ {i}
    BY <1>1 DEF Pending
<1>3. /\ shown' = message /\ displayed' = TRUE /\ busy' = FALSE /\ disabled' = FALSE
      /\ page' = page /\ ready' = ready /\ total' = total /\ invalid' = invalid /\ field' = field
      /\ Guarded' = Guarded /\ Browser' = Browser /\ Messages' = Messages
      /\ message \in Messages
    BY <1>1, MessagesDiffer DEF Settle, show, Guarded, Browser, Messages, Errors, Answer
<1>4. TypeOK'
    BY <1>1, <1>3 DEF IInv, TypeOK, InitialStatus, Empty
<1>5. OneCallAtATime' /\ OnlyLastPending' /\ OnlyStreamsRead'
    <2>1. OneCallAtATime' /\ OnlyLastPending'
        BY <1>0, <1>1, <1>2, <1>3 DEF IInv, OneCallAtATime, OnlyLastPending
    <2>2. OnlyStreamsRead'
        BY <1>1, <1>3 DEF IInv, OnlyStreamsRead, Streams
    <2> QED
        BY <2>1, <2>2
<1>6. \A j \in DOMAIN calls : message = Answer(j) => j = i
    BY <1>0, MessagesDiffer
<1>7. AnswerIsLatest'
    <2>1. Guarded => \A j \in DOMAIN calls : ~(j > i)
        BY <1>0 DEF IInv, OnlyLastPending
    <2> QED
        BY <2>1, <1>1, <1>3, <1>6 DEF AnswerIsLatest
<1>8. MessageKept' /\ InvokedWhenReady' /\ ReadIsBounded'
    BY <1>0, <1>1, <1>3, MessagesDiffer
       DEF IInv, MessageKept, InvokedWhenReady, ReadIsBounded
<1> QED
    BY <1>4, <1>5, <1>7, <1>8 DEF IInv

\* A pending call that moves to another pending stage changes nothing else.
LEMMA AdvanceKeeps ==
    ASSUME IInv, Streams, NEW i \in DOMAIN calls, calls[i] # "settled",
           NEW stage \in Stages \ {"settled"}, Advance(i, stage),
           total' \in Nat, total' <= Maximum
    PROVE  IInv'
<1>0. calls \in Seq(Stages) /\ DOMAIN calls = 1..Len(calls) /\ Len(calls) \in Nat
    BY DEF IInv, TypeOK
<1>1. /\ calls' \in Seq(Stages) /\ Len(calls') = Len(calls) /\ DOMAIN calls' = DOMAIN calls
      /\ \A j \in DOMAIN calls : calls'[j] = IF j = i THEN stage ELSE calls[j]
    BY <1>0 DEF Advance
<1>2. Pending' = Pending
    BY <1>1 DEF Pending
<1>3. /\ page' = page /\ field' = field /\ ready' = ready /\ busy' = busy
      /\ disabled' = disabled /\ invalid' = invalid /\ displayed' = displayed
      /\ shown' = shown
      /\ Guarded' = Guarded /\ Browser' = Browser /\ Messages' = Messages
    BY <1>1 DEF Advance, Guarded, Browser, Messages, Errors, Answer
<1>4. TypeOK'
    BY <1>1, <1>3 DEF IInv, TypeOK, InitialStatus, Empty
<1>5. OnlyStreamsRead'
    BY <1>3 DEF OnlyStreamsRead, Streams
<1>6. OneCallAtATime' /\ OnlyLastPending' /\ AnswerIsLatest'
    BY <1>1, <1>2, <1>3 DEF IInv, OneCallAtATime, OnlyLastPending, AnswerIsLatest
<1>7. MessageKept' /\ InvokedWhenReady' /\ ReadIsBounded'
    BY <1>1, <1>3 DEF IInv, MessageKept, InvokedWhenReady, ReadIsBounded
<1> QED
    BY <1>4, <1>5, <1>6, <1>7 DEF IInv

\* Initialization, edits and rejected submissions touch no call.
LEMMA OthersKeep ==
    ASSUME IInv, Initialized \/ InitializationFails \/ Edit \/ SubmitRejected
    PROVE  IInv'
<1>0. /\ page' = page /\ busy' = busy /\ disabled' = disabled /\ calls' = calls /\ total' = total
      /\ Guarded' = Guarded /\ Browser' = Browser /\ Pending' = Pending
      /\ Messages' = Messages
    BY DEF Initialized, InitializationFails, Edit, SubmitRejected,
           Guarded, Browser, Pending, Messages, Errors, Answer
<1>1. /\ shown' \in {shown, Empty} \cup Errors
      /\ displayed' \in BOOLEAN /\ field' \in BOOLEAN /\ invalid' \in BOOLEAN
      /\ ready' \in {"loading", "ok", "failed"}
    <2>0. /\ displayed \in BOOLEAN /\ field \in BOOLEAN /\ invalid \in BOOLEAN
          /\ ready \in {"loading", "ok", "failed"} /\ Text \in BOOLEAN
        BY DEF IInv, TypeOK, Text
    <2>1. CASE Initialized
        BY <2>0, <2>1 DEF Initialized, clearInitialStatus
    <2>2. CASE InitializationFails
        BY <2>0, <2>2, MessagesDiffer DEF InitializationFails, show
    <2>3. CASE Edit
        BY <2>0, <2>3 DEF Edit
    <2>4. CASE SubmitRejected
        BY <2>0, <2>4, MessagesDiffer DEF SubmitRejected, show
    <2> QED
        BY <2>1, <2>2, <2>3, <2>4
<1>2. TypeOK'
    BY <1>0, <1>1 DEF IInv, TypeOK, Messages, InitialStatus, Empty
<1>8. OnlyStreamsRead'
    BY <1>0 DEF IInv, OnlyStreamsRead, Streams
<1>3. OneCallAtATime' /\ OnlyLastPending' /\ ReadIsBounded'
    BY <1>0 DEF IInv, OneCallAtATime, OnlyLastPending, ReadIsBounded,
                Initialized, InitializationFails, Edit, SubmitRejected
<1>4. \A i \in DOMAIN calls : shown' = Answer(i) => shown = Answer(i)
    <2>1. \A i \in DOMAIN calls : i \in Nat
        BY DEF IInv, TypeOK
    <2> QED
        BY <1>1, <2>1, MessagesDiffer
<1>5. AnswerIsLatest'
    BY <1>0, <1>4 DEF IInv, AnswerIsLatest
<1>6. MessageKept'
    <2>1. Empty \notin Messages
        <3>1. \A i \in DOMAIN calls : i \in Nat
            BY DEF IInv, TypeOK
        <3> QED
            BY <3>1, MessagesDiffer DEF Messages
    <2>2. CASE Initialized
        <3>1. displayed' = displayed /\ shown' = IF displayed THEN shown ELSE Empty
            BY <2>2 DEF Initialized, clearInitialStatus
        <3>2. displayed <=> shown \in Messages
            BY DEF IInv, MessageKept
        <3> QED
            BY <2>1, <3>1, <3>2, <1>0 DEF MessageKept
    <2>3. CASE InitializationFails
        BY <2>3, <1>0, MessagesDiffer DEF InitializationFails, show, MessageKept, Messages
    <2>4. CASE Edit
        BY <2>4, <1>0 DEF Edit, IInv, MessageKept
    <2>5. CASE SubmitRejected
        BY <2>5, <1>0, MessagesDiffer DEF SubmitRejected, show, MessageKept, Messages
    <2> QED
        BY <2>2, <2>3, <2>4, <2>5
<1>7. InvokedWhenReady'
    BY <1>0, <1>4 DEF IInv, InvokedWhenReady, Initialized, InitializationFails, Edit, SubmitRejected
<1> QED
    BY <1>2, <1>3, <1>5, <1>6, <1>7, <1>8 DEF IInv

\* The state in which the script leaves the page.
LEMMA InitHolds == Init => IInv
<1> SUFFICES ASSUME Init PROVE IInv
    OBVIOUS
<1>1. calls = << >> /\ calls \in Seq(Stages) /\ Len(calls) = 0 /\ DOMAIN calls = {}
    BY EmptySeq DEF Init
<1>2. Pending = {} /\ Messages = Errors
    BY <1>1 DEF Pending, Messages
<1>3. shown \in {InitialStatus, Empty} /\ ready \in {"loading", "ok"} /\ ~displayed
    BY DEF Init
<1>4. TypeOK
    <2>1. busy \in BOOLEAN /\ disabled \in BOOLEAN /\ invalid \in BOOLEAN /\ displayed \in BOOLEAN
        BY DEF Init
    <2>2. Len(calls) <= MaxCalls /\ total \in Nat
        BY <1>1, ConstantsAssumption DEF Init
    <2>3. page \in Pages /\ field \in BOOLEAN
        BY DEF Init
    <2> QED
        BY <1>1, <1>3, <2>1, <2>2, <2>3 DEF TypeOK
<1>5. OneCallAtATime /\ OnlyLastPending /\ OnlyStreamsRead
    BY <1>1, <1>2 DEF Init, OneCallAtATime, OnlyLastPending, OnlyStreamsRead
<1>6. MessageKept
    BY <1>2, <1>3, MessagesDiffer DEF MessageKept
<1>7. AnswerIsLatest /\ InvokedWhenReady /\ ReadIsBounded
    BY <1>1, ConstantsAssumption DEF Init, AnswerIsLatest, InvokedWhenReady, ReadIsBounded
<1> QED
    BY <1>4, <1>5, <1>6, <1>7 DEF IInv

-----------------------------------------------------------------------------
\* The inductive invariant holds throughout every session.
THEOREM Invariance == Spec => []IInv
<1>1. IInv /\ UNCHANGED vars => IInv'
    BY DEF vars, IInv, TypeOK, OneCallAtATime, OnlyLastPending, OnlyStreamsRead, AnswerIsLatest,
           MessageKept, InvokedWhenReady, ReadIsBounded, Guarded, Browser, Streams, Pending,
           Messages
<1>2. IInv /\ Next => IInv'
    <2> SUFFICES ASSUME IInv, Next PROVE IInv'
        OBVIOUS
    <2>1. CASE Initialized \/ InitializationFails \/ Edit \/ SubmitRejected
        BY <2>1, OthersKeep
    <2>2. CASE SubmitAccepted
        BY <2>2, AppendKeeps
    <2>3. ASSUME NEW i \in DOMAIN calls,
                 NEW message \in {Answer(i)} \cup Errors,
                 BindingAnswers(i, message) \/ IntentAnswers(i, message) \/ StreamEnds(i, message)
          PROVE  IInv'
        <3>1. /\ calls[i] # "settled" /\ message \in {Answer(i), Failure} /\ Settle(i, message)
            BY <2>3, MessagesDiffer DEF BindingAnswers, IntentAnswers, StreamEnds
        <3>2. message = Answer(i) /\ Browser => ready = "ok"
            <4>1. Answer(i) # Failure
                BY MessagesDiffer DEF IInv, TypeOK
            <4>2. calls[i] = "reading" => ~Browser
                BY DEF IInv, OnlyStreamsRead, Streams, Browser
            <4> QED
                BY <2>3, <4>1, <4>2 DEF BindingAnswers, IntentAnswers, StreamEnds, Browser
        <3> QED
            BY <3>1, <3>2, SettleKeeps
    <2>4. ASSUME NEW i \in DOMAIN calls, ResponseRefused(i) \/ Cancelled(i)
          PROVE  IInv'
        <3>1. calls[i] # "settled" /\ Settle(i, Failure) /\ Failure # Answer(i)
            BY <2>4, MessagesDiffer DEF ResponseRefused, Cancelled, IInv, TypeOK
        <3> QED
            BY <3>1, SettleKeeps
    <2>5. ASSUME NEW i \in DOMAIN calls, NEW size \in ChunkSizes,
                 Chunk(i, size)
          PROVE  IInv'
        <3>1. calls[i] # "settled" /\ Streams
            BY <2>5 DEF Chunk, IInv, OnlyStreamsRead
        <3>2. Advance(i, "reading") \/ Advance(i, "cancelling")
            BY <2>5 DEF Chunk
        <3>3. total' \in Nat /\ total' <= Maximum
            BY <2>5, ConstantsAssumption DEF Chunk, IInv, TypeOK, ReadIsBounded
        <3>4. "reading" \in Stages \ {"settled"} /\ "cancelling" \in Stages \ {"settled"}
            BY DEF Stages
        <3> QED
            BY <3>1, <3>2, <3>3, <3>4, AdvanceKeeps
    <2>6. ASSUME NEW i \in DOMAIN calls, LengthRefused(i) \/ StartReading(i) \/ ReadFails(i)
          PROVE  IInv'
        <3>1. calls[i] # "settled" /\ Streams
            BY <2>6 DEF LengthRefused, StartReading, ReadFails, IInv, OnlyStreamsRead
        <3>2. Advance(i, "reading") \/ Advance(i, "cancelling")
            BY <2>6 DEF LengthRefused, StartReading, ReadFails
        <3>3. total' \in Nat /\ total' <= Maximum
            BY <2>6, ConstantsAssumption
               DEF LengthRefused, StartReading, ReadFails, IInv, TypeOK, ReadIsBounded
        <3>4. "reading" \in Stages \ {"settled"} /\ "cancelling" \in Stages \ {"settled"}
            BY DEF Stages
        <3> QED
            BY <3>1, <3>2, <3>3, <3>4, AdvanceKeeps
    <2> QED
        BY <2>1, <2>2, <2>3, <2>4, <2>5, <2>6 DEF Next
<1> QED
    BY <1>1, <1>2, InitHolds, PTL DEF Spec

-----------------------------------------------------------------------------
\* Type correctness of the session.
THEOREM TypeCorrect == Spec => []TypeOK
BY Invariance, PTL DEF IInv

\* A guarded page never has two calls outstanding and never stays disabled.
THEOREM Busy == Spec => []OneCallAtATime
BY Invariance, PTL DEF IInv

\* A guarded page never shows an answer over a later outcome.
THEOREM Latest == Spec => []AnswerIsLatest
BY Invariance, PTL DEF IInv

\* Initialization never takes a message away.
THEOREM Kept == Spec => []MessageKept
BY Invariance, PTL DEF IInv

\* No answer is shown that an uninitialized binding gave.
THEOREM Ready == Spec => []InvokedWhenReady
BY Invariance, PTL DEF IInv

\* At most Maximum bytes of a response are accumulated.
THEOREM Bounded == Spec => []ReadIsBounded
BY Invariance, PTL DEF IInv
=============================================================================
