---------------------------- MODULE GeneratedCode ----------------------------
(***************************************************************************)
(* What the code that prod generates does: the arithmetic of its Nat       *)
(* expressions (NatArithmetic), the lists it writes into a caller's buffer *)
(* (ListBuilder), what its bodies do with owned values (Rendering), and    *)
(* the runtime around a Core-Wasm entry (CoreWasmGuest).  A behaviour is   *)
(* about one of the four.                                                  *)
(***************************************************************************)
EXTENDS CoreWasmGuest, GeneratedValues

CONSTANTS Callees, Table, Sources     \* see Ownership, Rendering

VARIABLES
    about,                            \* "guest", "nat", "list" or "locals"
    definition, todo, moved, fault    \* see Rendering

renderState == <<definition, todo, moved, fault>>
codeVars == <<vars, about, natState, listState, renderState>>

Locals == INSTANCE Rendering

CodeInit ==
    /\ about \in {"guest", "nat", "list", "locals"}
    /\ IF about = "guest" THEN Init
       ELSE /\ entry = "bytes" /\ next = 0 /\ pages = InitPages
            /\ blocks = << >> /\ call = Idle /\ last = Trap("none")
    /\ Nats!Init
    /\ IF about = "list" THEN Lists!Init
       ELSE /\ heads = << >> /\ source = "value" /\ copied = 0 /\ buffer = << >>
            /\ depth = 0 /\ len = 0 /\ result = "descending"
    /\ IF about = "locals" THEN Locals!RenderInit
       ELSE /\ definition = "none" /\ todo = << >> /\ moved = {} /\ fault = "not rendered"

Serves == about = "guest" /\ Next /\ UNCHANGED <<about, natState, listState, renderState>>

Computes == about = "nat" /\ Nats!Next /\ UNCHANGED <<vars, about, listState, renderState>>

Builds == about = "list" /\ Lists!Next /\ UNCHANGED <<vars, about, natState, renderState>>

Compiles == about = "locals" /\ Locals!RenderNext /\ UNCHANGED <<vars, about, natState, listState>>

\* A function ends; the guest never does.
Ends == about # "guest" /\ UNCHANGED codeVars

CodeSpec == CodeInit /\ [][Serves \/ Computes \/ Builds \/ Compiles \/ Ends]_codeVars

-----------------------------------------------------------------------------
\* The generated bodies pass the borrow checker.
BorrowsCheck == Locals!BorrowsCheck

\* A copy is made only of what is used twice on some path.
ClonesAreNeeded == Locals!ClonesAreNeeded

\* What several places of a body use is cloned where it is used.
SharedValuesCloned == Locals!SharedValuesCloned
=============================================================================
