----------------------------- MODULE StoreHandles -----------------------------
(* Who uses a store of the client: handles in several processes, and the      *)
(* goroutines that call them.                                                 *)

CONSTANTS
    Handles,   \* the store handles, each in a process of its own
    Calls,     \* the goroutines that call them
    HandleOf,  \* the handle a goroutine calls
    Nil,       \* no holder, no operation, no snapshot
    Torn       \* a file that holds only part of what was written to it

ASSUME HandleOfAssumption == HandleOf \in [Calls -> Handles]
ASSUME NilAssumption == Nil \notin Calls
=============================================================================
