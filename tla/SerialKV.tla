------------------------------ MODULE SerialKV ------------------------------
(***************************************************************************)
(* What storage.KV promises (storage/storage.go): "serializable            *)
(* transactions ... Changes are applied atomically when the enclosing      *)
(* Transaction callback returns nil; otherwise they roll back."            *)
(*                                                                         *)
(* A callback may have been told anything; but a transaction that succeeds *)
(* was told what it would have been told had it run alone, at the moment   *)
(* it succeeds.                                                            *)
(***************************************************************************)
EXTENDS Integers, Sequences

CONSTANTS Clients, Keys, Values, Nothing

VARIABLES
  data,     \* the value of each key, Nothing if it is not there
  running,  \* which clients are in a callback
  log,      \* the operations of each callback, with what they returned
  result    \* how the transaction ended that each client is about to return from

serialVars == <<data, running, log, result>>

Contents == [Keys -> Values \cup {Nothing}]

Present(d) == {k \in Keys : d[k] # Nothing}

(* The operations of a Tx; a Delete is a put of Nothing. *)
Ops == [op: {"get", "put"}, key: Keys, value: Values \cup {Nothing}]
         \cup [op: {"scan"}, found: SUBSET Keys]

(* What is stored after one operation, and whether it returned the truth. *)
After(d, o)    == IF o.op = "put" THEN [d EXCEPT ![o.key] = o.value] ELSE d
Truthful(d, o) == CASE o.op = "get"  -> o.value = d[o.key]
                    [] o.op = "scan" -> o.found = Present(d)
                    [] OTHER         -> TRUE

(* Run alone from d, the operations of l leave e: s are the contents after *)
(* each of them.                                                           *)
Runs(d, l, e) ==
  \E s \in [0..Len(l) -> Contents] :
    /\ s[0] = d /\ s[Len(l)] = e
    /\ \A i \in 1..Len(l) : Truthful(s[i - 1], l[i]) /\ s[i] = After(s[i - 1], l[i])

-----------------------------------------------------------------------------
Begin(c) ==
  /\ c \notin running /\ result[c] = "none"
  /\ running' = running \cup {c}
  /\ log' = [log EXCEPT ![c] = <<>>]
  /\ UNCHANGED <<data, result>>

Operation(c) ==
  /\ c \in running
  /\ \E o \in Ops : log' = [log EXCEPT ![c] = Append(@, o)]
  /\ UNCHANGED <<data, running, result>>

Ended(c, r) ==
  /\ c \in running
  /\ running' = running \ {c}
  /\ log' = [log EXCEPT ![c] = <<>>]
  /\ result' = [result EXCEPT ![c] = r]

Succeed(c) == Ended(c, "ok") /\ Runs(data, log[c], data')

(* The commit's outcome was not reported: all or nothing, but an error. *)
Unknown(c) == Ended(c, "error") /\ Runs(data, log[c], data')

Fail(c) == data' = data /\ Ended(c, "error")

Return(c) ==
  /\ result[c] # "none"
  /\ result' = [result EXCEPT ![c] = "none"]
  /\ UNCHANGED <<data, running, log>>

(* kv.Put and kv.Delete. *)
Write == /\ \E k \in Keys, v \in Values \cup {Nothing} : data' = [data EXCEPT ![k] = v]
         /\ UNCHANGED <<running, log, result>>

Init ==
  /\ data = [k \in Keys |-> Nothing]
  /\ running = {}
  /\ log = [c \in Clients |-> <<>>]
  /\ result = [c \in Clients |-> "none"]

Next ==
  \/ \E c \in Clients : Begin(c) \/ Operation(c) \/ Succeed(c) \/ Unknown(c) \/ Fail(c) \/ Return(c)
  \/ Write

Spec == Init /\ [][Next]_serialVars
=============================================================================
