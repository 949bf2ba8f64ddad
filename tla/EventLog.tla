------------------------------ MODULE EventLog ------------------------------
(***************************************************************************)
(* What a persistence backend promises to its callers: a log. An event is  *)
(* named by the call that brought it. One that is accepted waits behind    *)
(* the earlier ones until it is written or has failed; while the log is    *)
(* open none is dropped, doubled or overtaken. When the log closes the     *)
(* waiting events are lost, except one that is being written.              *)
(***************************************************************************)
EXTENDS Naturals, Sequences

VARIABLES
  calls,      \* calls so far
  open,       \* the log takes events
  pending,    \* accepted events without an outcome
  file,       \* the events written
  failed      \* the events that could not be written

vars == <<calls, open, pending, file, failed>>

Init == calls = 0 /\ open = TRUE /\ pending = <<>> /\ file = <<>> /\ failed = {}

Accept ==
  /\ open
  /\ calls' = calls + 1
  /\ pending' = Append(pending, calls')
  /\ UNCHANGED <<open, file, failed>>

Refuse == calls' = calls + 1 /\ UNCHANGED <<open, pending, file, failed>>

Written ==
  /\ pending # <<>>
  /\ file' = Append(file, Head(pending))
  /\ pending' = Tail(pending)
  /\ UNCHANGED <<calls, open, failed>>

Failed ==
  /\ pending # <<>>
  /\ failed' = failed \cup {Head(pending)}
  /\ pending' = Tail(pending)
  /\ UNCHANGED <<calls, open, file>>

Close ==
  /\ open
  /\ open' = FALSE
  /\ \/ pending' = <<>>
     \/ pending # <<>> /\ pending' = <<Head(pending)>>
  /\ UNCHANGED <<calls, file, failed>>

Next == Accept \/ Refuse \/ Written \/ Failed \/ Close

Spec == Init /\ [][Next]_vars

=============================================================================
