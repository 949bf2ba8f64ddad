--------------------------- MODULE TemplateStream ---------------------------
(***************************************************************************)
(* What a template provider promises to the channel managers of the pool   *)
(* and of the job declarator client: a stream of templates and tips. A     *)
(* template either comes with a new tip (NewTemplate as a future template, *)
(* and SetNewPrevHash for it), or extends the tip announced last.          *)
(*                                                                         *)
(* The promise outlives a change of the coinbase output constraints only   *)
(* when it leaves one source of templates. Once two of them overlap the    *)
(* order of tips is lost, and templates of a tip that was announced before *)
(* the last one may still come.                                            *)
(***************************************************************************)
EXTENDS Naturals

VARIABLES
  state,     \* "starting", "open" or "closed"
  tip,       \* the tip announced last, 0 before the first one
  sent,      \* templates sent so far, with their tips
  overlap    \* new constraints have left two sources of templates

vars == <<state, tip, sent, overlap>>

Sent(id) == \E s \in sent : s.id = id

Init == state = "starting" /\ tip = 0 /\ sent = {} /\ overlap = FALSE

\* A template together with a tip: the first one, or a later one.
AnnounceTip ==
  /\ state \in {"starting", "open"}
  /\ state' = "open"
  /\ \E s \in sent' :
       /\ ~Sent(s.id) /\ sent' = sent \cup {s}
       /\ tip' = s.tip
       /\ s.tip > tip \/ (overlap /\ s.tip # tip)
  /\ UNCHANGED overlap

\* A template on the tip announced last, or on one announced before.
SendTemplate ==
  /\ state = "open"
  /\ \E s \in sent' :
       /\ ~Sent(s.id) /\ sent' = sent \cup {s}
       /\ \E t \in sent : s.tip = t.tip
       /\ s.tip = tip \/ overlap
  /\ UNCHANGED <<state, tip, overlap>>

SourcesOverlap ==
  /\ state = "open"
  /\ overlap' = TRUE
  /\ UNCHANGED <<state, tip, sent>>

Close ==
  /\ state' = "closed"
  /\ UNCHANGED <<tip, sent, overlap>>

Next == AnnounceTip \/ SendTemplate \/ SourcesOverlap \/ Close

Spec == Init /\ [][Next]_vars
====
