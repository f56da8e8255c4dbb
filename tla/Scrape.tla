------------------------------- MODULE Scrape -------------------------------
(***************************************************************************)
(* What collect does in the eyes of Collect, which calls it, without a     *)
(* word on pools, levels, cookies or buffers: metrics arrive for one name  *)
(* after another, none twice unless the place it was found in has changed, *)
(* and collect returns, nil only if everything that stayed where it was    *)
(* has been sent.  The registry sees the metrics and the end; the verdict  *)
(* is the error that Collect logs and drops (main.go:738-743).             *)
(***************************************************************************)
EXTENDS Sequences

CONSTANTS
  Name,    \* what metrics are sent for
  Origin   \* Origin[n]: the name whose listing n is found in, if there is one

VARIABLES
  running,  \* is there a scrape?
  kept,     \* names that have been what they are since it began
  sent,     \* the names metrics were sent for, in order
  verdict   \* what collect returned to Collect: ok, failed, or none yet

scrapeVars == <<running, kept, sent, verdict>>

SentNames == {sent[i] : i \in DOMAIN sent}

Init ==
  /\ ~running
  /\ kept = {}
  /\ sent = <<>>
  /\ verdict = "none"

Begin ==
  /\ ~running
  /\ running' = TRUE
  /\ kept' \in SUBSET Name
  /\ sent' = <<>>
  /\ verdict' = "none"

\* Somebody changes what is scraped.
Change ==
  /\ kept' \subseteq kept
  /\ UNCHANGED <<running, sent, verdict>>

\* A name is new, or it was found again where something else is now.
MaySend(n) ==
  n \in SentNames => n \in DOMAIN Origin /\ Origin[n] \notin kept

Send ==
  /\ running
  /\ \E n \in Name : MaySend(n) /\ sent' = Append(sent, n)
  /\ UNCHANGED <<running, kept, verdict>>

Succeed ==
  /\ running
  /\ kept \subseteq SentNames
  /\ running' = FALSE
  /\ verdict' = "ok"
  /\ UNCHANGED <<kept, sent>>

\* An error may follow metrics that went out in the same step.
Fail ==
  /\ running
  /\ running' = FALSE
  /\ verdict' = "failed"
  /\ \/ sent' = sent
     \/ \E n \in Name : MaySend(n) /\ sent' = Append(sent, n)
  /\ UNCHANGED kept

Next == Begin \/ Change \/ Send \/ Succeed \/ Fail

SafeSpec == Init /\ [][Next]_scrapeVars

Spec == SafeSpec /\ (running ~> ~running)
=============================================================================
