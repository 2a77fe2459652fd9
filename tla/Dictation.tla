------------------------------ MODULE Dictation ------------------------------
(***************************************************************************)
(* What the daemon promises its users, without its parts: dictations are   *)
(* numbered in the order they begin, one at a time is under way, each ends *)
(* with one outcome that tells what became of its text, and a text reaches *)
(* the desktop at most once, before its dictation ends.  An ended one can  *)
(* still be withdrawn: its outcome then reads "cancelled".                 *)
(***************************************************************************)
EXTENDS Naturals

CONSTANT Ids    \* natural numbers above 0

None == 0

VARIABLES
  current,    \* the dictation under way, or None
  delivered,  \* the dictations whose text has reached the desktop
  outcome     \* per dictation: its outcome, "none" before it ends

dictation == <<current, delivered, outcome>>

DictationInit ==
  /\ current = None
  /\ delivered = {}
  /\ outcome = [i \in Ids |-> "none"]

\* i comes after every dictation so far.
Fresh(i) == \A j \in Ids : j >= i => outcome[j] = "none"

Begin(i) ==
  /\ current = None /\ Fresh(i)
  /\ current' = i
  /\ UNCHANGED <<delivered, outcome>>

\* A dictation that cannot begin ends as it starts.
BeginInVain(i) ==
  /\ current = None /\ Fresh(i)
  /\ outcome' = [outcome EXCEPT ![i] = "failed"]
  /\ UNCHANGED <<current, delivered>>

Deliver(i) ==
  /\ current = i /\ i \notin delivered
  /\ delivered' = delivered \cup {i}
  /\ UNCHANGED <<current, outcome>>

End(i, o) ==
  /\ current = i
  /\ current' = None
  /\ outcome' = [outcome EXCEPT ![i] = o]

Complete(i) ==
  /\ i \notin delivered
  /\ delivered' = delivered \cup {i}
  /\ End(i, "completed")

NoSpeech(i) == i \notin delivered /\ End(i, "no-speech") /\ UNCHANGED delivered

Cancel(i) == End(i, "cancelled") /\ UNCHANGED delivered

\* A failure while the text is handed over may leave it delivered.
Fail(i) ==
  /\ End(i, "failed")
  /\ \/ UNCHANGED delivered
     \/ i \notin delivered /\ delivered' = delivered \cup {i}

Withdraw(i) ==
  /\ current = None
  /\ outcome[i] # "none"
  /\ \A j \in Ids : j > i => outcome[j] = "none"
  /\ outcome' = [outcome EXCEPT ![i] = "cancelled"]
  /\ UNCHANGED <<current, delivered>>

DictationNext ==
  \E i \in Ids : \/ Begin(i) \/ BeginInVain(i) \/ Deliver(i) \/ Complete(i)
                 \/ NoSpeech(i) \/ Cancel(i) \/ Fail(i) \/ Withdraw(i)

DictationSpec == DictationInit /\ [][DictationNext]_dictation
=============================================================================
