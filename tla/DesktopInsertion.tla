-------------------------- MODULE DesktopInsertion --------------------------
(***************************************************************************)
(* The insertion of one text (src/insertion.rs, src/desktop.rs): which     *)
(* backend an arm selects, and the clipboard, which is shared with a user  *)
(* who copies and a focused application that pastes.  The bridge to Fcitx  *)
(* is one answer here; FcitxBridge has its exchanges.                      *)
(***************************************************************************)

CONSTANTS
  Old, Copies,    \* texts: that on the clipboard at first, and those the user copies
  Dictation,      \* the text to insert
  Empty, Image    \* a clipboard without content, or with what is not text

InsertionAssumption ==
  /\ Dictation \notin Copies \cup {Old, Empty, Image}
  /\ Image \notin Copies \cup {Old, Empty}
  /\ Empty \notin Copies \cup {Old} /\ Old \notin Copies

Modes == {"fcitx", "auto", "clipboard", "copy"}

VARIABLES
  mode, restore,   \* configuration
  bridge,          \* what the bridge answers: it takes, refuses, or is not there
  backend,         \* that of the arm
  pc,
  clipboard,
  previous,        \* ClipboardSnapshot
  chord,           \* the application was told to paste and has not yet
  committed, pasted,       \* history: by Fcitx, and what was pasted
  before, copied, refused, \* history: the clipboard when the insertion began, what
                           \* the user copied since, and whether the bridge refused
  theirs,            \* history: a copy was made between the write and the comparison
  restored         \* InsertionResult::clipboard_restored

config  == <<mode, restore>>
history == <<committed, pasted, before, refused>>
vars    == <<config, bridge, backend, pc, clipboard, previous, chord, history, copied, theirs,
             restored>>

Nothing == "none"

InsertionInit ==
  /\ mode \in Modes /\ restore \in BOOLEAN
  /\ bridge \in {"takes", "refuses", "absent"}
  /\ backend = Nothing /\ pc = "idle"
  /\ clipboard \in {Old, Empty, Image} /\ previous = Nothing
  /\ chord = FALSE
  /\ committed = FALSE /\ pasted = Nothing
  /\ before = clipboard /\ copied = {} /\ refused = FALSE
  /\ theirs = FALSE /\ restored = FALSE

Done == pc \in {"done", "failed", "cancelled"}

-----------------------------------------------------------------------------
(***************************************************************************)
(* The environment.                                                        *)
(***************************************************************************)

\* While an insertion is under way; each text once.
UserCopies ==
  /\ ~ Done
  /\ \E c \in Copies \ copied : clipboard' = c /\ copied' = copied \cup {c}
  /\ theirs' = (theirs \/ pc \in {"pasting", "waiting", "comparing"})
  /\ UNCHANGED <<config, bridge, backend, pc, previous, chord, history, restored>>

AppPastes ==
  /\ chord
  /\ chord' = FALSE /\ pasted' = clipboard
  /\ UNCHANGED <<config, bridge, backend, pc, clipboard, previous, committed, before, copied, refused,
                 theirs, restored>>

BridgeChanges ==
  /\ ~ Done
  /\ bridge' \in {"takes", "refuses", "absent"} \ {bridge}
  /\ UNCHANGED <<config, backend, pc, clipboard, previous, chord, history, copied, theirs, restored>>

-----------------------------------------------------------------------------
(***************************************************************************)
(* DesktopInsertionAdapter.                                                *)
(***************************************************************************)

\* Mutant: whatever the bridge answers.
MayFallBack_Always(answer) == answer # "takes"

\* may_auto_fallback_from_fcitx
MayFallBack(answer) == answer = "absent"

Selected(answer) ==
  CASE mode = "fcitx"     -> IF answer = "takes" THEN "fcitx5" ELSE Nothing
    [] mode = "auto"      -> IF answer = "takes" THEN "fcitx5"
                             ELSE IF MayFallBack(answer) THEN "copy-only" ELSE Nothing
    [] mode = "clipboard" -> "wl-copy+ydotool"
    [] OTHER              -> "copy-only"

Arm ==
  /\ pc = "idle"
  /\ backend' = Selected(bridge)
  /\ pc' = IF Selected(bridge) = Nothing THEN "failed" ELSE "armed"
  /\ refused' = (mode \in {"fcitx", "auto"} /\ bridge = "refuses")
  /\ UNCHANGED <<config, bridge, clipboard, previous, chord, committed, pasted, before, copied,
                 theirs, restored>>

Cancel ==
  /\ pc = "armed"
  /\ pc' = "cancelled"
  /\ UNCHANGED <<config, bridge, backend, clipboard, previous, chord, history, copied, theirs, restored>>

CommitByFcitx ==
  /\ pc = "armed" /\ backend = "fcitx5"
  /\ committed' = (bridge = "takes")
  /\ pc' = IF bridge = "takes" THEN "done" ELSE "failed"
  /\ refused' = (refused \/ bridge = "refuses")
  /\ UNCHANGED <<config, bridge, backend, clipboard, previous, chord, pasted, before, copied,
                 theirs, restored>>

\* copy
CopyOnly ==
  /\ pc = "armed" /\ backend = "copy-only"
  /\ \/ clipboard' = Dictation /\ pc' = "done"
     \/ pc' = "failed" /\ UNCHANGED clipboard
  /\ UNCHANGED <<config, bridge, backend, previous, chord, history, copied, theirs, restored>>

\* insert, with a program for each step.
Insert ==
  /\ pc = "armed" /\ backend = "wl-copy+ydotool"
  /\ pc' = IF restore THEN "reading" ELSE "writing"
  /\ before' = clipboard /\ copied' = {} /\ theirs' = FALSE
  /\ UNCHANGED <<config, bridge, backend, clipboard, previous, chord, committed, pasted, refused,
                 restored>>

\* insert_diagnostic, which needs no arm.
InsertDiagnostic ==
  /\ pc = "idle"
  /\ backend' = "wl-copy+ydotool"
  /\ pc' = IF restore THEN "reading" ELSE "writing"
  /\ before' = clipboard /\ copied' = {} /\ theirs' = FALSE
  /\ UNCHANGED <<config, bridge, clipboard, previous, chord, committed, pasted, refused, restored>>

Texts == {Old, Dictation} \cup Copies

\* read_clipboard_snapshot, first the text
ReadText ==
  /\ pc = "reading"
  /\ IF clipboard \in Texts THEN previous' = clipboard /\ pc' = "writing"
                            ELSE pc' = "listing" /\ UNCHANGED previous
  /\ UNCHANGED <<config, bridge, backend, clipboard, chord, history, copied, theirs, restored>>

\* Mutant: what is not text is taken for nothing.
ListTypes_TextOnly ==
  /\ pc = "listing"
  /\ previous' = Empty /\ pc' = "writing"
  /\ UNCHANGED <<config, bridge, backend, clipboard, chord, history, copied, theirs, restored>>

\* and if there is none, whether there is anything.
ListTypes ==
  /\ pc = "listing"
  /\ IF clipboard = Empty THEN previous' = Empty /\ pc' = "writing"
                          ELSE pc' = "failed" /\ UNCHANGED previous
  /\ UNCHANGED <<config, bridge, backend, clipboard, chord, history, copied, theirs, restored>>

WriteText ==
  /\ pc = "writing"
  /\ \/ clipboard' = Dictation /\ pc' = "pasting"
     \/ pc' = "failed" /\ UNCHANGED clipboard
  /\ UNCHANGED <<config, bridge, backend, previous, chord, history, copied, theirs, restored>>

\* send_paste_chord
SendChord ==
  /\ pc = "pasting"
  /\ \/ chord' = TRUE /\ pc' = "waiting"
     \/ pc' = "failed" /\ UNCHANGED chord
  /\ UNCHANGED <<config, bridge, backend, clipboard, previous, history, copied, theirs, restored>>

\* Mutant: there is no delay.
Delay_None ==
  /\ pc = "waiting"
  /\ pc' = "comparing"
  /\ UNCHANGED <<config, bridge, backend, clipboard, previous, chord, history, copied, theirs, restored>>

\* The delay is long enough for an application that is not stuck.
Delay ==
  /\ pc = "waiting" /\ ~ chord
  /\ pc' = "comparing"
  /\ UNCHANGED <<config, bridge, backend, clipboard, previous, chord, history, copied, theirs, restored>>

\* Mutant: it is restored whatever the clipboard holds.
Compare_Nothing ==
  /\ pc = "comparing"
  /\ pc' = IF restore THEN "restoring" ELSE "done"
  /\ UNCHANGED <<config, bridge, backend, clipboard, previous, chord, history, copied, theirs, restored>>

\* clipboard_matches
Compare ==
  /\ pc = "comparing"
  /\ pc' = IF restore /\ clipboard = Dictation THEN "restoring" ELSE "done"
  /\ UNCHANGED <<config, bridge, backend, clipboard, previous, chord, history, copied, theirs, restored>>

\* Mutant: an empty clipboard is not restored but counted as such.
Restore_TextOnly ==
  /\ pc = "restoring"
  /\ clipboard' = IF previous = Empty THEN clipboard ELSE previous
  /\ restored' = TRUE
  /\ pc' = "done"
  /\ UNCHANGED <<config, bridge, backend, previous, chord, history, copied, theirs>>

\* A failure to restore is reported, but does not fail the insertion.
Restore ==
  /\ pc = "restoring"
  /\ \/ clipboard' = previous /\ restored' = TRUE
     \/ UNCHANGED <<clipboard, restored>>
  /\ pc' = "done"
  /\ UNCHANGED <<config, bridge, backend, previous, chord, history, copied, theirs>>

Adapter ==
  \/ Arm \/ Cancel \/ CommitByFcitx \/ CopyOnly \/ Insert \/ InsertDiagnostic
  \/ ReadText \/ ListTypes \/ WriteText \/ SendChord \/ Delay \/ Compare \/ Restore

InsertionNext == UserCopies \/ AppPastes \/ BridgeChanges \/ Adapter

InsertionSpec == InsertionInit /\ [][InsertionNext]_vars

-----------------------------------------------------------------------------
(***************************************************************************)
(* Properties.                                                             *)
(***************************************************************************)

\* A refusal for its focus or its security is never got around: the text then
\* reaches neither the application nor the clipboard (insertion.rs:122).
RefusalHolds ==
  refused => ~ committed /\ pasted = Nothing /\ clipboard # Dictation

\* A clipboard reported as restored is the one before, unless the user copied.
RestoredIsAsBefore == restored /\ pc = "done" /\ copied = {} => clipboard = before

\* What cannot be restored is not replaced, as long as restoring is asked for.
ImageIsKept ==
  backend = "wl-copy+ydotool" /\ restore /\ before = Image /\ copied = {} => clipboard = Image

\* If the user copies nothing, it is the dictation that is pasted.
PastesTheDictation == pasted # Nothing /\ copied = {} => pasted = Dictation

\* A copy that the user makes after the text was put on the clipboard, and before it
\* is compared, is there at the end, or one that the user made later.  One between the
\* comparison and the restoring, two programs, is overwritten (desktop.rs:72), although
\* "a new user copy is never overwritten" (docs/configuration.md:37).
CopyAfterWriteStays == theirs => clipboard \in Copies
=============================================================================
