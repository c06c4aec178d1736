----------------------------- MODULE ConfigStore ----------------------------
(***************************************************************************)
(* The requests of an administrator that change the configuration          *)
(* (handleConfigAccounts, handleConfigBluesky, handleConfigBazaar and      *)
(* handleConfigGitHub of internal/server/server.go) and the file they save *)
(* it to (internal/config/config.go).  Neither is guarded by a lock.  Of   *)
(* the configuration the list of watched handles is followed; the other    *)
(* fields are set to constants, and saved with it.                         *)
(***************************************************************************)
EXTENDS Integers, FiniteSets

CONSTANTS
  Watchable,       \* handles that are added and removed
  Admin            \* requests that may be under way at a time

ASSUME ConfigAssumption == IsFiniteSet(Watchable)

VARIABLES
  watched,         \* cfg.Bluesky.WatchedAccounts
  file,            \* config.json: the list in it, how long it is, whether it is JSON
  edits,           \* where each request is
  up,              \* the process runs
  owed,            \* history: handles added while nothing else was under way
  dropped,         \* history: handles removed while nothing else was under way
  spoiled          \* history: the save that emptied the file last met another or broke off

fileVars   == <<file, spoiled>>
configVars == <<watched, file, edits, up, owed, dropped, spoiled>>

NoEdit == [pc |-> "idle"]
Editing == {d \in Admin : edits[d].pc # "idle"}
Saving  == {d \in Admin : edits[d].pc = "write"}
Goes(d, pc) == edits' = [edits EXCEPT ![d].pc = pc]

Size(list) == Cardinality(list) + 1
Readable == file.whole

-----------------------------------------------------------------------------
\* The handler reads the list.  What it is about to undo is not owed any more.
BeginEdit(d, kind, handles) ==
  /\ up /\ edits[d] = NoEdit
  /\ edits' = [e \in Admin |->
       IF e = d THEN [pc |-> "change", kind |-> kind, handles |-> handles,
                      list |-> watched, alone |-> Editing = {}]
       ELSE IF e \in Editing THEN [edits[e] EXCEPT !.alone = FALSE] ELSE edits[e]]
  /\ owed' = IF kind = "remove" THEN owed \ handles ELSE owed
  /\ dropped' = IF kind = "add" THEN dropped \ handles ELSE dropped
  /\ UNCHANGED <<watched, file, up, spoiled>>

\* Handles that are watched already are skipped; the other handlers leave the list.
Changed(d) ==
  CASE edits[d].kind = "add"    -> edits[d].list \cup edits[d].handles
    [] edits[d].kind = "remove" -> edits[d].list \ edits[d].handles
    [] OTHER                    -> watched

\* "already watched": answered and not saved.
AlreadyWatched(d) ==
  /\ edits[d].pc = "change" /\ edits[d].kind = "add" /\ edits[d].handles \subseteq edits[d].list
  /\ edits' = [edits EXCEPT ![d] = NoEdit]
  /\ UNCHANGED <<watched, file, up, owed, dropped, spoiled>>

\* The assignment writes over whatever another request has made of the list.
ChangeList(d) ==
  /\ edits[d].pc = "change"
  /\ edits[d].kind = "add" => ~ edits[d].handles \subseteq edits[d].list
  /\ watched' = Changed(d) /\ Goes(d, "marshal")
  /\ UNCHANGED <<fileVars, up, owed, dropped>>

\* Variant: what is saved was marshalled before the change.
MarshalBefore(d) ==
  /\ edits[d].pc = "marshal" /\ Goes(d, "truncate")
  /\ UNCHANGED <<watched, fileVars, up, owed, dropped>>

Marshal(d) ==
  /\ edits[d].pc = "marshal"
  /\ edits' = [edits EXCEPT ![d].pc = "truncate", ![d].list = watched]
  /\ UNCHANGED <<watched, fileVars, up, owed, dropped>>

\* os.WriteFile empties the file ...
Truncate(d) ==
  /\ edits[d].pc = "truncate" /\ Goes(d, "write")
  /\ file' = [list |-> {}, size |-> 0, whole |-> FALSE] /\ spoiled' = (Saving # {})
  /\ UNCHANGED <<watched, up, owed, dropped>>

\* ... and writes from its start: of something longer a rest stays behind.
Write(d) ==
  LET size == Size(edits[d].list) IN
  /\ edits[d].pc = "write"
  /\ file' = IF size < file.size THEN [file EXCEPT !.whole = FALSE]
             ELSE [list |-> edits[d].list, size |-> size, whole |-> TRUE]
  /\ edits' = [edits EXCEPT ![d] = NoEdit]
  /\ LET kept == IF edits[d].alone THEN edits[d].handles ELSE {} IN
     /\ owed' = IF edits[d].kind = "add" THEN owed \cup kept ELSE owed
     /\ dropped' = IF edits[d].kind = "remove" THEN dropped \cup kept ELSE dropped
  /\ UNCHANGED <<watched, up, spoiled>>

\* The file cannot be opened, or not be written: the list stays as changed.
SaveFails(d) ==
  /\ edits[d].pc \in {"truncate", "write"} /\ edits' = [edits EXCEPT ![d] = NoEdit]
  /\ spoiled' = (spoiled \/ d \in Saving)
  /\ UNCHANGED <<watched, file, up, owed, dropped>>

-----------------------------------------------------------------------------
Stop ==
  /\ up /\ up' = FALSE
  /\ spoiled' = (spoiled \/ Saving # {})
  /\ edits' = [d \in Admin |-> NoEdit] /\ watched' = {}
  /\ UNCHANGED <<file, owed, dropped>>

\* Load; with a file that is no JSON the process does not start.
Load ==
  /\ ~ up /\ Readable
  /\ up' = TRUE /\ watched' = file.list
  /\ UNCHANGED <<fileVars, edits, owed, dropped>>

ConfigInit ==
  /\ watched = {} /\ file = [list |-> {}, size |-> Size({}), whole |-> TRUE] /\ up = TRUE
  /\ edits = [d \in Admin |-> NoEdit] /\ owed = {} /\ dropped = {} /\ spoiled = FALSE

ConfigNext ==
  \/ \E d \in Admin :
       \/ \E handles \in (SUBSET Watchable) \ {{}} : BeginEdit(d, "add", handles)
       \/ \E h \in Watchable : BeginEdit(d, "remove", {h})
       \/ BeginEdit(d, "settings", {})
       \/ AlreadyWatched(d) \/ ChangeList(d) \/ Marshal(d)
       \/ Truncate(d) \/ Write(d) \/ SaveFails(d)
  \/ Stop \/ Load

-----------------------------------------------------------------------------
\* The list and the file are of handles; a process that is down answers nobody.
ConfigTypeOK ==
  /\ watched \subseteq Watchable /\ owed \subseteq Watchable /\ dropped \subseteq Watchable
  /\ Readable => file.list \subseteq Watchable
  /\ up \in BOOLEAN /\ (~ up => Editing = {})

\* Requests that overlap lose only what they themselves change: a handle whose
\* addition was answered before they came is watched until somebody removes it,
\* and one whose removal was answered is not, also after a restart.
AnsweredIsWatched == up => owed \subseteq watched /\ dropped \cap watched = {}

\* What was answered is in the file whenever the file can be read.
AnsweredIsSaved == Readable => owed \subseteq file.list /\ dropped \cap file.list = {}

\* Only saves that meet, or break off, leave a file the process cannot start from.
OnlyMeetingSavesSpoil == Saving = {} /\ ~ spoiled => Readable

-----------------------------------------------------------------------------
(* What the theorems of ServerProofs rest on *)

Edit == [pc : {"change", "marshal", "truncate", "write"}, kind : {"add", "remove", "settings"},
         handles : SUBSET Watchable, list : SUBSET Watchable, alone : BOOLEAN]

ConfigShape ==
  /\ ConfigTypeOK /\ edits \in [Admin -> {NoEdit} \cup Edit] /\ spoiled \in BOOLEAN
  /\ file \in [list : SUBSET Watchable, size : Nat, whole : BOOLEAN]

\* A request that met no other is the only one: the next one tells it.
OneIsAlone == \A d \in Editing : edits[d].alone => Editing = {d}

\* While somebody is undoing what was answered, it is not owed.
UndoneIsNotOwed ==
  \A d \in Editing :
    /\ edits[d].kind = "add" => dropped \cap edits[d].handles = {}
    /\ edits[d].kind = "remove" => owed \cap edits[d].handles = {}

\* The list a request has read or marshalled holds what was answered before it
\* came: what others answer while it runs is not owed.
ListsAreCurrent ==
  \A d \in Editing : edits[d].pc # "marshal" =>
    owed \subseteq edits[d].list /\ dropped \cap edits[d].list = {}

\* What a lone request has changed is in the list, and then in what it saves.
AloneIsDone ==
  \A d \in Editing :
    edits[d].alone /\ edits[d].pc # "change" =>
      \A list \in {watched} \cup (IF edits[d].pc = "marshal" THEN {} ELSE {edits[d].list}) :
        /\ edits[d].kind = "add" => edits[d].handles \subseteq list
        /\ edits[d].kind = "remove" => edits[d].handles \cap list = {}

\* Unless two saves met, the file is whole or emptied by the one that saves.
OneSaves ==
  \/ spoiled
  \/ Saving = {} /\ Readable
  \/ \E d \in Admin : Saving = {d} /\ file.size = 0

ConfigInv ==
  /\ ConfigShape /\ OneIsAlone /\ UndoneIsNotOwed /\ ListsAreCurrent /\ AloneIsDone
  /\ AnsweredIsWatched /\ AnsweredIsSaved /\ OneSaves

=============================================================================
