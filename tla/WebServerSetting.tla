--------------------------- MODULE WebServerSetting ---------------------------
(***************************************************************************)
(* The immutable web server setting: WebServerService.Select of            *)
(* internal/settings/webserver.go over the statements of its SQLStore.     *)
(* Reading, saving and recording the audit event are statements of their   *)
(* own, so several selections may interleave and one may stop half way.    *)
(*                                                                         *)
(* An audit event that cannot be written is ignored by the code.           *)
(***************************************************************************)
EXTENDS Integers

CONSTANTS
    Selectors,   \* processes that select the web server
    Unset        \* no row, or one with an empty value

ASSUME UnsetAssumption == Unset \notin {"nginx", "apache"}

VARIABLES
    setting,     \* the value of the row web_server
    selected,    \* per web server, its audit events settings.web_server.selected
    denied,      \* the audit events change_denied, with the current value told
    choice,      \* per process, the web server it selects
    selecting    \* per process, how far Select has come

settingVars == <<setting, selected, denied, choice, selecting>>

WebServers == {"nginx", "apache"}

\* What ParseWebServer makes of the spellings an operator may type.
ParseWebServer(value) ==
    CASE value \in {"nginx", "Nginx", " nginx"}   -> "nginx"
      [] value \in {"apache", "Apache", " apache"} -> "apache"
      [] OTHER                                     -> Unset

SettingInit ==
    /\ setting = Unset
    /\ selected = [v \in WebServers |-> 0]
    /\ denied = {}
    /\ choice = [s \in Selectors |-> Unset]
    /\ selecting = [s \in Selectors |-> "off"]

SelectTo(s, next) == selecting' = [selecting EXCEPT ![s] = next]

Select(s, value) ==
    /\ selecting[s] \in {"off", "selected", "refused", "failed"}
    /\ IF ParseWebServer(value) = Unset THEN SelectTo(s, "failed") ELSE SelectTo(s, "get")
    /\ choice' = [choice EXCEPT ![s] = ParseWebServer(value)]
    /\ UNCHANGED <<setting, selected, denied>>

\* Whatever Save writes is immutable.
Get(s) ==
    /\ selecting[s] = "get"
    /\ SelectTo(s, IF setting = Unset THEN "save" ELSE "deny")
    /\ UNCHANGED <<setting, selected, denied, choice>>

\* Mutant: the upsert has no WHERE.
SaveAnyway(s) ==
    /\ selecting[s] = "save"
    /\ setting' = choice[s]
    /\ SelectTo(s, "record")
    /\ UNCHANGED <<selected, denied, choice>>

\* Mutant: the same value may be saved again.
SaveOwn(s) ==
    /\ selecting[s] = "save"
    /\ IF setting \in {Unset, choice[s]}
       THEN setting' = choice[s] /\ SelectTo(s, "record")
       ELSE UNCHANGED setting /\ SelectTo(s, "conflict")
    /\ UNCHANGED <<selected, denied, choice>>

\* The upsert's WHERE lets a row be updated only while it has no value.
Save(s) ==
    /\ selecting[s] = "save"
    /\ IF setting = Unset THEN setting' = choice[s] /\ SelectTo(s, "record")
                          ELSE UNCHANGED setting /\ SelectTo(s, "conflict")
    /\ UNCHANGED <<selected, denied, choice>>

\* The row is written and Select fails for want of an answer.
SaveLost(s) ==
    /\ selecting[s] = "save"
    /\ setting' = IF setting = Unset THEN choice[s] ELSE setting
    /\ SelectTo(s, "failed")
    /\ UNCHANGED <<selected, denied, choice>>

RecordSelected(s, recorded) ==
    /\ selecting[s] = "record"
    /\ selected' = IF recorded THEN [selected EXCEPT ![choice[s]] = @ + 1] ELSE selected
    /\ SelectTo(s, "selected")
    /\ UNCHANGED <<setting, denied, choice>>

\* A conflict of Save is recorded without the current value.
RecordChangeDenied(s, recorded) ==
    /\ selecting[s] \in {"deny", "conflict"}
    /\ denied' =
         IF ~recorded THEN denied
         ELSE denied \cup {[value |-> choice[s],
                            current |-> IF selecting[s] = "deny" THEN setting ELSE Unset]}
    /\ SelectTo(s, "refused")
    /\ UNCHANGED <<setting, selected, choice>>

\* A statement fails or the process dies.
SelectFails(s) ==
    /\ selecting[s] \in {"get", "save", "deny", "conflict", "record"}
    /\ SelectTo(s, "failed")
    /\ UNCHANGED <<setting, selected, denied, choice>>

\* What Select does by itself.
SelectProceeds(s) ==
    \/ Get(s)
    \/ Save(s)
    \/ RecordSelected(s, TRUE)
    \/ RecordChangeDenied(s, TRUE)

\* What goes wrong with it.
SelectDisturbed(s) ==
    \/ SaveLost(s)
    \/ RecordSelected(s, FALSE)
    \/ RecordChangeDenied(s, FALSE)
    \/ SelectFails(s)

-----------------------------------------------------------------------------
(* Properties *)

Selections == {"off", "get", "save", "deny", "conflict", "record", "selected", "refused",
               "failed"}

\* Every variable keeps its type.
SettingTypeOK ==
    /\ setting \in WebServers \cup {Unset}
    /\ selected \in [WebServers -> Nat]
    /\ choice \in [Selectors -> WebServers \cup {Unset}]
    /\ selecting \in [Selectors -> Selections]

\* The audit log tells one selection at most, and the true one; it tells of a
\* refusal only if there was a value to protect, and a selection that succeeds is
\* the setting, although reading, saving and recording are separate statements.
SettingTruthful ==
    /\ \A v \in WebServers : selected[v] > 0 => setting = v /\ selected[v] = 1
    /\ \A d \in denied : setting # Unset /\ d.current \in {setting, Unset}
    /\ \A s \in Selectors : selecting[s] \in {"record", "selected"} => setting = choice[s]

=============================================================================
