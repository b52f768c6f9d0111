---- MODULE HubConfig ----
(***************************************************************************)
(* The files ~/.hybro/config.yaml and ~/.hybro/hub_id under the commands   *)
(* that read and write them (hub/config.py): `start` saves the key it is   *)
(* given and loads the configuration, the other commands load it.  The     *)
(* commands run at the same time and may be cut short at any step; a file  *)
(* is emptied when it is opened for writing and filled later.              *)
(*                                                                         *)
(* Of the configuration the model keeps the API key and whether the user's *)
(* other settings are there.  A hub id is named after the command that     *)
(* makes it.                                                               *)
(***************************************************************************)
CONSTANTS
  Command,         \* the commands given, one process each
  Key,             \* literal API keys
  NoKey, NoId,
  Reference        \* the text ${HYBRO_API_KEY} in the place of a key

ASSUME NameAssumption ==
  /\ NoKey \notin Key /\ Reference \notin Key /\ NoKey # Reference
  /\ NoId \notin Command

File == [key : Key \cup {NoKey, Reference}, settings : BOOLEAN]
Empty == [key |-> NoKey, settings |-> FALSE]

VARIABLES
  env,     \* HYBRO_API_KEY, the same for all commands
  wired,   \* the user's file refers to it
  config,  \* config.yaml; a missing file is as good as an empty one
  hubId,   \* the text of hub_id
  at,      \* where each command is
  given,   \* --api-key
  data,    \* what save_api_key has read
  key,     \* the key the command runs with
  id,      \* and its hub id
  torn,    \* history: a save was cut short, or read a file being saved
  raced    \* history: two commands made a hub id at the same time

userVars == <<env, wired>>
configVars == <<env, wired, config, hubId, at, given, data, key, id, torn, raced>>

ConfigTypeOK ==
  /\ env \in Key \cup {NoKey} /\ wired \in BOOLEAN
  /\ config \in File
  /\ hubId \in Command \cup {NoId}
  /\ at \in [Command -> {"idle", "save", "open", "write", "load", "hubId", "create", "fill",
                         "running", "gone"}]
  /\ given \in [Command -> Key \cup {NoKey}]
  /\ data \in [Command -> File]
  /\ key \in [Command -> Key \cup {NoKey}]
  /\ id \in [Command -> Command \cup {NoId}]
  /\ torn \in BOOLEAN /\ raced \in BOOLEAN
  /\ \A c \in Command : at[c] \in {"fill", "running"} => id[c] # NoId

ConfigInit ==
  /\ env \in Key \cup {NoKey}
  /\ config \in File /\ config.settings
  /\ wired = (config.key = Reference)
  /\ hubId = NoId
  /\ at = [c \in Command |-> "idle"]
  /\ given = [c \in Command |-> NoKey]
  /\ data = [c \in Command |-> Empty]
  /\ key = [c \in Command |-> NoKey]
  /\ id = [c \in Command |-> NoId]
  /\ torn = FALSE /\ raced = FALSE

Goes(c, from, to) == at[c] = from /\ at' = [at EXCEPT ![c] = to]

\* The user gives a command, `start` with a key or any without.
Give(c) ==
  \E k \in Key \cup {NoKey} :
    /\ Goes(c, "idle", IF k = NoKey THEN "load" ELSE "save")
    /\ given' = [given EXCEPT ![c] = k]
    /\ UNCHANGED <<userVars, config, hubId, data, key, id, torn, raced>>

----------------------------------------------------------------------------
\* save_api_key

\* Mutant of ReadToSave: a reference is overwritten like any key.
ReadToSaveAll(c) ==
  /\ Goes(c, "save", "open")
  /\ data' = [data EXCEPT ![c] = config]
  /\ torn' = (torn \/ \E d \in Command : at[d] = "write")
  /\ UNCHANGED <<userVars, config, hubId, given, key, id, raced>>

\* A reference to the environment is left in place.
ReadToSave(c) ==
  /\ Goes(c, "save", IF config.key = Reference THEN "load" ELSE "open")
  /\ data' = [data EXCEPT ![c] = config]
  /\ torn' = (torn \/ \E d \in Command : at[d] = "write")
  /\ UNCHANGED <<userVars, config, hubId, given, key, id, raced>>

\* open(CONFIG_FILE, "w")
OpenToSave(c) ==
  /\ Goes(c, "open", "write")
  /\ config' = Empty
  /\ UNCHANGED <<userVars, hubId, given, data, key, id, torn, raced>>

WriteKey(c) ==
  /\ Goes(c, "write", "load")
  /\ config' = [data[c] EXCEPT !.key = given[c]]
  /\ UNCHANGED <<userVars, hubId, given, data, key, id, torn, raced>>

----------------------------------------------------------------------------
\* load_config

\* Mutant of Expanded: the reference goes on as it is.
Unexpanded(k) == k

\* _expand_env_vars
Expanded(k) == IF k = Reference THEN env ELSE k

\* The command line comes before the environment, and that before the file.
LoadKey(c) ==
  /\ Goes(c, "load", "hubId")
  /\ key' = [key EXCEPT ![c] = CASE given[c] # NoKey -> given[c]
                                 [] given[c] = NoKey /\ env # NoKey -> env
                                 [] OTHER -> Expanded(config.key)]
  /\ UNCHANGED <<userVars, config, hubId, given, data, id, torn, raced>>

Race(c, to) ==
  raced' = (raced \/ (to = "create" /\ \E d \in Command \ {c} : at[d] \in {"create", "fill"}))

\* Mutant of ReadHubId: every command makes an id.
ReadNoHubId(c) ==
  /\ Goes(c, "hubId", "create")
  /\ Race(c, "create")
  /\ UNCHANGED <<userVars, config, hubId, given, data, key, id, torn>>

\* _load_or_create_hub_id: an empty file counts as none.
ReadHubId(c) ==
  /\ Goes(c, "hubId", IF hubId = NoId THEN "create" ELSE "running")
  /\ Race(c, at'[c])
  /\ id' = [id EXCEPT ![c] = hubId]
  /\ UNCHANGED <<userVars, config, hubId, given, data, key, torn>>

\* write_text opens the file ...
CreateHubId(c) ==
  /\ Goes(c, "create", "fill")
  /\ id' = [id EXCEPT ![c] = c]
  /\ hubId' = NoId
  /\ UNCHANGED <<userVars, config, given, data, key, torn, raced>>

\* ... and fills it.
FillHubId(c) ==
  /\ Goes(c, "fill", "running")
  /\ hubId' = id[c]
  /\ UNCHANGED <<userVars, config, given, data, key, id, torn, raced>>

\* The command ends, done or cut short.
End(c) ==
  /\ at[c] \notin {"idle", "gone"}
  /\ at' = [at EXCEPT ![c] = "gone"]
  /\ torn' = (torn \/ at[c] = "write")
  /\ UNCHANGED <<userVars, config, hubId, given, data, key, id, raced>>

----------------------------------------------------------------------------
Save(c) == ReadToSave(c) \/ OpenToSave(c) \/ WriteKey(c)
Load(c) == LoadKey(c) \/ ReadHubId(c) \/ CreateHubId(c) \/ FillHubId(c)

ConfigNext == \E c \in Command : Give(c) \/ Save(c) \/ Load(c) \/ End(c)

ConfigSpec == ConfigInit /\ [][ConfigNext]_configVars

----------------------------------------------------------------------------
\* Properties

\* What the user wrote into config.yaml stays there: a reference to the environment
\* whatever happens, the other settings unless a save is cut short or meets another
\* one's half-written file.
UserTextStays ==
  /\ wired => config.key = Reference /\ config.settings
  /\ ~torn => config.settings \/ \E c \in Command : at[c] = "write" /\ data[c].settings

\* All commands that run use the hub id in the file, unless two of them found no id
\* at the same time; a command cut short between emptying and filling the file does
\* not make them differ.
IdsAgree == ~raced => \A c \in Command : at[c] = "running" => id[c] = hubId
====
