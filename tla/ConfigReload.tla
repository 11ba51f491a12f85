---------------------------- MODULE ConfigReload ----------------------------
(***************************************************************************)
(* How a pod with the YAML store comes to serve what is in its config file *)
(* (config.py, store/yaml_store.py, the watcher of main.py).               *)
(*                                                                         *)
(* The file is read when config.py is imported, when the watcher hears of  *)
(* a change, and on POST /admin/reload-config.  None of this awaits, so    *)
(* one reader runs at a time; but the file system does not wait for it:    *)
(* files change between exists() and open(), between the read of the file  *)
(* and the read of a secret it refers to, and between the import and the   *)
(* moment the watcher listens.                                             *)
(*                                                                         *)
(* watchfiles is outside src/.  It is taken to report, once it listens,    *)
(* that something has changed since it reported last.                      *)
(*                                                                         *)
(* Init, Next, Spec and the like are prefixed, so that a module can extend *)
(* this one and those of the other stores.                                 *)
(***************************************************************************)
CONSTANTS
  Plain,      \* contents that are a valid configuration
  Secretful,  \* contents that are, and take a secret from another file
  Invalid,    \* contents that do not validate
  Unparsable, \* contents that are no YAML
  Misshapen,  \* YAML of a shape that raises before it is validated
  Secrets     \* the secret file's contents

\* The contents that raise what reload() does not catch.
Raising == Unparsable \cup Misshapen

ASSUME ContentsAssumption ==
  /\ "missing" \notin Secretful \cup Raising \cup Invalid
  /\ "empty" \notin Secretful \cup Raising \cup Invalid
  /\ "unread" \notin Plain \cup Secretful \cup Invalid \cup Raising
  /\ "nothing" \notin Plain \cup Secretful
  /\ Raising \cap (Plain \cup Secretful) = {}
  /\ Invalid \cap (Plain \cup Secretful) = {}
  /\ Plain \cap Secretful = {}
  /\ "none" \notin Secrets

Contents == Plain \cup Secretful \cup Invalid \cup Raising \cup {"empty"}

VARIABLES
  file,     \* the config file, "missing" if there is none
  secret,   \* the secret file, "none" if it cannot be read
  process,  \* "down", "imported" (config.py has been), "serving"
  watcher,  \* the task: "none", "created", "watching", "dead"
  pending,  \* changes the watcher has not been told of
  reader,   \* who is reading (by), and what was read (got)
  served,   \* what the dictionaries and scalars of config.py hold
  missed    \* history: "file" or "secret", changed unheard since it was read

crVars == <<file, secret, process, watcher, pending, reader, served, missed>>

Disk == <<file, secret>>

NoReader == [by |-> "nobody", got |-> "unread"]

NothingServed == [conf |-> "nothing", secret |-> "none"]

(***************************************************************************)
(* What comes of contents c, with s in the secret file.  No file, and an   *)
(* empty one, are a configuration of defaults.                             *)
(***************************************************************************)
Blank == {"missing", "empty"}

Loads(c, s) == c \in Plain \cup Blank \/ (c \in Secretful /\ s # "none")

Conf(c) == IF c \in Blank THEN "defaults" ELSE c

Loaded(c, s) == [conf |-> Conf(c), secret |-> IF c \in Secretful THEN s ELSE "none"]

CRInit ==
  /\ file \in Contents \cup {"missing"}
  /\ secret \in Secrets \cup {"none"}
  /\ process = "down"
  /\ watcher = "none"
  /\ pending = FALSE
  /\ reader = NoReader
  /\ served = NothingServed
  /\ missed = {}

-----------------------------------------------------------------------------
(***************************************************************************)
(* The file system.                                                        *)
(***************************************************************************)
Edit(c) ==
  /\ c # file
  /\ file' = c
  /\ pending' = (pending \/ watcher = "watching")
  /\ missed' = IF watcher = "watching" THEN missed ELSE missed \cup {"file"}
  /\ UNCHANGED <<secret, process, watcher, reader, served>>

SecretChanges(s) ==
  /\ s # secret
  /\ secret' = s
  /\ missed' = missed \cup {"secret"}
  /\ UNCHANGED <<file, process, watcher, pending, reader, served>>

-----------------------------------------------------------------------------
(***************************************************************************)
(* Reading: exists(), open() and parsing, then lint, secrets, validation   *)
(* and the update in place, with the scalars of config.py.                 *)
(***************************************************************************)
Free == reader = NoReader

\* exists(): if it says no there is no open().
Look(by) ==
  IF file = "missing"
    THEN /\ reader' = [by |-> by, got |-> "missing"]
         /\ missed' = missed \ {"file"}
    ELSE /\ reader' = [by |-> by, got |-> "unread"]
         /\ UNCHANGED missed

Opening == ~Free /\ reader.got = "unread"

Open ==
  /\ Opening
  /\ file # "missing"
  /\ reader' = [reader EXCEPT !.got = file]
  /\ missed' = missed \ {"file"}
  /\ UNCHANGED <<Disk, process, watcher, pending, served>>

\* An exception ends the import, and with it the process, or the watcher's
\* task; to the admin it is a 500.
Raise ==
  /\ reader' = NoReader
  /\ IF reader.by = "watcher" THEN watcher' = "dead" /\ pending' = FALSE
                              ELSE UNCHANGED <<watcher, pending>>
  /\ UNCHANGED <<Disk, process, served, missed>>

OpenFails == Opening /\ file = "missing" /\ Raise

HasRead == ~Free /\ reader.got # "unread"

ParseFails == HasRead /\ reader.got \in Unparsable /\ Raise

\* What precedes the validation asks tenants, users and service principals for
\* their items, and takes the name in a reference to a secret for a text.
ShapeFails == HasRead /\ reader.got \in Misshapen /\ Raise

ApplyBody ==
  /\ served' = Loaded(reader.got, secret)
  /\ process' = IF reader.by = "boot" THEN "imported" ELSE process
  /\ reader' = NoReader
  /\ missed' = missed \ {"secret"}

\* Seeded fault: the changes heard of so far are done with after a reload.
ApplyDrainingEvents ==
  /\ HasRead
  /\ Loads(reader.got, secret)
  /\ ApplyBody
  /\ pending' = FALSE
  /\ UNCHANGED <<Disk, watcher>>

\* Seeded fault: a file that is missing or empty changes nothing.
ApplyUnlessBlank ==
  /\ HasRead
  /\ Loads(reader.got, secret)
  /\ IF reader.got \in Blank /\ reader.by # "boot"
       THEN reader' = NoReader /\ UNCHANGED <<served, process, missed>>
       ELSE ApplyBody
  /\ UNCHANGED <<Disk, watcher, pending>>

Serve ==
  /\ HasRead
  /\ Loads(reader.got, secret)
  /\ ApplyBody
  /\ UNCHANGED <<Disk, watcher, pending>>

\* Seeded fault: what does not validate raises, as it does at import.
RefuseRaising ==
  /\ HasRead
  /\ reader.got \notin Raising /\ ~Loads(reader.got, secret)
  /\ Raise

\* What does not validate, or lacks its secret, is logged and the state
\* kept; at import the process exits.
Refuse ==
  /\ HasRead
  /\ reader.got \notin Raising /\ ~Loads(reader.got, secret)
  /\ reader' = NoReader
  /\ UNCHANGED <<Disk, process, watcher, pending, served, missed>>

\* The next step of whoever is reading; there always is one.
Read == Open \/ OpenFails \/ ParseFails \/ ShapeFails \/ Serve \/ Refuse

-----------------------------------------------------------------------------
(***************************************************************************)
(* The process.                                                            *)
(***************************************************************************)

\* config.py is imported, which makes the store.  A process that exited is
\* started again in the same way.
Boot ==
  /\ process = "down" /\ Free
  /\ Look("boot")
  /\ UNCHANGED <<Disk, process, watcher, pending, served>>

\* lifespan() starts the watcher if there is something to watch.
Lifespan ==
  /\ process = "imported"
  /\ process' = "serving"
  /\ watcher' = IF file = "missing" THEN "none" ELSE "created"
  /\ UNCHANGED <<Disk, pending, reader, served, missed>>

\* The task runs for the first time; a path that is not there raises.
StartWatching ==
  /\ watcher = "created" /\ Free
  /\ watcher' = IF file = "missing" THEN "dead" ELSE "watching"
  /\ UNCHANGED <<Disk, process, pending, reader, served, missed>>

\* awatch() yields the changes so far.
Notice ==
  /\ watcher = "watching" /\ pending /\ Free
  /\ pending' = FALSE
  /\ Look("watcher")
  /\ UNCHANGED <<Disk, process, watcher, served>>

AdminReload ==
  /\ process = "serving" /\ Free
  /\ Look("admin")
  /\ UNCHANGED <<Disk, process, watcher, pending, served>>

Crash ==
  /\ process # "down"
  /\ process' = "down" /\ watcher' = "none" /\ pending' = FALSE
  /\ reader' = NoReader
  /\ served' = NothingServed
  /\ missed' = {}
  /\ UNCHANGED Disk

CRNext ==
  \/ \E c \in Contents \cup {"missing"} : Edit(c)
  \/ \E s \in Secrets \cup {"none"} : SecretChanges(s)
  \/ Read
  \/ Boot \/ Lifespan \/ StartWatching \/ Notice \/ AdminReload \/ Crash

CRSpec == CRInit /\ [][CRNext]_crVars

(***************************************************************************)
(* The code of a reader does not wait for anything.  The event loop runs   *)
(* what is ready in turn, so the watcher gets its turn however many other  *)
(* reloads are asked for: strong fairness.                                 *)
(***************************************************************************)
CRFairSpec ==
  /\ CRSpec
  /\ WF_crVars(Read)
  /\ SF_crVars(Notice)

-----------------------------------------------------------------------------
Readers == {"nobody", "boot", "watcher", "admin"}

CRTypeOK ==
  /\ file \in Contents \cup {"missing"}
  /\ secret \in Secrets \cup {"none"}
  /\ process \in {"down", "imported", "serving"}
  /\ watcher \in {"none", "created", "watching", "dead"}
  /\ pending \in BOOLEAN
  /\ reader \in [by : Readers, got : Contents \cup {"missing", "unread"}]
  /\ served \in [conf : Plain \cup Secretful \cup {"defaults", "nothing"},
                 secret : Secrets \cup {"none"}]
  /\ missed \subseteq {"file", "secret"}
  /\ reader.by \in {"boot"} => process = "down"
  /\ reader.by \in {"watcher", "admin"} => process = "serving"
  /\ reader.by = "watcher" => watcher = "watching"
  /\ pending => watcher = "watching"
  /\ watcher # "none" => process = "serving"
  /\ process = "down" <=> served = NothingServed

(***************************************************************************)
(* When the watcher listens and there is nothing left to do, the pod       *)
(* serves what is in the file: whatever was edited, removed and put back   *)
(* while the file was being read, and however often a reload was refused.  *)
(* The exceptions are what the code does not see: a file changed between   *)
(* the import and the watcher's start, a secret changed since it was read; *)
(* and contents that do not load (YamlIdentityStore, _watch_config).       *)
(***************************************************************************)
Settled == watcher = "watching" /\ ~pending /\ Free

SettledServesTheFile ==
  Settled /\ missed = {} /\ Loads(file, secret) => served = Loaded(file, secret)

(***************************************************************************)
(* A change that was heard of is served in the end, if the contents load   *)
(* and the watcher lives; the file may be edited again, or the secret it   *)
(* refers to be gone.  That includes the file being removed.               *)
(***************************************************************************)
WatchedEditsAreServed ==
  \A c \in Plain \cup Secretful \cup Blank :
    (pending /\ file = c)
      ~> \/ served.conf = Conf(c) \/ file # c
         \/ watcher # "watching"
         \/ c \in Secretful /\ secret = "none"

(***************************************************************************)
(* Contents that the validation refuses and secrets that cannot be read    *)
(* never end the watcher.  It ends only if at some time the file is gone,  *)
(* is no YAML, or is YAML of a shape that the linter or the look for       *)
(* secrets stumbles over: all three pass by the handlers in reload(), which*)
(* is to keep the last good configuration (YamlIdentityStore.reload,       *)
(* _lint_raw, _resolve_secret, _watch_config).                             *)
(***************************************************************************)
WatcherOutlivesBadConfigs ==
  [](file \notin Unparsable \cup Misshapen \cup {"missing"}) => [](watcher # "dead")
=============================================================================
