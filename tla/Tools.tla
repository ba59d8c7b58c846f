------------------------------- MODULE Tools -------------------------------
(***************************************************************************)
(* The command line tools that change database files (src/src/bin), one    *)
(* after the other on a few paths: each reads the whole file, and only     *)
(* then opens its output and saves to it, cell by cell.  A tool may be     *)
(* killed at any step, and YubiKeys come and go: devices are those that a  *)
(* program saw when it last looked.                                        *)
(***************************************************************************)
EXTENDS Opening

CONSTANTS
    Paths,
    InitialSaves,   \* a save at each path, or None
    KeysGiven,      \* what the user gives as password and keyfile
    KeysTried,      \* the keys that programs open files with
    Secrets,        \* what the user types as HMAC secret
    SaveKeys,       \* the keys that a program saves with
    Devices,        \* the YubiKeys there are
    MaxRuns         \* bound: how many tools are run, the last of them only reads

VARIABLES
    disk,       \* the cells of the file at each path, or None
    tool,       \* the tool that runs, and its arguments
    todo,       \* what its main function does next
    new,        \* the save it makes
    done,       \* how many cells of that are written
    old,        \* what was in the output file before
    runs,       \* tools run so far
    may, sure   \* for the properties: see FileStore

toolVars == <<disk, tool, todo, new, done, old, runs, may, sure>>
vars == <<readerVars, kdbVars, toolVars>>

NoSave == Missing
NoTool == [name |-> "none"]

----------------------------------------------------------------------------
(* What the main functions do in turn.  `find` looks for a YubiKey and     *)
(* `secret` asks for one; `change` is what a program does to the database  *)
(* and the key between open and save.                                      *)

PurgeHistory == <<"key", "read", "purge", "overwrite", "save">>
Rewrite_CreateFirst == <<"key", "create", "read", "save">>
Rewrite == <<"key", "read", "create", "save">>
YkAdd == <<"key", "read", "find", "create", "save">>
YkRemove == <<"key", "find", "read", "create", "save">>
YkRecover == <<"key", "secret", "read", "create", "save">>
DumpXml == <<"key", "read xml", "create", "print">>
Program == <<"read", "change", "create", "save">>
Show == <<"read">>

Plan(name) ==
    CASE name = "purge-history" -> PurgeHistory
      [] name = "rewrite" -> Rewrite
      [] name = "yk-add" -> YkAdd
      [] name = "yk-remove" -> YkRemove
      [] name = "yk-recover" -> YkRecover
      [] name = "dump-xml" -> DumpXml
      [] name = "program" -> Program
      [] name = "show" -> Show

Writers == {"purge-history", "rewrite", "yk-add", "yk-remove", "yk-recover", "dump-xml", "program"}

Idle == todo = <<>>
Does(step) == todo # <<>> /\ todo[1] = step
Goes == todo' = Tail(todo)

\* The `?` of a main function, or its end
Ends ==
    /\ todo' = <<>> /\ tool' = NoTool /\ new' = NoSave /\ done' = 0 /\ old' = <<>>

\* Only a challenge makes a program look for devices.
Look(key) == devices' \in (IF key.challenge = Missing THEN {{}} ELSE SUBSET Devices)
NotLooked == <<blockVars, op, dbKey, containerVars>>

----------------------------------------------------------------------------
Start ==
    /\ Idle /\ runs < MaxRuns /\ runs' = runs + 1
    /\ \E name \in Writers \cup {"show"}, from \in Paths, to \in Paths, key \in KeysGiven \cup KeysTried :
         /\ name \in {"purge-history", "show"} => from = to
         /\ name # "show" => runs' < MaxRuns /\ key \in KeysGiven
         /\ tool' = [name |-> name, from |-> from, to |-> to, given |-> key,
                     readKey |-> key, saveKey |-> key, db |-> NoSave]
         /\ todo' = Plan(name)
    /\ UNCHANGED <<readerVars, disk, new, done, old, may, sure>>

\* "No database key was provided."
KeyGiven ==
    /\ Does("key")
    /\ IF IsEmpty(tool.given) THEN Ends ELSE Goes /\ UNCHANGED <<tool, new, done, old>>
    /\ UNCHANGED <<readerVars, disk, runs, may, sure>>

\* get_yubikey: yk-add needs it for saving, yk-remove for reading.
FindYubikey ==
    /\ Does("find") /\ devices' \in SUBSET Devices
    /\ \E serial \in {Missing} \cup {Some(d) : d \in Devices} :
         LET found == FoundYubikeys(serial, devices')
         IN IF found = {} THEN Ends
            ELSE \E d \in found, slot \in {"1", "2"} :
                   LET key == WithChallenge(tool.given, <<"device", d, slot>>)
                   IN /\ tool' = IF tool.name = "yk-add" THEN [tool EXCEPT !.saveKey = key]
                                 ELSE [tool EXCEPT !.readKey = key]
                      /\ Goes /\ UNCHANGED <<new, done, old>>
    /\ UNCHANGED <<NotLooked, disk, runs, may, sure>>

AskSecret ==
    /\ Does("secret")
    /\ \E secret \in Secrets :
         tool' = [tool EXCEPT !.readKey = WithChallenge(tool.given, <<"local", secret>>)]
    /\ Goes
    /\ UNCHANGED <<readerVars, disk, new, done, old, runs, may, sure>>

\* Database::open and get_xml take the whole file first.
ReadFile ==
    /\ Does("read") \/ Does("read xml")
    /\ pc = "idle"
    /\ IF disk[tool.from] = None THEN Ends /\ UNCHANGED readerVars
       ELSE /\ Call(IF Does("read") THEN "open" ELSE "get_xml", disk[tool.from], tool.readKey)
            /\ Look(tool.readKey)
            /\ UNCHANGED <<written, todo, tool, new, done, old>>
    /\ UNCHANGED <<disk, runs, may, sure>>

Reading == ContainerStep /\ UNCHANGED toolVars

\* The call has returned.
Read ==
    /\ Does("read") \/ Does("read xml")
    /\ pc = "done" /\ Return /\ devices' = {}
    /\ IF result.kind \in {"error", "panic"} THEN Ends
       ELSE tool' = [tool EXCEPT !.db = Some(result)] /\ Goes /\ UNCHANGED <<new, done, old>>
    /\ UNCHANGED <<written, disk, runs, may, sure>>

\* foreach_entry_mut(|entry| entry.history = None)
Purge ==
    /\ Does("purge")
    /\ tool' = [tool EXCEPT !.db[1].db.history = FALSE]
    /\ Goes
    /\ UNCHANGED <<readerVars, disk, new, done, old, runs, may, sure>>

Change ==
    /\ Does("change")
    /\ \E key \in SaveKeys : tool' = [tool EXCEPT !.db[1].db.of = "changed", !.saveKey = key]
    /\ Goes
    /\ UNCHANGED <<readerVars, disk, new, done, old, runs, may, sure>>

\* File::create empties the file; File::options().write(true) does not.
Create ==
    /\ Does("create")
    /\ disk' = [disk EXCEPT ![tool.to] = <<>>]
    /\ may' = [may EXCEPT ![tool.to] = {}] /\ sure' = sure \ {tool.to}
    /\ old' = <<>>
    /\ Goes
    /\ UNCHANGED <<readerVars, tool, new, done, runs>>

Overwrite ==
    /\ Does("overwrite")
    /\ old' = disk[tool.to]
    /\ Goes
    /\ UNCHANGED <<readerVars, disk, tool, new, done, runs, may, sure>>

----------------------------------------------------------------------------
(* Database::save.  The random numbers of a save are those of its run.     *)

SaveOf(r) ==
    [n |-> runs, format |-> r.version[2], minor |-> r.version[3], outer |-> r.outer,
     compression |-> r.compression, inner |-> r.inner, kdf |-> r.kdf, key |-> tool.saveKey,
     db |-> r.db, attachments |-> r.attachments, public |-> r.public, blocks |-> 0,
     layout |-> OwnLayout(r)]

BeginSave ==
    /\ Does("save") /\ new = NoSave /\ Look(tool.saveKey)
    /\ LET s == SaveOf(tool.db[1])
       IN IF RefusedAtOnce(s, devices') # "none" THEN Ends /\ UNCHANGED <<may, sure>>
          ELSE /\ new' = Some(s)
               /\ may' = [may EXCEPT ![tool.to] = @ \cup {s}] /\ sure' = sure \ {tool.to}
               /\ UNCHANGED <<todo, tool, done, old>>
    /\ UNCHANGED <<NotLooked, disk, runs>>

\* All that gets written
Output(s) == IF RefusedLater(s) = "none" THEN Kdbx4File(s) ELSE HeaderPart(s)

\* The first k cells of f over those of g: the rest of g need not begin where a
\* cell does.
Overwritten(f, g, k) ==
    LET rest == SubSeq(g, k + 1, Len(g))
    IN {SubSeq(f, 1, k) \o rest}
       \cup (IF k = Len(f) /\ rest = <<>> THEN {}
             ELSE {SubSeq(f, 1, k) \o <<Torn>> \o SubSeq(rest, 2, Len(rest))})

WriteCell ==
    /\ Does("save") /\ new # NoSave /\ done < Len(Output(new[1]))
    /\ done' = done + 1
    /\ \E f \in Overwritten(Output(new[1]), old, done + 1) : disk' = [disk EXCEPT ![tool.to] = f]
    /\ UNCHANGED <<readerVars, todo, tool, new, old, runs, may, sure>>

EndSave ==
    /\ Does("save") /\ new # NoSave /\ done = Len(Output(new[1]))
    /\ IF RefusedLater(new[1]) = "none"
         THEN /\ may' = [may EXCEPT ![tool.to] = {new[1]}]
              /\ sure' = sure \cup {tool.to}
         ELSE UNCHANGED <<may, sure>>
    /\ Ends
    /\ UNCHANGED <<readerVars, disk, runs>>

\* write_all of kp-dump-xml
PrintXml ==
    /\ Does("print")
    /\ disk' = [disk EXCEPT ![tool.to] = tool.db[1].cells]
    /\ Ends
    /\ UNCHANGED <<readerVars, runs, may, sure>>

----------------------------------------------------------------------------
\* The process is killed.
Crash ==
    /\ ~Idle /\ Ends /\ Return /\ devices' = {}
    /\ UNCHANGED <<written, disk, runs, may, sure>>

Step ==
    \/ KeyGiven \/ FindYubikey \/ AskSecret \/ ReadFile \/ Reading \/ Read \/ Purge \/ Change
    \/ Create \/ Overwrite \/ BeginSave \/ WriteCell \/ EndSave \/ PrintXml

Init ==
    /\ \E at \in InitialSaves :
         /\ disk = [p \in Paths |-> IF at[p] = None THEN None ELSE FileOf(at[p])]
         /\ may = [p \in Paths |-> IF at[p] = None THEN {} ELSE {at[p]}]
         /\ sure = {p \in Paths : at[p] # None}
    /\ tool = NoTool /\ todo = <<>> /\ new = NoSave /\ done = 0 /\ old = <<>> /\ runs = 0
    /\ pc = "idle" /\ op = "none" /\ data = <<>> /\ dbKey = NoKey
    /\ pos = 1 /\ index = 0 /\ out = <<>> /\ result = NoResult /\ hmacKey = <<>> /\ written = <<>>
    /\ devices = {}
    /\ header = NoHeader /\ masterKey = <<>> /\ payload = <<>> /\ inner = NoInner
    /\ KdbIdle

Next == (Start \/ Step \/ Crash) /\ UNCHANGED kdbVars

Spec == Init /\ [][Next]_vars

----------------------------------------------------------------------------
(* Properties.                                                             *)

Asking == op = "open" /\ pc # "idle"

Store == INSTANCE FileStore WITH
    Content <- Contents,
    Fits <- LAMBDA key, s : Opens(key, s, Devices),
    Always <- LAMBDA key, s : Opens(key, s, {}),
    asked <- IF Asking THEN <<tool.from, dbKey>> ELSE None,
    answer <- IF ~Asking \/ pc # "done" THEN None
              ELSE IF result.kind = "opened" THEN result ELSE [kind |-> "error"]

\* What open returns keeps what FileStore promises, over all the tools may do
\* one after the other: a file written to the end opens whatever was in it
\* before and was longer (kp-purge-history writes over it), with the password
\* and the secret of the YubiKey that kp-yk-add put on it; one that was not
\* opens to nothing that was never saved to it.  And nothing opens with another
\* key than the one it was saved with.
StoreKept == Store!Spec

\* No file is touched before the database was opened: with the same file as
\* input and output, File::create comes after Database::open.
OpenedFirst == [][disk' # disk => tool.db # NoSave]_vars
=============================================================================
