------------------------------- MODULE KeyValue -------------------------------
(***************************************************************************)
(* The tablet of one storage server: the operations of key_value.cc, the   *)
(* command interpreter process_command that logs and runs them, and the    *)
(* replay of the log (logging.cc).                                         *)
(*                                                                         *)
(* A thread runs one command at a time: a write is written to the log      *)
(* file, counted in the sequence number file, executed and answered, with  *)
(* no lock over the three steps.                                           *)
(*                                                                         *)
(* Abstractions.  The columns of a row are two maps, since a mail's key is *)
(* a number and a path begins with "/".  A path is the sequence of the     *)
(* names below "/r00t"; of the texts only "begins with" is kept, as the    *)
(* relations NamePrefix and PasswordPrefix.  A file is its length.         *)
(* num_files is only printed.  malloc succeeds.  Two threads that          *)
(* serialize into ofs at the same time do not garble it.                   *)
(***************************************************************************)
EXTENDS Integers, Sequences, FiniteSets, SequencesExt

CONSTANTS
  Threads,           \* the threads that call process_command
  Users,             \* usernames
  Passwords,
  PasswordPrefix,    \* <<p, q>>: text q begins with text p
  Bodies,            \* mail bodies, with their headers
  FolderNames,       \* the names clients use for folders
  FileNames,         \* the names clients use for files
  NamePrefix,        \* <<m, n>>: name n begins with name m
  MAX_TABLET_USERS,
  CHUNK_SIZE,
  Scenarios,         \* what clients, storage and build there may be
  Sends,             \* Sends[x][t]: the requests that thread t gets in scenario x
  Undefined,         \* Undefined[x]: undefined behaviours that show: see delete_folder, Erased
  MaxLog,            \* MaxLog[x]: bound on the entries of the log file
  MaxDepth,          \* bound: names in a path
  MaxMailId          \* bound: mail numbers in requests

Names == FolderNames \union FileNames

WriteOps == {"add", "delete", "changepw", "putmail", "delmail", "putfile", "delfile",
             "mkfolder", "delfolder"}
ReadOps  == {"auth", "getmail", "mailbody", "getfile", "getfolder", "unknown"}

VARIABLES
  tablet,           \* the map of the users' rows
  log,              \* the entries of the log file
  log_sequence_no,  \* the number in the sequence number file
  pc,               \* pc[t]: where thread t is in process_command
  cmd,              \* cmd[t]: the write command it runs
  answer,           \* answer[t]: what its client was last told
  alive,            \* FALSE once the process has died
  scenario          \* never changes

vars == <<tablet, log, log_sequence_no, pc, cmd, answer, alive, scenario>>

-----------------------------------------------------------------------------
(* The requests of data_types.h.                                           *)

Directories == BoundedSeq(FolderNames, MaxDepth - 1)

login_request == [op : {"add", "delete", "auth"}, user : Users, password : Passwords]
changepw_request ==
  [op : {"changepw"}, user : Users, password : Passwords, new_password : Passwords]
put_mail_request == [op : {"putmail"}, user : Users, body : Bodies]
get_mail_request == [op : {"getmail"}, user : Users]
mail_id_request(op) == [op : {op}, user : Users, email_id : 1 .. MaxMailId]
put_file_request ==
  [op : {"putfile"}, user : Users, dir : Directories, name : FileNames,
   chunk_len : 1 .. CHUNK_SIZE]
file_request(op) == [op : {op}, user : Users, dir : Directories, name : FileNames]
folder_request(op) == [op : {op}, user : Users, dir : Directories, name : FolderNames]

Requests ==
  UNION {login_request, changepw_request, put_mail_request, get_mail_request,
         mail_id_request("mailbody"), mail_id_request("delmail"), put_file_request,
         file_request("getfile"), file_request("delfile"), folder_request("mkfolder"),
         folder_request("getfolder"), folder_request("delfolder"),
         [op : {"unknown"}, user : Users]}

ASSUME KeyValueAssumption ==
  /\ IsFiniteSet(Users)
  /\ \A n \in Names : <<n, n>> \in NamePrefix
  /\ \A p \in Passwords : <<p, p>> \in PasswordPrefix
  /\ {MAX_TABLET_USERS, CHUNK_SIZE, MaxDepth, MaxMailId} \subseteq Nat
  /\ Sends \in [Scenarios -> [Threads -> SUBSET Requests]]
  /\ Undefined \in [Scenarios -> SUBSET {"iterator", "entry"}]
  /\ MaxLog \in [Scenarios -> Nat]

-----------------------------------------------------------------------------
(* The tablet.                                                             *)

fd_entry == [type : {"FILE_TYPE", "DIRECTORY_TYPE"}, name : Names]

\* The content of a DRIVE column: entry = NULL (here dir = FALSE) marks a file.
file_content == [dir : BOOLEAN, file_len : Nat, entry : Seq(fd_entry)]

EmptyFolder == [dir |-> TRUE, file_len |-> 0, entry |-> <<>>]

IsMap(f, K, V) == DOMAIN f \subseteq K /\ \A k \in DOMAIN f : f[k] \in V

IsTabletRow(row) ==
  /\ row.password \in Passwords /\ row.num_emails \in Nat
  /\ IsMap(row.mails, Nat \ {0}, Bodies)
  /\ IsMap(row.drive, Seq(Names), file_content)

\* "/r00t" and the column of a name in a directory.
Root == <<>>
FullPath(c) == Append(c.dir, c.name)

\* strncmp(text, prefix, strlen(prefix)) == 0 on two column names.
BeginsWith(path, prefix) ==
  /\ Len(prefix) <= Len(path)
  /\ \A i \in 1 .. Len(prefix) :
       IF i < Len(prefix) THEN path[i] = prefix[i] ELSE <<prefix[i], path[i]>> \in NamePrefix

\* std::map operations: insert leaves an existing key alone.
Insert(f, k, v) == [x \in DOMAIN f \union {k} |-> IF x \in DOMAIN f THEN f[x] ELSE v]
Erase(f, K) == [x \in DOMAIN f \ K |-> f[x]]

\* The outcome of an operation on a row: the row after it and what it returns.
Returns(row, res) == {[row |-> row, res |-> res]}

-----------------------------------------------------------------------------
(* Users.                                                                  *)

\* With add_root_folder: a new user has the folder "/r00t".
add_user(T, c) ==
  IF Cardinality(DOMAIN T) = MAX_TABLET_USERS
    THEN {[tablet |-> T, res |-> "ERR_EXCEEDED_MAX_TABLET_USER_LIMIT"]}
  ELSE IF c.user \in DOMAIN T
    THEN {[tablet |-> T, res |-> "ERR_USER_ALREADY_EXISTS"]}
  ELSE {[tablet |-> Insert(T, c.user, [password |-> c.password, num_emails |-> 0,
                                       mails |-> <<>>, drive |-> [p \in {Root} |-> EmptyFolder]]),
         res |-> "SUCCESS"]}

\* The password is not looked at.
delete_user(T, user) ==
  IF user \notin DOMAIN T
    THEN {[tablet |-> T, res |-> "ERR_USER_DOESNT_EXIST"]}
    ELSE {[tablet |-> Erase(T, {user}), res |-> "SUCCESS"]}

\* strncmp over the length of the stored password.
PasswordFits(row, c) == <<row.password, c.password>> \in PasswordPrefix

auth_user(row, c) ==
  Returns(row, IF PasswordFits(row, c) THEN "SUCCESS" ELSE "ERR_WRONG_PASSWORD")

change_password(row, c) ==
  IF PasswordFits(row, c)
    THEN Returns([row EXCEPT !.password = c.new_password], "SUCCESS")
    ELSE Returns(row, "ERR_WRONG_PASSWORD")

-----------------------------------------------------------------------------
(* Mails.                                                                  *)

\* Mutant: the new mail replaces one that has its number.
store_email_replacing(row, c) ==
  LET email_id == row.num_emails + 1
  IN Returns([row EXCEPT !.num_emails = email_id,
                         !.mails = Insert(Erase(@, {email_id}), email_id, c.body)], "SUCCESS")

\* The number of a mail is the number of mails, this one included; insert
\* has no effect when a column of that number is there.
store_email(row, c) ==
  LET email_id == row.num_emails + 1
  IN Returns([row EXCEPT !.num_emails = email_id, !.mails = Insert(@, email_id, c.body)],
             "SUCCESS")

\* What the response of a listing says: the counter and the headers found.
get_email_list(row) ==
  [num_emails |-> row.num_emails,
   headers |-> IF row.num_emails = 0 THEN {} ELSE DOMAIN row.mails]

get_mail_body(row, c) ==
  Returns(row, IF c.email_id \in DOMAIN row.mails THEN "SUCCESS" ELSE "ERR_INVALID_EMAILID")

\* Mutant: the counter is decremented for a mail that does not exist too.
delete_mail_always_counts(row, c) ==
  Returns([row EXCEPT !.num_emails = IF @ = 0 THEN 0 ELSE @ - 1,
                      !.mails = Erase(@, {c.email_id})], "SUCCESS")

delete_mail(row, c) ==
  IF c.email_id \in DOMAIN row.mails
    THEN Returns([row EXCEPT !.num_emails = @ - 1, !.mails = Erase(@, {c.email_id})], "SUCCESS")
    ELSE Returns(row, "ERR_INVALID_EMAILID")

-----------------------------------------------------------------------------
(* Files and folders.  An operation with no outcome kills the process.     *)

\* The outcomes of a change of the drive, which has more than one result
\* where the code is undefined.
DriveReturns(row, Drives) == {[row |-> [row EXCEPT !.drive = d], res |-> "SUCCESS"] : d \in Drives}

\* push_back on the list of the parent, if that column exists; a parent
\* that is a file has no list.
AddToParent(drive, dir, entry) ==
  IF dir \notin DOMAIN drive THEN {drive}
  ELSE IF drive[dir].dir THEN {[drive EXCEPT ![dir].entry = Append(@, entry)]}
  ELSE {}

\* std::find with fd_entry's ==, which takes an entry whose name is a prefix
\* of the one looked for, then erase.  The name of a FILE_TYPE entry is
\* copied without its final 0 into an uninitialized array, so that it may
\* compare unequal ("entry"); erasing end() drops the last entry or crashes.
Erased(list, entry) ==
  LET Equal(e) == e.type = entry.type /\ <<e.name, entry.name>> \in NamePrefix
      hits == {i \in 1 .. Len(list) : Equal(list[i])}
      First(S) == CHOOSE i \in S : \A j \in S : i <= j
      found == IF entry.type = "FILE_TYPE" /\ "entry" \in Undefined[scenario] THEN SUBSET hits ELSE {hits}
  IN {RemoveAt(list, First(S)) : S \in found \ {{}}}
       \union {Front(list) : S \in {S \in found : S = {} /\ list # <<>>}}

\* Mutant: the entry of the parent is kept.
RemoveFromParentKept(drive, dir, entry) == {drive}

RemoveFromParent(drive, dir, entry) ==
  IF dir \notin DOMAIN drive THEN {drive}
  ELSE IF drive[dir].dir
    THEN {[drive EXCEPT ![dir].entry = s] : s \in Erased(drive[dir].entry, entry)}
  ELSE {}

\* A further chunk of an existing file is appended; nothing tells a file
\* from a folder here.
store_file(row, c) ==
  LET path == FullPath(c)
      file == [dir |-> FALSE, file_len |-> c.chunk_len, entry |-> <<>>]
  IN IF path \in DOMAIN row.drive
       THEN Returns([row EXCEPT !.drive[path].file_len = @ + c.chunk_len], "SUCCESS")
       ELSE DriveReturns(row, AddToParent(Insert(row.drive, path, file), c.dir,
                                          [type |-> "FILE_TYPE", name |-> c.name]))

\* Whether the column exists; the chunks are sent by module FileTransfer.
get_file_data(row, c) ==
  Returns(row, IF FullPath(c) \in DOMAIN row.drive THEN "SUCCESS" ELSE "ERR_FILE_DOESNT_EXIST")

delete_file(row, c) ==
  IF FullPath(c) \notin DOMAIN row.drive
    THEN Returns(row, "ERR_FILE_DOESNT_EXIST")
    ELSE DriveReturns(row, RemoveFromParent(Erase(row.drive, {FullPath(c)}), c.dir,
                                            [type |-> "FILE_TYPE", name |-> c.name]))

create_folder(row, c) ==
  IF FullPath(c) \in DOMAIN row.drive
    THEN Returns(row, "ERR_FILE_ALREADY_EXISTS")
    ELSE DriveReturns(row, AddToParent(Insert(row.drive, FullPath(c), EmptyFolder), c.dir,
                                       [type |-> "DIRECTORY_TYPE", name |-> c.name]))

\* A file has no list to go through.
get_folder_content(row, c) ==
  IF FullPath(c) \notin DOMAIN row.drive
    THEN Returns(row, "ERR_FILE_DOESNT_EXIST")
    ELSE {o \in Returns(row, "SUCCESS") : row.drive[FullPath(c)].dir}

\* Every column whose name begins with the folder's path is erased.  The
\* loop advances an iterator it has erased ("iterator"): it may miss some.
delete_folder(row, c) ==
  LET hits == {p \in DOMAIN row.drive : BeginsWith(p, FullPath(c))}
      erased == IF "iterator" \in Undefined[scenario] THEN SUBSET hits \ {{}} ELSE {hits}
  IN IF FullPath(c) \notin DOMAIN row.drive
       THEN Returns(row, "ERR_FILE_DOESNT_EXIST")
       ELSE DriveReturns(row, UNION {RemoveFromParent(Erase(row.drive, D), c.dir,
                                       [type |-> "DIRECTORY_TYPE", name |-> c.name]) : D \in erased})

-----------------------------------------------------------------------------
(* process_command: one branch per command.  An outcome is the tablet      *)
(* after it, the result and the result the client is told, if any.         *)

\* What a command does to its user's row.
RowOperation(row, c) ==
  CASE c.op = "changepw" -> change_password(row, c)
    [] c.op = "auth" -> auth_user(row, c)
    [] c.op = "putmail" -> store_email(row, c)
    [] c.op = "getmail" -> Returns(row, "SUCCESS")
    [] c.op = "mailbody" -> get_mail_body(row, c)
    [] c.op = "delmail" -> delete_mail(row, c)
    [] c.op = "putfile" -> store_file(row, c)
    [] c.op = "getfile" -> get_file_data(row, c)
    [] c.op = "delfile" -> delete_file(row, c)
    [] c.op = "getfolder" -> get_folder_content(row, c)
    [] c.op = "mkfolder" -> create_folder(row, c)
    [] c.op = "delfolder" -> delete_folder(row, c)

\* Every operation looks for its user first.
OnRow(T, c) ==
  IF c.user \in DOMAIN T
    THEN {[tablet |-> [T EXCEPT ![c.user] = o.row], res |-> o.res] : o \in RowOperation(T[c.user], c)}
    ELSE {[tablet |-> T, res |-> "ERR_USER_DOESNT_EXIST"]}

\* A result the branch has no text for is answered with no byte at all.
Answering(outcomes, texts) ==
  {[tablet |-> o.tablet, res |-> o.res, answer |-> IF o.res \in texts THEN o.res ELSE "nothing"] :
     o \in outcomes}

\* store_file and change_password return bool: every error becomes 1.
AsBool(outcomes) ==
  {[o EXCEPT !.res = IF @ = "SUCCESS" THEN @ ELSE "ERR_EXCEEDED_MAX_TABLET_USER_LIMIT"] :
     o \in outcomes}

UserCommand(T, c) ==
  CASE c.op = "add" ->
         Answering(add_user(T, c),
           {"SUCCESS", "ERR_EXCEEDED_MAX_TABLET_USER_LIMIT", "ERR_USER_ALREADY_EXISTS"})
    [] c.op = "delete" ->
         Answering(delete_user(T, c.user), {"SUCCESS", "ERR_USER_DOESNT_EXIST"})
    [] c.op = "changepw" ->
         Answering(AsBool(OnRow(T, c)),
           {"SUCCESS", "ERR_USER_DOESNT_EXIST", "ERR_INCORRECT_OLD_PASSWORD"})
    [] c.op = "auth" ->
         Answering(OnRow(T, c),
           {"SUCCESS", "ERR_USER_DOESNT_EXIST", "ERR_WRONG_PASSWORD"})

\* "mailbody" is answered with a response structure whatever the result.
MailCommand(T, c) ==
  CASE c.op = "putmail" ->
         Answering(OnRow(T, c), {"SUCCESS", "ERR_USER_DOESNT_EXIST"})
    [] c.op = "getmail" ->
         Answering(OnRow(T, c),
           {"SUCCESS", "ERR_USER_DOESNT_EXIST"})
    [] c.op = "mailbody" ->
         Answering(OnRow(T, c),
           {"SUCCESS", "ERR_USER_DOESNT_EXIST", "ERR_INVALID_EMAILID"})
    [] c.op = "delmail" ->
         Answering(OnRow(T, c),
           {"SUCCESS", "ERR_USER_DOESNT_EXIST", "ERR_INVALID_EMAILID"})

FileCommand(T, c) ==
  CASE c.op = "putfile" ->
         Answering(AsBool(OnRow(T, c)), {"SUCCESS", "ERR_USER_DOESNT_EXIST"})
    [] c.op = "getfile" ->
         Answering(OnRow(T, c),
           {"SUCCESS", "ERR_USER_DOESNT_EXIST", "ERR_FILE_DOESNT_EXIST"})
    [] c.op = "delfile" ->
         Answering(OnRow(T, c),
           {"SUCCESS", "ERR_USER_DOESNT_EXIST", "ERR_FILE_DOESNT_EXIST"})

FolderCommand(T, c) ==
  CASE c.op = "getfolder" ->
         Answering(OnRow(T, c),
           {"SUCCESS", "ERR_USER_DOESNT_EXIST", "ERR_FILE_DOESNT_EXIST"})
    [] c.op = "mkfolder" ->
         Answering(OnRow(T, c),
           {"SUCCESS", "ERR_USER_DOESNT_EXIST", "ERR_FILE_ALREADY_EXISTS"})
    [] c.op = "delfolder" ->
         Answering(OnRow(T, c),
           {"SUCCESS", "ERR_USER_DOESNT_EXIST", "ERR_FILE_DOESNT_EXIST"})

UnknownCommand(T) == {[tablet |-> T, res |-> "FAILURE", answer |-> "FAILURE"]}

Outcomes(T, c) ==
  CASE c.op \in {"add", "delete", "changepw", "auth"}         -> UserCommand(T, c)
    [] c.op \in {"putmail", "getmail", "mailbody", "delmail"} -> MailCommand(T, c)
    [] c.op \in {"putfile", "getfile", "delfile"}             -> FileCommand(T, c)
    [] c.op \in {"getfolder", "mkfolder", "delfolder"}        -> FolderCommand(T, c)
    [] c.op = "unknown"                                       -> UnknownCommand(T)

-----------------------------------------------------------------------------
(* replay_log.                                                             *)

\* Mutant: the password change is not replayed.
ReplayEntryNoPassword(T, c) ==
  IF c.op \in {"delete", "changepw"} THEN {T} ELSE {o.tablet : o \in Outcomes(T, c)}

\* A user deletion is parsed with strlen("add") and deletes the user "ete",
\* who is none of Users.  A DELETE_FILE entry is read into a pointer: the
\* archive may refuse it, which ends the process.
ReplayEntry(T, c) == IF c.op = "delete" THEN {T} ELSE {o.tablet : o \in Outcomes(T, c)}

\* The tablets that a replay of the entries can build.
replay_log(entries) ==
  LET after[n \in 0 .. Len(entries)] ==
        IF n = 0 THEN {<<>>} ELSE UNION {ReplayEntry(T, entries[n]) : T \in after[n - 1]}
  IN after[Len(entries)]

-----------------------------------------------------------------------------
(* The threads of a server.                                                *)

NoCommand == [op |-> "none"]

Init ==
  /\ tablet = <<>>
  /\ log = <<>>
  /\ log_sequence_no = 0
  /\ pc = [t \in Threads |-> "idle"]
  /\ cmd = [t \in Threads |-> NoCommand]
  /\ answer = [t \in Threads |-> "none"]
  /\ alive = TRUE
  /\ scenario \in Scenarios

\* add_log_entry, first part: the entry is serialized and flushed.
WriteEntry(t) ==
  /\ alive /\ pc[t] = "idle" /\ Len(log) < MaxLog[scenario]
  /\ \E c \in Sends[scenario][t] :
       /\ c.op \in WriteOps
       /\ log' = Append(log, c)
       /\ cmd' = [cmd EXCEPT ![t] = c]
  /\ pc' = [pc EXCEPT ![t] = "written"]
  /\ UNCHANGED <<tablet, log_sequence_no, answer, alive, scenario>>

\* add_log_entry, second part: the number is read, incremented, written
\* under log_file_mutx.
CountEntry(t) ==
  /\ alive /\ pc[t] = "written"
  /\ log_sequence_no' = log_sequence_no + 1
  /\ pc' = [pc EXCEPT ![t] = "counted"]
  /\ UNCHANGED <<tablet, log, cmd, answer, alive, scenario>>

\* The command changes the tablet and its client is answered.
Execute(t) ==
  /\ alive /\ pc[t] = "counted"
  /\ \E o \in Outcomes(tablet, cmd[t]) :
       /\ tablet' = o.tablet
       /\ answer' = [answer EXCEPT ![t] = o.answer]
  /\ pc' = [pc EXCEPT ![t] = "idle"]
  /\ cmd' = [cmd EXCEPT ![t] = NoCommand]
  /\ UNCHANGED <<log, log_sequence_no, alive, scenario>>

\* The command goes through a null pointer.
Die(t) ==
  /\ alive /\ pc[t] = "counted"
  /\ Outcomes(tablet, cmd[t]) = {}
  /\ alive' = FALSE
  /\ UNCHANGED <<tablet, log, log_sequence_no, pc, cmd, answer, scenario>>

\* A command that is not a write is answered at once.
Read(t) ==
  /\ alive /\ pc[t] = "idle"
  /\ \E c \in Sends[scenario][t] :
       /\ c.op \in ReadOps
       /\ LET o == Outcomes(tablet, c) IN
            /\ alive' = (o # {})
            /\ answer' = [answer EXCEPT ![t] = IF o = {} THEN @ ELSE (CHOOSE x \in o : TRUE).answer]
  /\ UNCHANGED <<tablet, log, log_sequence_no, pc, cmd, scenario>>

Next == \E t \in Threads : WriteEntry(t) \/ CountEntry(t) \/ Execute(t) \/ Die(t) \/ Read(t)

Spec == Init /\ [][Next]_vars

-----------------------------------------------------------------------------
(* Properties.                                                             *)

\* Type invariant: rows are well formed and the sequence number file never
\* counts more entries than the log file has (logging.cc).
TypeOK ==
  /\ DOMAIN tablet \subseteq Users
  /\ \A u \in DOMAIN tablet : IsTabletRow(tablet[u])
  /\ log_sequence_no \in 0 .. Len(log)
  /\ pc \in [Threads -> {"idle", "written", "counted"}]
  /\ alive \in BOOLEAN

\* The mail counter is never below the number of mails although a deletion
\* decrements it and a delivery may add no column: it does not wrap around
\* (unsigned long), and get_email_list, which returns at once when it is 0,
\* never hides a mail.
ListingComplete ==
  \A u \in DOMAIN tablet :
    LET list == get_email_list(tablet[u])
    IN /\ list.headers = DOMAIN tablet[u].mails
       /\ Cardinality(list.headers) <= list.num_emails

\* A mail number names the same mail for as long as it names one: a client
\* that has listed a box reads what it listed (get_mail_body), whatever was
\* delivered and deleted since.
MailKept ==
  [][\A u \in DOMAIN tablet \intersect DOMAIN tablet' :
       \A id \in DOMAIN tablet[u].mails \intersect DOMAIN tablet'[u].mails :
         tablet'[u].mails[id] = tablet[u].mails[id]]_tablet

\* With no command under way, replaying the counted entries of the log file
\* can rebuild the tablet, although threads log and execute in different
\* orders (process_command holds no lock over add_log_entry and what
\* follows), as long as no user was deleted (see ReplayEntry).
ReplayAgrees ==
  (alive /\ \A t \in Threads : pc[t] = "idle")
    => LET counted == SubSeq(log, 1, log_sequence_no) IN
         (\A i \in DOMAIN counted : counted[i].op # "delete") => tablet \in replay_log(counted)

\* Whatever a folder lists exists, as a folder or as a file: the two halves
\* of each operation, on the column and on the parent's list, stay in step,
\* where what is undefined does what was meant.
ListedExists ==
  Undefined[scenario] = {} =>
    \A u \in DOMAIN tablet : LET drive == tablet[u].drive IN
      \A d \in DOMAIN drive : \A i \in 1 .. Len(drive[d].entry) :
        LET e == drive[d].entry[i] IN
          /\ Append(d, e.name) \in DOMAIN drive
          /\ drive[Append(d, e.name)].dir = (e.type = "DIRECTORY_TYPE")

-----------------------------------------------------------------------------
(* Not among the runs: what the source says of the program and the code    *)
(* does not keep; README.md, "Departures", has the setting for each.       *)

\* A mail that is acknowledged with "+OK email stored" has its own column.
StoredMeansThere ==
  [][\A t \in Threads :
       (cmd[t].op = "putmail" /\ pc'[t] = "idle" /\ pc[t] = "counted" /\ answer'[t] = "SUCCESS")
         => LET u == cmd[t].user IN
              Cardinality(DOMAIN tablet'[u].mails) = Cardinality(DOMAIN tablet[u].mails) + 1]_vars

\* Deleting a folder erases its column and the ones below it, and no other.
OnlyThatFolder ==
  [][\A t \in Threads :
       (cmd[t].op = "delfolder" /\ pc'[t] = "idle" /\ pc[t] = "counted" /\ answer'[t] = "SUCCESS")
         => LET u == cmd[t].user IN
              DOMAIN tablet'[u].drive = {p \in DOMAIN tablet[u].drive : ~IsPrefix(FullPath(cmd[t]), p)}]_vars

\* Every command is answered with some text, whatever its result: the front end
\* waits for one (key_value.cc:1161 "-ERR old password is incorrect").
AlwaysAnswered ==
  \A t \in Threads : answer[t] # "nothing"
=============================================================================
