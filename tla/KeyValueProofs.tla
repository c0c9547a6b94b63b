--------------------------- MODULE KeyValueProofs ---------------------------
(***************************************************************************)
(* What every command does to a row of the tablet, and the invariants that *)
(* follow: types, the count of the mails, the listings of the folders.     *)
(*                                                                         *)
(* Types depend on the count: num_emails stays a natural because it is     *)
(* decremented only for a mail that exists and never falls below the       *)
(* number of mails (RowCounted).                                           *)
(*                                                                         *)
(* That a folder lists only what exists is not inductive: deleting takes   *)
(* one entry from the parent's list, so an entry may not be there twice    *)
(* (ListedOnce), and it must be of the type that the command deletes       *)
(* (Columns).  It holds where names are plain (PlainNames): no name begins *)
(* with another, and files and folders have different names.               *)
(*                                                                         *)
(* That a replay of the log rebuilds the tablet: there is always a run of  *)
(* the replay that leaves out the entries of threads still at work (Run).  *)
(* A thread that then executes its command, after other threads' later     *)
(* entries perhaps, changes one row of the tablet and depends on no other  *)
(* (WriteIsLocal), so the same run with its entry in it, and with that row *)
(* from there on, is a run of the replay.  It holds where threads write    *)
(* the rows of different users (OwnUsers) and all users fit the tablet     *)
(* (EnoughRoom).                                                           *)
(***************************************************************************)
EXTENDS KeyValue, TLAPS, FiniteSetTheorems, SequenceTheorems, WellFoundedInduction

-----------------------------------------------------------------------------
(* Numbers, maps and sequences.                                            *)

(* A set of numbers that is not empty has a smallest one, which std::find  *)
(* returns (RemoveFromParent).                                             *)
LEMMA Smallest ==
  ASSUME NEW S \in SUBSET Nat, S # {}
  PROVE  \E i \in S : \A j \in S : i <= j
<1> DEFINE Below == {1 .. i : i \in S}
<1>1. PICK n \in S : TRUE
  OBVIOUS
<1>2. Below \subseteq FiniteSubsetsOf(Nat)
  <2> SUFFICES ASSUME NEW i \in S PROVE 1 .. i \in FiniteSubsetsOf(Nat)
    OBVIOUS
  <2> QED
    BY FS_Interval DEF FiniteSubsetsOf
<1>3. PICK B \in Below : \A C \in Below : ~(<<C, B>> \in StrictSubsetOrdering(Nat))
  <2>1. Below # {}
    BY <1>1
  <2> QED
    BY ONLY <1>2, <2>1, FS_StrictSubsetOrderingWellFounded, WFMin
<1>4. PICK i \in S : B = 1 .. i
  OBVIOUS
<1>5. ASSUME NEW j \in S, j < i PROVE FALSE
  <2>1. 1 .. j \subseteq 1 .. i /\ 1 .. j # 1 .. i
    <3>1. i \in 1 .. i /\ i \notin 1 .. j
      BY <1>5
    <3> QED
      BY <1>5, <3>1
  <2>2. <<1 .. j, 1 .. i>> \in StrictSubsetOrdering(Nat)
    BY <2>1 DEF StrictSubsetOrdering
  <2> QED
    BY <1>3, <1>4, <2>2
<1> QED
  BY <1>5

\* The maps from some of K to V.
Maps(K, V) == UNION {[D -> V] : D \in SUBSET K}

(* A map is a function, and its values are of the right kind.              *)
LEMMA MapFacts ==
  ASSUME NEW K, NEW V, NEW f \in Maps(K, V)
  PROVE  f \in [DOMAIN f -> V] /\ DOMAIN f \subseteq K
<1>1. PICK D \in SUBSET K : f \in [D -> V]
  BY DEF Maps
<1> QED
  BY <1>1

(* A function on some of K is a map.                                       *)
LEMMA IsAMap ==
  ASSUME NEW K, NEW V, NEW D \in SUBSET K, NEW f \in [D -> V]
  PROVE  f \in Maps(K, V) /\ DOMAIN f = D
BY DEF Maps

(* insert and erase of std::map keep the kind of a map, and the values     *)
(* that were there (Insert) or that are left (Erase).                      *)
LEMMA InsertFacts ==
  ASSUME NEW K, NEW V, NEW f \in Maps(K, V), NEW k \in K, NEW v \in V
  PROVE  /\ Insert(f, k, v) \in Maps(K, V)
         /\ \A x : x \in DOMAIN Insert(f, k, v) <=> x \in DOMAIN f \/ x = k
         /\ \A x \in DOMAIN f : Insert(f, k, v)[x] = f[x]
         /\ k \notin DOMAIN f => Insert(f, k, v)[k] = v
<1>1. f \in [DOMAIN f -> V] /\ DOMAIN f \subseteq K
  BY MapFacts
<1>2. Insert(f, k, v) \in [DOMAIN f \union {k} -> V]
  BY <1>1 DEF Insert
<1>3. DOMAIN f \union {k} \in SUBSET K
  BY <1>1
<1>4. Insert(f, k, v) \in Maps(K, V)
  BY <1>2, <1>3, IsAMap
<1> QED
  BY <1>1, <1>2, <1>4 DEF Insert

(* erase keeps the kind of a map and the values that are left.             *)
LEMMA EraseFacts ==
  ASSUME NEW K, NEW V, NEW f \in Maps(K, V), NEW S
  PROVE  /\ Erase(f, S) \in Maps(K, V)
         /\ \A x : x \in DOMAIN Erase(f, S) <=> x \in DOMAIN f /\ x \notin S
         /\ \A x \in DOMAIN Erase(f, S) : Erase(f, S)[x] = f[x]
<1>1. f \in [DOMAIN f -> V] /\ DOMAIN f \subseteq K
  BY MapFacts
<1>2. Erase(f, S) \in [DOMAIN f \ S -> V]
  BY <1>1 DEF Erase
<1>3. DOMAIN f \ S \in SUBSET K
  BY <1>1
<1>4. Erase(f, S) \in Maps(K, V)
  BY <1>2, <1>3, IsAMap
<1> QED
  BY <1>1, <1>2, <1>4 DEF Erase

(* The column of a name in a folder is one longer than the folder's, and   *)
(* determines both.                                                        *)
LEMMA PathFacts ==
  ASSUME NEW d \in Seq(Names), NEW n \in Names
  PROVE  /\ Append(d, n) \in Seq(Names)
         /\ Len(Append(d, n)) = Len(d) + 1
         /\ Append(d, n)[Len(d) + 1] = n
         /\ \A i \in 1 .. Len(d) : Append(d, n)[i] = d[i]
         /\ Append(d, n) # d
         /\ Append(d, n) # Root
         /\ \A e \in Seq(Names) : \A m \in Names : Append(e, m) = Append(d, n) => e = d /\ m = n
<1>1. /\ Append(d, n) \in Seq(Names)
      /\ Len(Append(d, n)) = Len(d) + 1
      /\ Append(d, n)[Len(d) + 1] = n
      /\ \A i \in 1 .. Len(d) : Append(d, n)[i] = d[i]
  OBVIOUS
<1>2. Append(d, n) # d /\ Append(d, n) # Root
  BY <1>1 DEF Root
<1>3. ASSUME NEW e \in Seq(Names), NEW m \in Names, Append(e, m) = Append(d, n)
      PROVE  e = d /\ m = n
  <2>1. /\ Len(Append(e, m)) = Len(e) + 1 /\ Append(e, m)[Len(e) + 1] = m
        /\ \A i \in 1 .. Len(e) : Append(e, m)[i] = e[i]
    OBVIOUS
  <2>2. Len(e) = Len(d) /\ m = n
    BY <1>1, <1>3, <2>1
  <2>3. \A i \in 1 .. Len(d) : e[i] = d[i]
    BY <1>1, <1>3, <2>1, <2>2
  <2> QED
    BY <2>2, <2>3, SeqEqual
<1> QED
  BY <1>1, <1>2, <1>3

-----------------------------------------------------------------------------
(* Requests and rows.                                                      *)

(* The directories that requests name are sequences of folder names.       *)
LEMMA DirectoryFacts ==
  ASSUME NEW d \in Directories
  PROVE  d \in Seq(FolderNames) /\ d \in Seq(Names)
<1>1. PICK m \in 0 .. (MaxDepth - 1) : d \in [1 .. m -> FolderNames]
  BY DEF Directories, BoundedSeq, SeqOf
<1>2. MaxDepth \in Nat
  BY KeyValueAssumption DEF KeyValueAssumption
<1>3. m \in Nat
  BY <1>1, <1>2
<1>4. d \in [1 .. m -> Names]
  BY <1>1 DEF Names
<1> QED
  BY <1>1, <1>3, <1>4

(* Every request has the fields its command reads (data_types.h).          *)
LEMMA RequestFacts ==
  ASSUME NEW c \in Requests
  PROVE  /\ c.user \in Users
         /\ c.op \in WriteOps \union ReadOps
         /\ c.op = "add" => c.password \in Passwords
         /\ c.op = "changepw" => c.new_password \in Passwords
         /\ c.op = "putmail" => c.body \in Bodies
         /\ c.op \in {"putfile", "getfile", "delfile"} =>
              c.dir \in Directories /\ c.name \in FileNames
         /\ c.op = "putfile" => c.chunk_len \in Nat
         /\ c.op \in {"mkfolder", "getfolder", "delfolder"} =>
              c.dir \in Directories /\ c.name \in FolderNames
<1>1. \/ c \in login_request \/ c \in changepw_request \/ c \in put_mail_request
      \/ c \in get_mail_request \/ c \in mail_id_request("mailbody")
      \/ c \in mail_id_request("delmail") \/ c \in put_file_request
      \/ c \in file_request("getfile") \/ c \in file_request("delfile")
      \/ c \in folder_request("mkfolder") \/ c \in folder_request("getfolder")
      \/ c \in folder_request("delfolder") \/ c \in [op : {"unknown"}, user : Users]
  BY DEF Requests
<1>2. CHUNK_SIZE \in Nat
  BY KeyValueAssumption DEF KeyValueAssumption
<1>3. CASE c \in login_request
  BY <1>3 DEF login_request, WriteOps, ReadOps
<1>4. CASE c \in changepw_request
  BY <1>4 DEF changepw_request, WriteOps, ReadOps
<1>5. CASE c \in put_mail_request
  BY <1>5 DEF put_mail_request, WriteOps, ReadOps
<1>6. CASE c \in get_mail_request
  BY <1>6 DEF get_mail_request, WriteOps, ReadOps
<1>7. CASE c \in mail_id_request("mailbody") \/ c \in mail_id_request("delmail")
  BY <1>7 DEF mail_id_request, WriteOps, ReadOps
<1>8. CASE c \in put_file_request
  BY <1>2, <1>8 DEF put_file_request, WriteOps, ReadOps
<1>9. CASE c \in file_request("getfile") \/ c \in file_request("delfile")
  BY <1>9 DEF file_request, WriteOps, ReadOps
<1>10. CASE \/ c \in folder_request("mkfolder") \/ c \in folder_request("getfolder")
            \/ c \in folder_request("delfolder")
  BY <1>10 DEF folder_request, WriteOps, ReadOps
<1>11. CASE c \in [op : {"unknown"}, user : Users]
  BY <1>11 DEF WriteOps, ReadOps
<1> QED
  BY <1>1, <1>3, <1>4, <1>5, <1>6, <1>7, <1>8, <1>9, <1>10, <1>11

MailIds == Nat \ {0}
Paths == Seq(Names)
Mails == Maps(MailIds, Bodies)
Drives == Maps(Paths, file_content)
Rows == [password : Passwords, num_emails : Nat, mails : Mails, drive : Drives]

\* The counter covers the mails.
RowCounted(row) ==
  /\ IsFiniteSet(DOMAIN row.mails)
  /\ Cardinality(DOMAIN row.mails) <= row.num_emails

\* No mail is replaced by another.
MailsKept(row, new) ==
  \A id \in DOMAIN row.mails \intersect DOMAIN new.mails : new.mails[id] = row.mails[id]

-----------------------------------------------------------------------------
(* Mails.                                                                  *)

(* store_email and delete_mail keep a row well formed, its counter above   *)
(* its mails and its mails as they were, and do not touch the drive.       *)
LEMMA MailOperations ==
  ASSUME NEW row \in Rows, RowCounted(row), NEW c \in Requests, NEW o,
         \/ c.op = "putmail" /\ o \in store_email(row, c)
         \/ c.op = "delmail" /\ o \in delete_mail(row, c)
  PROVE  o.row \in Rows /\ RowCounted(o.row) /\ MailsKept(row, o.row) /\ o.row.drive = row.drive
<1>0. /\ row.num_emails \in Nat /\ row.mails \in Mails /\ row.drive \in Drives
      /\ row.password \in Passwords /\ Cardinality(DOMAIN row.mails) \in Nat
      /\ DOMAIN row.mails \subseteq MailIds
  BY FS_CardinalityType, MapFacts DEF Rows, RowCounted, Mails
<1>1. CASE c.op = "putmail" /\ o \in store_email(row, c)
  <2> DEFINE id == row.num_emails + 1
             m == Insert(row.mails, id, c.body)
  <2>1. id \in Nat /\ id \in MailIds /\ c.body \in Bodies
    BY <1>0, <1>1, RequestFacts DEF MailIds
  <2>2. o.row = [row EXCEPT !.num_emails = id, !.mails = m]
    BY <1>1 DEF store_email, Returns
  <2> HIDE DEF id
  <2>3. /\ m \in Mails
        /\ \A x : x \in DOMAIN m <=> x \in DOMAIN row.mails \/ x = id
        /\ \A x \in DOMAIN row.mails : m[x] = row.mails[x]
    BY <1>0, <2>1, InsertFacts DEF Mails
  <2> HIDE DEF m
  <2>4. IsFiniteSet(DOMAIN m) /\ Cardinality(DOMAIN m) <= Cardinality(DOMAIN row.mails) + 1
    <3>1. /\ IsFiniteSet(DOMAIN row.mails \union {id})
          /\ \/ Cardinality(DOMAIN row.mails \union {id}) = Cardinality(DOMAIN row.mails)
             \/ Cardinality(DOMAIN row.mails \union {id}) = Cardinality(DOMAIN row.mails) + 1
      BY FS_AddElement DEF RowCounted
    <3>2. DOMAIN m = DOMAIN row.mails \union {id}
      BY <2>3
    <3> QED
      BY <1>0, <3>1, <3>2
  <2>5. o.row.num_emails = id /\ o.row.mails = m /\ o.row.drive = row.drive /\ o.row \in Rows
    BY <2>1, <2>2, <2>3 DEF Rows
  <2>6. Cardinality(DOMAIN m) <= id
    <3>1. Cardinality(DOMAIN m) \in Nat
      BY <2>4, FS_CardinalityType
    <3> QED
      BY <1>0, <2>4, <3>1 DEF RowCounted, id
  <2> QED
    BY <2>3, <2>4, <2>5, <2>6 DEF RowCounted, MailsKept
<1>2. CASE c.op = "delmail" /\ o \in delete_mail(row, c) /\ c.email_id \in DOMAIN row.mails
  <2> DEFINE m == Erase(row.mails, {c.email_id})
             n == row.num_emails - 1
  <2>1. o.row = [row EXCEPT !.num_emails = n, !.mails = m]
    BY <1>2 DEF delete_mail, Returns
  <2>2. /\ m \in Mails
        /\ \A x : x \in DOMAIN m <=> x \in DOMAIN row.mails /\ x \notin {c.email_id}
        /\ \A x \in DOMAIN m : m[x] = row.mails[x]
    BY <1>0, EraseFacts DEF Mails
  <2> HIDE DEF m
  <2>3. IsFiniteSet(DOMAIN m) /\ Cardinality(DOMAIN m) = Cardinality(DOMAIN row.mails) - 1
    <3>1. DOMAIN m = DOMAIN row.mails \ {c.email_id}
      BY <2>2
    <3>2. /\ IsFiniteSet(DOMAIN row.mails \ {c.email_id})
          /\ Cardinality(DOMAIN row.mails \ {c.email_id}) = Cardinality(DOMAIN row.mails) - 1
      BY <1>2, FS_RemoveElement DEF RowCounted
    <3> QED
      BY <3>1, <3>2
  <2>4. Cardinality(DOMAIN m) \in Nat
    BY <2>3, FS_CardinalityType
  <2>5. n \in Nat /\ Cardinality(DOMAIN m) <= n
    BY <1>0, <2>3, <2>4 DEF RowCounted
  <2> HIDE DEF n
  <2>6. o.row.num_emails = n /\ o.row.mails = m /\ o.row.drive = row.drive /\ o.row \in Rows
    BY <2>1, <2>2, <2>5 DEF Rows
  <2> QED
    BY <2>2, <2>3, <2>5, <2>6 DEF RowCounted, MailsKept
<1>3. CASE c.op = "delmail" /\ o \in delete_mail(row, c) /\ c.email_id \notin DOMAIN row.mails
  <2>1. o.row = row
    BY <1>3 DEF delete_mail, Returns
  <2> QED
    BY <2>1 DEF MailsKept
<1> QED
  BY <1>1, <1>2, <1>3

-----------------------------------------------------------------------------
(* Lists of entries.                                                       *)

\* s is list without its entry at a place.
Removed(list, at, s) ==
  /\ Len(s) = Len(list) - 1
  /\ \A i \in 1 .. Len(s) : s[i] = IF i < at THEN list[i] ELSE list[i + 1]

(* Taking out an entry in the middle or the last one.                      *)
LEMMA RemovedFacts ==
  ASSUME NEW S, NEW list \in Seq(S), NEW at \in 1 .. Len(list)
  PROVE  /\ RemoveAt(list, at) \in Seq(S) /\ Removed(list, at, RemoveAt(list, at))
         /\ Front(list) \in Seq(S) /\ Removed(list, Len(list), Front(list))
<1> DEFINE n == Len(list)
           a == SubSeq(list, 1, at - 1)
           b == SubSeq(list, at + 1, n)
<1>0. n \in Nat /\ at \in Nat /\ 1 <= at /\ at <= n /\ \A i \in 1 .. n : list[i] \in S
  OBVIOUS
<1> HIDE DEF n
<1>1. /\ a \in Seq(S) /\ Len(a) = at - 1
      /\ \A i \in 1 .. at - 1 : a[i] = list[i]
  <2>1. \A i \in 1 .. at - 1 : list[i] \in S
    BY <1>0
  <2>2. /\ a \in Seq(S)
        /\ Len(a) = IF 1 <= at - 1 THEN (at - 1) - 1 + 1 ELSE 0
        /\ \A i \in 1 .. (at - 1) - 1 + 1 : a[i] = list[1 + i - 1]
    BY <1>0, <2>1, SubSeqProperties
  <2> QED
    BY <1>0, <2>2
<1>2. /\ b \in Seq(S) /\ Len(b) = n - at
      /\ \A i \in 1 .. n - at : b[i] = list[i + at]
  <2>1. \A i \in at + 1 .. n : list[i] \in S
    BY <1>0
  <2>2. /\ b \in Seq(S)
        /\ Len(b) = IF at + 1 <= n THEN n - (at + 1) + 1 ELSE 0
        /\ \A i \in 1 .. n - (at + 1) + 1 : b[i] = list[at + 1 + i - 1]
    BY <1>0, <2>1, SubSeqProperties
  <2> QED
    BY <1>0, <2>2
<1> HIDE DEF a, b
<1>3. /\ a \o b \in Seq(S) /\ Len(a \o b) = n - 1
      /\ \A i \in 1 .. n - 1 : (a \o b)[i] = IF i <= at - 1 THEN a[i] ELSE b[i - (at - 1)]
  <2>1. /\ a \o b \in Seq(S) /\ Len(a \o b) = Len(a) + Len(b)
        /\ \A i \in 1 .. Len(a) + Len(b) :
             (a \o b)[i] = IF i <= Len(a) THEN a[i] ELSE b[i - Len(a)]
    BY <1>1, <1>2, ConcatProperties
  <2> QED
    BY <1>0, <1>1, <1>2, <2>1
<1>4. ASSUME NEW i \in 1 .. n - 1
      PROVE  (a \o b)[i] = IF i < at THEN list[i] ELSE list[i + 1]
  <2>0. i \in Nat /\ 1 <= i /\ i <= n - 1
    BY <1>0
  <2>1. CASE i < at
    BY <1>0, <1>1, <1>3, <2>0, <2>1
  <2>2. CASE at <= i
    <3>1. i - (at - 1) \in 1 .. n - at /\ i - (at - 1) + at = i + 1 /\ ~(i <= at - 1) /\ ~(i < at)
      BY <1>0, <2>0, <2>2
    <3>2. b[i - (at - 1)] = list[i + 1]
      BY <1>2, <3>1
    <3> QED
      BY <1>3, <3>1, <3>2
  <2>3. i < at \/ at <= i
    BY <1>0, <2>0
  <2> QED
    BY <2>1, <2>2, <2>3
<1>5. RemoveAt(list, at) = a \o b
  BY DEF RemoveAt, a, b, n
<1>6. RemoveAt(list, at) \in Seq(S) /\ Removed(list, at, RemoveAt(list, at))
  BY <1>3, <1>4, <1>5 DEF Removed, n
<1>7. /\ Front(list) \in Seq(S) /\ Len(Front(list)) = n - 1
      /\ \A i \in 1 .. n - 1 : Front(list)[i] = list[i]
  <2>1. \A i \in 1 .. n - 1 : list[i] \in S
    BY <1>0
  <2> DEFINE c == SubSeq(list, 1, n - 1)
  <2>2. /\ c \in Seq(S)
        /\ Len(c) = IF 1 <= n - 1 THEN (n - 1) - 1 + 1 ELSE 0
        /\ \A i \in 1 .. (n - 1) - 1 + 1 : c[i] = list[1 + i - 1]
    BY <1>0, <2>1, SubSeqProperties
  <2>3. Front(list) = c
    BY DEF Front, n
  <2> HIDE DEF c
  <2> QED
    BY <1>0, <2>2, <2>3
<1>8. Removed(list, Len(list), Front(list))
  BY <1>0, <1>7 DEF Removed, n
<1> QED
  BY <1>6, <1>7, <1>8

\* What std::find of RemoveFromParent takes for the entry looked for.
Matches(e, entry) == e.type = entry.type /\ <<e.name, entry.name>> \in NamePrefix

(* Erased takes out one entry; where nothing is undefined it is one that   *)
(* matches, if there is any.                                               *)
LEMMA ErasedFacts ==
  ASSUME NEW list \in Seq(fd_entry), NEW entry, NEW s \in Erased(list, entry)
  PROVE  /\ s \in Seq(fd_entry)
         /\ \E at \in 1 .. Len(list) :
              /\ Removed(list, at, s)
              /\ Undefined[scenario] = {} =>
                   \/ Matches(list[at], entry)
                   \/ \A i \in 1 .. Len(list) : ~Matches(list[i], entry)
<1> DEFINE Equal(e) == e.type = entry.type /\ <<e.name, entry.name>> \in NamePrefix
           hits == {i \in 1 .. Len(list) : Equal(list[i])}
           First(S) == CHOOSE i \in S : \A j \in S : i <= j
           undefined == entry.type = "FILE_TYPE" /\ "entry" \in Undefined[scenario]
           found == IF undefined THEN SUBSET hits ELSE {hits}
<1>1. s \in {RemoveAt(list, First(S)) : S \in found \ {{}}}
              \union {Front(list) : S \in {S \in found : S = {} /\ list # <<>>}}
  BY DEF Erased
<1>2. found \subseteq SUBSET hits /\ (Undefined[scenario] = {} => found = {hits})
  OBVIOUS
<1>h. hits \subseteq 1 .. Len(list) /\ \A i \in hits : Equal(list[i])
  OBVIOUS
<1>n. 1 .. Len(list) \subseteq Nat
  OBVIOUS
<1> HIDE DEF found, First
<1>3. ASSUME NEW S \in found, S # {}, s = RemoveAt(list, First(S))
      PROVE  /\ s \in Seq(fd_entry) /\ First(S) \in 1 .. Len(list)
             /\ Removed(list, First(S), s) /\ Matches(list[First(S)], entry)
  <2>0. S \subseteq hits
    BY <1>2
  <2>1. S \subseteq hits /\ S \in SUBSET Nat
    BY <1>h, <1>n, <2>0
  <2>2. First(S) \in S
    <3>1. \E i \in S : \A j \in S : i <= j
      BY <1>3, <2>1, Smallest
    <3> QED
      BY <3>1 DEF First
  <2>3. First(S) \in 1 .. Len(list) /\ Equal(list[First(S)])
    BY <1>h, <2>1, <2>2
  <2> QED
    BY <1>3, <2>3, RemovedFacts DEF Matches
<1>4. ASSUME NEW S \in found, S = {}, list # <<>>, s = Front(list)
      PROVE  /\ s \in Seq(fd_entry) /\ Len(list) \in 1 .. Len(list)
             /\ Removed(list, Len(list), s)
             /\ Undefined[scenario] = {} => \A i \in 1 .. Len(list) : ~Matches(list[i], entry)
  <2>1. Len(list) \in 1 .. Len(list)
    BY <1>4, EmptySeq
  <2>2. ASSUME Undefined[scenario] = {}, NEW i \in 1 .. Len(list), Matches(list[i], entry)
        PROVE  FALSE
    <3>1. i \in hits
      BY <2>2 DEF Matches
    <3> QED
      BY <1>2, <1>4, <2>2, <3>1
  <2> QED
    BY <1>4, <2>1, <2>2, RemovedFacts
<1> QED
  BY <1>1, <1>3, <1>4 DEF found

-----------------------------------------------------------------------------
(* Folders.                                                                *)

\* Names do not begin with each other and tell files from folders.
PlainNames ==
  /\ FileNames \intersect FolderNames = {}
  /\ \A m, n \in Names : <<m, n>> \in NamePrefix => m = n

\* A column is a folder exactly when its name is a folder's.
Columns(drive) ==
  \A q \in DOMAIN drive : drive[q].dir <=> (q = Root \/ q[Len(q)] \in FolderNames)

\* What is listed exists, as what it is listed.
Listed(drive) ==
  \A d \in DOMAIN drive : \A i \in 1 .. Len(drive[d].entry) :
    LET e == drive[d].entry[i]
    IN /\ Append(d, e.name) \in DOMAIN drive
       /\ drive[Append(d, e.name)].dir = (e.type = "DIRECTORY_TYPE")

\* Nothing is listed twice.
ListedOnce(drive) ==
  \A d \in DOMAIN drive : \A i, j \in 1 .. Len(drive[d].entry) :
    drive[d].entry[i].name = drive[d].entry[j].name => i = j

Tidy(drive) == Columns(drive) /\ Listed(drive) /\ ListedOnce(drive)

\* A drive in which a column has another list.
WithList(e, dir, l) == [e EXCEPT ![dir].entry = l]

(* A new list of a column (AddToParent, RemoveFromParent) changes that     *)
(* list only.                                                              *)
LEMMA ListChange ==
  ASSUME NEW e \in Drives, NEW dir \in DOMAIN e, NEW l \in Seq(fd_entry)
  PROVE  /\ WithList(e, dir, l) \in Drives
         /\ \A x : x \in DOMAIN WithList(e, dir, l) <=> x \in DOMAIN e
         /\ WithList(e, dir, l)[dir].entry = l
         /\ \A x \in DOMAIN e :
              /\ WithList(e, dir, l)[x].dir = e[x].dir
              /\ x # dir => WithList(e, dir, l)[x].entry = e[x].entry
<1> DEFINE d == WithList(e, dir, l)
           v == [e[dir] EXCEPT !.entry = l]
<1>0. e \in [DOMAIN e -> file_content] /\ DOMAIN e \in SUBSET Paths
  BY MapFacts DEF Drives
<1>1. v \in file_content /\ v.entry = l /\ v.dir = e[dir].dir
  BY <1>0 DEF file_content
<1>2. d = [e EXCEPT ![dir] = v]
  BY DEF WithList
<1> HIDE DEF v
<1>3. /\ d \in [DOMAIN e -> file_content]
      /\ d[dir] = v
      /\ \A x \in DOMAIN e : x # dir => d[x] = e[x]
  BY <1>0, <1>1, <1>2
<1> HIDE DEF d
<1>4. d \in Drives /\ DOMAIN d = DOMAIN e
  BY <1>0, <1>3, IsAMap DEF Drives
<1>5. \A x \in DOMAIN e : d[x].dir = e[x].dir /\ (x # dir => d[x].entry = e[x].entry)
  BY <1>1, <1>3
<1>6. d[dir].entry = l
  BY <1>1, <1>3
<1> QED
  BY <1>4, <1>5, <1>6 DEF d

(* Every column of a drive has a path, and a list of entries with names.   *)
LEMMA DriveFacts ==
  ASSUME NEW drive \in Drives, NEW d \in DOMAIN drive
  PROVE  /\ d \in Seq(Names) /\ drive[d].dir \in BOOLEAN
         /\ drive[d].entry \in Seq(fd_entry) /\ Len(drive[d].entry) \in Nat
         /\ \A i \in 1 .. Len(drive[d].entry) :
              /\ drive[d].entry[i].name \in Names
              /\ drive[d].entry[i].type \in {"FILE_TYPE", "DIRECTORY_TYPE"}
<1>1. drive \in [DOMAIN drive -> file_content] /\ d \in Paths
  BY MapFacts DEF Drives
<1>2. drive[d] \in file_content
  BY <1>1
<1>3. drive[d].dir \in BOOLEAN /\ drive[d].entry \in Seq(fd_entry)
  BY <1>2 DEF file_content
<1>4. Len(drive[d].entry) \in Nat /\ \A i \in 1 .. Len(drive[d].entry) : drive[d].entry[i] \in fd_entry
  BY <1>3
<1> QED
  BY <1>1, <1>3, <1>4 DEF Paths, fd_entry

(* A new column with an entry in its parent's list (store_file,            *)
(* create_folder): the drive stays well formed, and tidy.                  *)
LEMMA AddColumn ==
  ASSUME NEW drive \in Drives, NEW dir \in Seq(Names), NEW name \in Names,
         NEW content \in file_content, content.entry = <<>>,
         NEW entry \in fd_entry, entry.name = name,
         Append(dir, name) \notin DOMAIN drive,
         NEW d \in AddToParent(Insert(drive, Append(dir, name), content), dir, entry)
  PROVE  /\ d \in Drives
         /\ (/\ Tidy(drive)
             /\ content.dir = (entry.type = "DIRECTORY_TYPE")
             /\ content.dir <=> name \in FolderNames) => Tidy(d)
<1> DEFINE p == Append(dir, name)
           e == Insert(drive, p, content)
<1>1. p \in Paths /\ p # dir /\ p # Root /\ Len(p) = Len(dir) + 1 /\ p[Len(p)] = name
  BY PathFacts DEF Paths
<1>p. p \notin DOMAIN drive
  OBVIOUS
<1> HIDE DEF p
<1>2. /\ e \in Drives
      /\ \A x : x \in DOMAIN e <=> x \in DOMAIN drive \/ x = p
      /\ \A x \in DOMAIN drive : e[x] = drive[x]
      /\ e[p] = content
  BY <1>1, <1>p, InsertFacts DEF Drives
<1>3. /\ dir \notin DOMAIN e => d = e
      /\ dir \in DOMAIN e => d = [e EXCEPT ![dir].entry = Append(@, entry)]
  BY DEF AddToParent, p
<1> HIDE DEF e
<1>4. /\ d \in Drives
      /\ \A x : x \in DOMAIN d <=> x \in DOMAIN drive \/ x = p
      /\ \A x \in DOMAIN drive : d[x].dir = drive[x].dir /\ (x # dir => d[x].entry = drive[x].entry)
      /\ dir \in DOMAIN drive => d[dir].entry = Append(drive[dir].entry, entry)
      /\ d[p].dir = content.dir /\ d[p].entry = <<>>
  <2>1. CASE dir \notin DOMAIN e
    BY <1>2, <1>3, <2>1
  <2>2. CASE dir \in DOMAIN e
    <3> DEFINE l == Append(drive[dir].entry, entry)
    <3>1. dir \in DOMAIN drive /\ e[dir] = drive[dir]
      BY <1>1, <1>2, <2>2
    <3>2. l \in Seq(fd_entry)
      BY <3>1, DriveFacts
    <3>3. d = WithList(e, dir, l)
      BY <1>3, <2>2, <3>1 DEF WithList
    <3> HIDE DEF l
    <3>4. /\ d \in Drives
          /\ \A x : x \in DOMAIN d <=> x \in DOMAIN e
          /\ d[dir].entry = l
          /\ \A x \in DOMAIN e : d[x].dir = e[x].dir /\ (x # dir => d[x].entry = e[x].entry)
      BY <1>2, <2>2, <3>2, <3>3, ListChange
    <3> QED
      BY <1>1, <1>2, <3>1, <3>4 DEF l
  <2> QED
    BY <2>1, <2>2
<1> SUFFICES ASSUME Tidy(drive), content.dir = (entry.type = "DIRECTORY_TYPE"),
                    content.dir <=> name \in FolderNames
             PROVE  Columns(d) /\ Listed(d) /\ ListedOnce(d)
  BY <1>4 DEF Tidy
<1>5. Columns(d)
  <2> SUFFICES ASSUME NEW q \in DOMAIN d
               PROVE  d[q].dir <=> (q = Root \/ q[Len(q)] \in FolderNames)
    BY DEF Columns
  <2>1. CASE q = p
    BY <1>1, <1>4, <2>1
  <2>2. CASE q # p
    BY <1>4, <2>2 DEF Tidy, Columns
  <2> QED
    BY <2>1, <2>2
<1>6. ASSUME dir \in DOMAIN drive
      PROVE  /\ Len(d[dir].entry) = Len(drive[dir].entry) + 1
             /\ \A i \in 1 .. Len(drive[dir].entry) : d[dir].entry[i] = drive[dir].entry[i]
             /\ d[dir].entry[Len(drive[dir].entry) + 1] = entry
             /\ Len(drive[dir].entry) \in Nat
  <2> DEFINE list == drive[dir].entry
  <2>1. d[dir].entry = Append(list, entry) /\ list \in Seq(fd_entry)
    BY <1>4, <1>6, DriveFacts
  <2> HIDE DEF list
  <2>2. /\ Len(Append(list, entry)) = Len(list) + 1 /\ Len(list) \in Nat
        /\ \A i \in 1 .. Len(list) : Append(list, entry)[i] = list[i]
        /\ Append(list, entry)[Len(list) + 1] = entry
    BY <2>1
  <2> QED
    BY <2>1, <2>2 DEF list
<1>7. Listed(d)
  <2> SUFFICES ASSUME NEW x \in DOMAIN d, NEW i \in 1 .. Len(d[x].entry)
               PROVE  /\ Append(x, d[x].entry[i].name) \in DOMAIN d
                      /\ d[Append(x, d[x].entry[i].name)].dir = (d[x].entry[i].type = "DIRECTORY_TYPE")
    BY DEF Listed
  <2>1. CASE x # p /\ (x # dir \/ i # Len(drive[dir].entry) + 1)
    <3>1. x \in DOMAIN drive /\ i \in 1 .. Len(drive[x].entry) /\ d[x].entry[i] = drive[x].entry[i]
      BY <1>4, <1>6, <2>1
    <3>2. /\ Append(x, drive[x].entry[i].name) \in DOMAIN drive
          /\ drive[Append(x, drive[x].entry[i].name)].dir = (drive[x].entry[i].type = "DIRECTORY_TYPE")
      BY <3>1 DEF Tidy, Listed
    <3> QED
      BY <1>4, <3>1, <3>2
  <2>2. CASE x = dir /\ i = Len(drive[dir].entry) + 1
    <3>1. d[x].entry[i] = entry
      BY <1>1, <1>4, <1>6, <2>2
    <3> QED
      BY <1>4, <2>2, <3>1 DEF p
  <2>3. CASE x = p
    BY <1>4, <2>3
  <2> QED
    BY <2>1, <2>2, <2>3
<1>8. ListedOnce(d)
  <2> SUFFICES ASSUME NEW x \in DOMAIN d, NEW i \in 1 .. Len(d[x].entry),
                      NEW j \in 1 .. Len(d[x].entry), d[x].entry[i].name = d[x].entry[j].name
               PROVE  i = j
    BY DEF ListedOnce
  <2>0. ASSUME dir \in DOMAIN drive, NEW k \in 1 .. Len(drive[dir].entry)
        PROVE  drive[dir].entry[k].name # name
    BY <1>p, <2>0 DEF Tidy, Listed, p
  <2>1. CASE x = p
    BY <1>4, <2>1
  <2>2. CASE x # p /\ x # dir
    BY <1>4, <2>2 DEF Tidy, ListedOnce
  <2>3. CASE x = dir
    <3>1. dir \in DOMAIN drive
      BY <1>1, <1>4, <2>3
    <3> DEFINE n == Len(drive[dir].entry)
    <3>2. n \in Nat /\ Len(d[dir].entry) = n + 1
      BY <1>6, <3>1
    <3>3. \A k \in 1 .. n : d[dir].entry[k] = drive[dir].entry[k] /\ d[dir].entry[k].name # name
      BY <1>6, <2>0, <3>1
    <3>4. d[dir].entry[n + 1].name = name
      BY <1>6, <3>1
    <3>5. \A k, m \in 1 .. n : drive[dir].entry[k].name = drive[dir].entry[m].name => k = m
      BY <3>1 DEF Tidy, ListedOnce
    <3> HIDE DEF n
    <3>6. i \in 1 .. n \/ i = n + 1
      BY <2>3, <3>2
    <3>7. j \in 1 .. n \/ j = n + 1
      BY <2>3, <3>2
    <3> QED
      BY <2>3, <3>3, <3>4, <3>5, <3>6, <3>7
  <2> QED
    BY <2>1, <2>2, <2>3
<1> QED
  BY <1>5, <1>7, <1>8

(* Columns erased with an entry of the parent's list (delete_file,         *)
(* delete_folder): the drive stays well formed; it stays tidy when the     *)
(* columns are what the entry names and what is below.                     *)
LEMMA RemoveColumns ==
  ASSUME NEW drive \in Drives, NEW D, NEW dir \in Seq(Names), NEW name \in Names,
         NEW entry \in fd_entry, entry.name = name,
         NEW d \in RemoveFromParent(Erase(drive, D), dir, entry)
  PROVE  /\ d \in Drives
         /\ (/\ Tidy(drive) /\ PlainNames /\ Undefined[scenario] = {}
             /\ Append(dir, name) \in DOMAIN drive
             /\ drive[Append(dir, name)].dir = (entry.type = "DIRECTORY_TYPE")
             /\ \A q \in DOMAIN drive : \A n \in Names :
                  q \notin D /\ Append(q, n) \in D => q = dir /\ n = name) => Tidy(d)
<1> DEFINE e == Erase(drive, D)
<1>2. /\ e \in Drives
      /\ \A x : x \in DOMAIN e <=> x \in DOMAIN drive /\ x \notin D
      /\ \A x \in DOMAIN e : e[x] = drive[x]
  BY EraseFacts DEF Drives
<1>3. /\ dir \notin DOMAIN e => d = e
      /\ dir \in DOMAIN e => \E s \in Erased(e[dir].entry, entry) : d = WithList(e, dir, s)
  BY DEF RemoveFromParent, WithList
<1> HIDE DEF e
<1>4. /\ d \in Drives
      /\ \A x : x \in DOMAIN d <=> x \in DOMAIN drive /\ x \notin D
      /\ \A x \in DOMAIN d : d[x].dir = drive[x].dir /\ (x # dir => d[x].entry = drive[x].entry)
      /\ dir \in DOMAIN d =>
           \E at \in 1 .. Len(drive[dir].entry) :
             /\ Removed(drive[dir].entry, at, d[dir].entry)
             /\ Undefined[scenario] = {} =>
                  \/ Matches(drive[dir].entry[at], entry)
                  \/ \A i \in 1 .. Len(drive[dir].entry) : ~Matches(drive[dir].entry[i], entry)
  <2>1. CASE dir \notin DOMAIN e
    BY <1>2, <1>3, <2>1
  <2>2. CASE dir \in DOMAIN e
    <3>1. PICK s \in Erased(e[dir].entry, entry) : d = WithList(e, dir, s)
      BY <1>3, <2>2
    <3>2. dir \in DOMAIN drive /\ e[dir] = drive[dir] /\ drive[dir].entry \in Seq(fd_entry)
      BY <1>2, <2>2, DriveFacts
    <3>3. /\ s \in Seq(fd_entry)
          /\ \E at \in 1 .. Len(drive[dir].entry) :
               /\ Removed(drive[dir].entry, at, s)
               /\ Undefined[scenario] = {} =>
                    \/ Matches(drive[dir].entry[at], entry)
                    \/ \A i \in 1 .. Len(drive[dir].entry) : ~Matches(drive[dir].entry[i], entry)
      BY <3>2, ErasedFacts
    <3>4. /\ d \in Drives
          /\ \A x : x \in DOMAIN d <=> x \in DOMAIN e
          /\ d[dir].entry = s
          /\ \A x \in DOMAIN e : d[x].dir = e[x].dir /\ (x # dir => d[x].entry = e[x].entry)
      BY <1>2, <2>2, <3>1, <3>3, ListChange
    <3> QED
      BY <1>2, <3>3, <3>4
  <2> QED
    BY <2>1, <2>2
<1> SUFFICES ASSUME Tidy(drive), PlainNames, Undefined[scenario] = {},
                    Append(dir, name) \in DOMAIN drive,
                    drive[Append(dir, name)].dir = (entry.type = "DIRECTORY_TYPE"),
                    \A q \in DOMAIN drive : \A n \in Names :
                      q \notin D /\ Append(q, n) \in D => q = dir /\ n = name
             PROVE  Columns(d) /\ Listed(d) /\ ListedOnce(d)
  BY <1>4 DEF Tidy
<1>5. Columns(d)
  BY <1>4 DEF Tidy, Columns
<1>6. ASSUME NEW x \in DOMAIN d, NEW i \in 1 .. Len(d[x].entry)
      PROVE  \E k \in 1 .. Len(drive[x].entry) :
               /\ d[x].entry[i] = drive[x].entry[k]
               /\ x = dir => ~Matches(drive[x].entry[k], entry)
  <2>1. CASE x # dir
    BY <1>4, <1>6, <2>1
  <2>2. CASE x = dir
    <3> DEFINE list == drive[dir].entry
               s == d[dir].entry
    <3>1. PICK at \in 1 .. Len(list) :
            /\ Removed(list, at, s)
            /\ \/ Matches(list[at], entry)
               \/ \A k \in 1 .. Len(list) : ~Matches(list[k], entry)
      BY <1>4, <1>6, <2>2
    <3>2. /\ Len(list) \in Nat /\ x \in DOMAIN drive
          /\ \A k \in 1 .. Len(list) : list[k].name \in Names
      BY <1>4, <1>6, <2>2, DriveFacts
    <3>3. \A k, m \in 1 .. Len(list) : list[k].name = list[m].name => k = m
      BY <1>4, <1>6, <2>2 DEF Tidy, ListedOnce
    <3>i. i \in 1 .. Len(s)
      BY <1>6, <2>2
    <3> HIDE DEF list, s
    <3> DEFINE k == IF i < at THEN i ELSE i + 1
    <3>4. k \in 1 .. Len(list) /\ k # at /\ s[i] = list[k]
      BY <3>1, <3>2, <3>i DEF Removed
    <3> HIDE DEF k
    <3>5. ~Matches(list[k], entry)
      <4>1. Matches(list[k], entry) /\ Matches(list[at], entry) => list[k].name = list[at].name
        BY <3>1, <3>2, <3>4 DEF Matches, PlainNames
      <4> QED
        BY <3>1, <3>3, <3>4, <4>1
    <3> QED
      BY <2>2, <3>4, <3>5 DEF list, s
  <2> QED
    BY <2>1, <2>2
<1>7. Listed(d)
  <2> SUFFICES ASSUME NEW x \in DOMAIN d, NEW i \in 1 .. Len(d[x].entry)
               PROVE  /\ Append(x, d[x].entry[i].name) \in DOMAIN d
                      /\ d[Append(x, d[x].entry[i].name)].dir = (d[x].entry[i].type = "DIRECTORY_TYPE")
    BY DEF Listed
  <2>1. PICK k \in 1 .. Len(drive[x].entry) :
          /\ d[x].entry[i] = drive[x].entry[k]
          /\ x = dir => ~Matches(drive[x].entry[k], entry)
    BY <1>6
  <2> DEFINE f == drive[x].entry[k]
             q == Append(x, f.name)
  <2>2. x \in DOMAIN drive /\ x \notin D
    BY <1>4
  <2>3. q \in DOMAIN drive /\ drive[q].dir = (f.type = "DIRECTORY_TYPE")
    BY <2>2 DEF Tidy, Listed
  <2>4. f.name \in Names /\ f.type \in {"FILE_TYPE", "DIRECTORY_TYPE"}
    BY <2>2, DriveFacts
  <2>5. q \notin D
    <3> SUFFICES ASSUME q \in D PROVE FALSE
      OBVIOUS
    <3>1. x = dir /\ f.name = name
      BY <2>2, <2>4
    <3>2. f.type = entry.type
      BY <2>3, <2>4, <3>1 DEF fd_entry
    <3>3. <<f.name, entry.name>> \in NamePrefix
      BY <2>4, <3>1, KeyValueAssumption DEF KeyValueAssumption
    <3> QED
      BY <2>1, <3>1, <3>2, <3>3 DEF Matches
  <2> QED
    BY <1>4, <2>1, <2>3, <2>5
<1>8. ListedOnce(d)
  <2> SUFFICES ASSUME NEW x \in DOMAIN d, NEW i \in 1 .. Len(d[x].entry),
                      NEW j \in 1 .. Len(d[x].entry), d[x].entry[i].name = d[x].entry[j].name
               PROVE  i = j
    BY DEF ListedOnce
  <2>1. CASE x # dir
    BY <1>4, <2>1 DEF Tidy, ListedOnce
  <2>2. CASE x = dir
    <3> DEFINE list == drive[dir].entry
               s == d[dir].entry
    <3>1. PICK at \in 1 .. Len(list) : Removed(list, at, s)
      BY <1>4, <2>2
    <3>2. Len(list) \in Nat
      BY <1>4, <2>2, DriveFacts
    <3>3. \A k, m \in 1 .. Len(list) : list[k].name = list[m].name => k = m
      BY <1>4, <2>2 DEF Tidy, ListedOnce
    <3>4. i \in 1 .. Len(s) /\ j \in 1 .. Len(s) /\ s[i].name = s[j].name
      BY <2>2
    <3> HIDE DEF list, s
    <3> DEFINE Back(n) == IF n < at THEN n ELSE n + 1
    <3>5. \A n \in 1 .. Len(s) : Back(n) \in 1 .. Len(list) /\ s[n] = list[Back(n)]
      BY <3>1, <3>2 DEF Removed
    <3>6. \A n, m \in 1 .. Len(s) : Back(n) = Back(m) => n = m
      BY <3>1, <3>2 DEF Removed
    <3> HIDE DEF Back
    <3> QED
      BY <3>3, <3>4, <3>5, <3>6
  <2> QED
    BY <2>1, <2>2
<1> QED
  BY <1>5, <1>7, <1>8

\* What a change of the drive leaves alone, and what it keeps.
OnlyDrive(row, new) == new.mails = row.mails /\ new.num_emails = row.num_emails

StaysTidy(row, new) ==
  Tidy(row.drive) /\ PlainNames /\ Undefined[scenario] = {} => Tidy(new.drive)

\* A row with another drive.
WithDrive(row, d) == [row EXCEPT !.drive = d]

(* Another drive leaves the rest of the row alone.                         *)
LEMMA NewDrive ==
  ASSUME NEW row \in Rows, NEW d \in Drives
  PROVE  /\ WithDrive(row, d) \in Rows
         /\ OnlyDrive(row, WithDrive(row, d))
         /\ WithDrive(row, d).drive = d
BY DEF Rows, OnlyDrive, WithDrive

(* Each outcome of a change of the drive has one of the new drives.        *)
LEMMA NewDrives ==
  ASSUME NEW row, NEW S, NEW o \in DriveReturns(row, S)
  PROVE  \E d \in S : o.row = WithDrive(row, d)
BY DEF DriveReturns, WithDrive

(* store_file and create_folder keep the drive well formed and tidy.       *)
LEMMA CreateOperations ==
  ASSUME NEW row \in Rows, NEW c \in Requests, NEW o,
         \/ c.op = "putfile" /\ o \in store_file(row, c)
         \/ c.op = "mkfolder" /\ o \in create_folder(row, c)
  PROVE  o.row \in Rows /\ OnlyDrive(row, o.row) /\ StaysTidy(row, o.row)
<1> DEFINE path == FullPath(c)
<1>0. /\ row.drive \in Drives /\ c.dir \in Seq(Names) /\ c.name \in Names
      /\ path = Append(c.dir, c.name)
      /\ c.op = "putfile" => c.name \in FileNames /\ c.chunk_len \in Nat
      /\ c.op = "mkfolder" => c.name \in FolderNames
  BY RequestFacts, DirectoryFacts DEF Rows, Names, FullPath
<1> HIDE DEF path
<1>1. CASE c.op = "putfile" /\ o \in store_file(row, c) /\ path \in DOMAIN row.drive
  <2> DEFINE f == row.drive
             v == [f[path] EXCEPT !.file_len = @ + c.chunk_len]
             d == [f EXCEPT ![path] = v]
  <2>1. f \in [DOMAIN f -> file_content] /\ DOMAIN f \in SUBSET Paths
    BY <1>0, MapFacts DEF Drives
  <2>2. v \in file_content /\ v.dir = f[path].dir /\ v.entry = f[path].entry
    <3>1. f[path] \in file_content /\ c.chunk_len \in Nat
      BY <1>0, <1>1, <2>1
    <3> HIDE DEF f
    <3> QED
      BY <3>1 DEF file_content
  <2>3. o.row = WithDrive(row, d)
    <3>1. o.row = [row EXCEPT !.drive[path].file_len = @ + c.chunk_len]
      BY <1>1 DEF store_file, Returns, path
    <3> QED
      BY <3>1 DEF Rows, WithDrive
  <2> HIDE DEF v
  <2>4. /\ d \in [DOMAIN f -> file_content]
        /\ \A x \in DOMAIN f : d[x].dir = f[x].dir /\ d[x].entry = f[x].entry
    BY <1>1, <2>1, <2>2
  <2> HIDE DEF d
  <2>5. d \in Drives /\ DOMAIN d = DOMAIN f
    BY <2>1, <2>4, IsAMap DEF Drives
  <2>6. Tidy(f) => Tidy(d)
    <3> SUFFICES ASSUME Tidy(f) PROVE Tidy(d)
      OBVIOUS
    <3>1. Columns(d)
      BY <2>4, <2>5 DEF Tidy, Columns
    <3>2. Listed(d)
      <4>1. ASSUME NEW x \in DOMAIN f, NEW i \in 1 .. Len(f[x].entry)
            PROVE  LET e == f[x].entry[i]
                   IN /\ Append(x, e.name) \in DOMAIN f
                      /\ d[Append(x, e.name)].dir = (e.type = "DIRECTORY_TYPE")
        <5>1. LET e == f[x].entry[i]
              IN /\ Append(x, e.name) \in DOMAIN f
                 /\ f[Append(x, e.name)].dir = (e.type = "DIRECTORY_TYPE")
          BY DEF Tidy, Listed
        <5> QED
          BY <2>4, <5>1
      <4>2. \A x \in DOMAIN d : d[x].entry = f[x].entry
        BY <2>4, <2>5
      <4> QED
        BY <2>5, <4>1, <4>2 DEF Listed
    <3>3. ListedOnce(d)
      BY <2>4, <2>5 DEF Tidy, ListedOnce
    <3> QED
      BY <3>1, <3>2, <3>3 DEF Tidy
  <2> QED
    BY <2>3, <2>5, <2>6, NewDrive DEF StaysTidy
<1>2. CASE c.op = "putfile" /\ o \in store_file(row, c) /\ path \notin DOMAIN row.drive
  <2> DEFINE file == [dir |-> FALSE, file_len |-> c.chunk_len, entry |-> <<>>]
             entry == [type |-> "FILE_TYPE", name |-> c.name]
  <2>1. PICK d \in AddToParent(Insert(row.drive, path, file), c.dir, entry) :
          o.row = WithDrive(row, d)
    <3>1. o \in DriveReturns(row, AddToParent(Insert(row.drive, path, file), c.dir, entry))
      BY <1>2 DEF store_file, path
    <3> QED
      BY <3>1, NewDrives
  <2>2. /\ file \in file_content /\ file.entry = <<>> /\ file.dir = FALSE
        /\ entry \in fd_entry /\ entry.name = c.name /\ entry.type = "FILE_TYPE"
    BY <1>0, <1>2 DEF file_content, fd_entry
  <2> HIDE DEF file, entry
  <2>3. /\ d \in Drives
        /\ (/\ Tidy(row.drive)
            /\ file.dir = (entry.type = "DIRECTORY_TYPE")
            /\ file.dir <=> c.name \in FolderNames) => Tidy(d)
    BY <1>0, <1>2, <2>1, <2>2, AddColumn
  <2>4. PlainNames => c.name \notin FolderNames
    BY <1>0, <1>2 DEF PlainNames
  <2>5. Tidy(row.drive) /\ PlainNames => Tidy(d)
    BY <2>2, <2>3, <2>4
  <2> QED
    BY <2>1, <2>3, <2>5, NewDrive DEF StaysTidy
<1>3. CASE c.op = "mkfolder" /\ o \in create_folder(row, c) /\ path \notin DOMAIN row.drive
  <2> DEFINE entry == [type |-> "DIRECTORY_TYPE", name |-> c.name]
  <2>1. PICK d \in AddToParent(Insert(row.drive, path, EmptyFolder), c.dir, entry) :
          o.row = WithDrive(row, d)
    <3>1. o \in DriveReturns(row, AddToParent(Insert(row.drive, path, EmptyFolder), c.dir, entry))
      BY <1>3 DEF create_folder, path
    <3> QED
      BY <3>1, NewDrives
  <2>2. /\ EmptyFolder \in file_content /\ EmptyFolder.entry = <<>> /\ EmptyFolder.dir = TRUE
        /\ entry \in fd_entry /\ entry.name = c.name /\ entry.type = "DIRECTORY_TYPE"
    BY <1>0, <1>3 DEF file_content, fd_entry, EmptyFolder
  <2> HIDE DEF entry
  <2>3. /\ d \in Drives
        /\ (/\ Tidy(row.drive)
            /\ EmptyFolder.dir = (entry.type = "DIRECTORY_TYPE")
            /\ EmptyFolder.dir <=> c.name \in FolderNames) => Tidy(d)
    BY <1>0, <1>3, <2>1, <2>2, AddColumn
  <2>4. Tidy(row.drive) => Tidy(d)
    BY <1>0, <1>3, <2>2, <2>3
  <2> QED
    BY <2>1, <2>3, <2>4, NewDrive DEF StaysTidy
<1>4. CASE c.op = "mkfolder" /\ o \in create_folder(row, c) /\ path \in DOMAIN row.drive
  <2>1. o.row = row
    BY <1>4 DEF create_folder, Returns, path
  <2> QED
    BY <2>1 DEF StaysTidy, OnlyDrive
<1> QED
  BY <1>1, <1>2, <1>3, <1>4

(* Where names are plain, a column that begins with a path is that path or *)
(* below it.                                                               *)
LEMMA BelowFacts ==
  ASSUME PlainNames, NEW q \in Seq(Names), NEW dir \in Seq(Names), NEW name \in Names,
         NEW n \in Names,
         ~BeginsWith(q, Append(dir, name)), BeginsWith(Append(q, n), Append(dir, name))
  PROVE  q = dir /\ n = name
<1> DEFINE p == Append(dir, name)
           r == Append(q, n)
<1>1. /\ p \in Seq(Names) /\ Len(p) \in Nat /\ \A i \in 1 .. Len(p) : p[i] \in Names
      /\ r \in Seq(Names) /\ Len(r) = Len(q) + 1 /\ Len(q) \in Nat
      /\ \A i \in 1 .. Len(r) : r[i] \in Names
      /\ \A i \in 1 .. Len(q) : r[i] = q[i]
  BY PathFacts
<1> HIDE DEF p, r
<1>2. /\ Len(p) <= Len(r)
      /\ \A i \in 1 .. Len(p) : IF i < Len(p) THEN r[i] = p[i] ELSE <<p[i], r[i]>> \in NamePrefix
  BY DEF BeginsWith, p, r
<1>3. ~(/\ Len(p) <= Len(q)
        /\ \A i \in 1 .. Len(p) : IF i < Len(p) THEN q[i] = p[i] ELSE <<p[i], q[i]>> \in NamePrefix)
  BY DEF BeginsWith, p
<1>4. ~(Len(p) <= Len(q))
  <2> SUFFICES ASSUME Len(p) <= Len(q) PROVE FALSE
    OBVIOUS
  <2>1. \A i \in 1 .. Len(p) : i \in 1 .. Len(q)
    BY <1>1
  <2>2. \A i \in 1 .. Len(p) : q[i] = r[i]
    BY <1>1, <2>1
  <2> QED
    BY <1>2, <1>3, <2>2
<1>5. Len(p) = Len(r)
  BY <1>1, <1>2, <1>4
<1>6. \A i \in 1 .. Len(p) : p[i] = r[i]
  <2> SUFFICES ASSUME NEW i \in 1 .. Len(p) PROVE p[i] = r[i]
    OBVIOUS
  <2>1. i \in 1 .. Len(r) /\ p[i] \in Names /\ r[i] \in Names
    BY <1>1, <1>5
  <2>2. r[i] = p[i] \/ <<p[i], r[i]>> \in NamePrefix
    BY <1>2
  <2> QED
    BY <2>1, <2>2 DEF PlainNames
<1>7. p = r
  BY <1>1, <1>5, <1>6, SeqEqual
<1> QED
  BY <1>7, PathFacts DEF p, r

(* delete_file and delete_folder keep the drive well formed and tidy.      *)
LEMMA DeleteOperations ==
  ASSUME NEW row \in Rows, NEW c \in Requests, NEW o,
         \/ c.op = "delfile" /\ o \in delete_file(row, c)
         \/ c.op = "delfolder" /\ o \in delete_folder(row, c)
  PROVE  o.row \in Rows /\ OnlyDrive(row, o.row) /\ StaysTidy(row, o.row)
<1> DEFINE path == FullPath(c)
<1>0. /\ row.drive \in Drives /\ c.dir \in Seq(Names) /\ c.name \in Names
      /\ path = Append(c.dir, c.name)
      /\ c.op = "delfile" => c.name \in FileNames
      /\ c.op = "delfolder" => c.name \in FolderNames
  BY RequestFacts, DirectoryFacts DEF Rows, Names, FullPath
<1>p. path # Root /\ path[Len(path)] = c.name
  BY <1>0, PathFacts
<1> HIDE DEF path
<1>1. CASE path \notin DOMAIN row.drive
  <2>1. o.row = row
    BY <1>1 DEF delete_file, delete_folder, Returns, path
  <2> QED
    BY <2>1 DEF StaysTidy, OnlyDrive
<1>2. ASSUME path \in DOMAIN row.drive, Columns(row.drive)
      PROVE  row.drive[path].dir = (c.name \in FolderNames)
  <2>1. row.drive[path].dir \in BOOLEAN
    BY <1>0, <1>2, DriveFacts
  <2> QED
    BY <1>2, <1>p, <2>1 DEF Columns
<1>3. CASE c.op = "delfile" /\ o \in delete_file(row, c) /\ path \in DOMAIN row.drive
  <2> DEFINE entry == [type |-> "FILE_TYPE", name |-> c.name]
             D == {path}
  <2>1. PICK d \in RemoveFromParent(Erase(row.drive, D), c.dir, entry) :
          o.row = WithDrive(row, d)
    <3>1. o \in DriveReturns(row, RemoveFromParent(Erase(row.drive, D), c.dir, entry))
      BY <1>3 DEF delete_file, path
    <3> QED
      BY <3>1, NewDrives
  <2>2. entry \in fd_entry /\ entry.name = c.name /\ entry.type = "FILE_TYPE"
    BY <1>0 DEF fd_entry
  <2>3. \A q \in DOMAIN row.drive : \A n \in Names :
          q \notin D /\ Append(q, n) \in D => q = c.dir /\ n = c.name
    <3>1. \A e \in Seq(Names) : \A m \in Names : Append(e, m) = path => e = c.dir /\ m = c.name
      BY <1>0, PathFacts
    <3>2. \A q \in DOMAIN row.drive : q \in Seq(Names)
      BY <1>0, DriveFacts
    <3>q. QED
      BY <3>1, <3>2
  <2> HIDE DEF entry, D
  <2>4. d \in Drives
    BY <1>0, <2>1, <2>2, RemoveColumns
  <2>5. ASSUME Tidy(row.drive), PlainNames, Undefined[scenario] = {} PROVE Tidy(d)
    <3>1. row.drive[path].dir = (entry.type = "DIRECTORY_TYPE")
      BY <1>0, <1>2, <1>3, <2>2, <2>5 DEF Tidy, PlainNames
    <3> QED
      BY <1>0, <1>3, <2>1, <2>2, <2>3, <2>5, <3>1, RemoveColumns
  <2> QED
    BY <2>1, <2>4, <2>5, NewDrive DEF StaysTidy
<1>4. CASE c.op = "delfolder" /\ o \in delete_folder(row, c) /\ path \in DOMAIN row.drive
  <2> DEFINE entry == [type |-> "DIRECTORY_TYPE", name |-> c.name]
             hits == {p \in DOMAIN row.drive : BeginsWith(p, path)}
             erased == IF "iterator" \in Undefined[scenario] THEN SUBSET hits \ {{}} ELSE {hits}
  <2>1. PICK D \in erased : \E d \in RemoveFromParent(Erase(row.drive, D), c.dir, entry) :
          o.row = WithDrive(row, d)
    <3>1. o \in DriveReturns(row, UNION {RemoveFromParent(Erase(row.drive, D), c.dir, entry) :
                                          D \in erased})
      BY <1>4 DEF delete_folder, path
    <3>2. PICK d \in UNION {RemoveFromParent(Erase(row.drive, D), c.dir, entry) : D \in erased} :
            o.row = WithDrive(row, d)
      BY <3>1, NewDrives
    <3> QED
      BY <3>2
  <2>2. entry \in fd_entry /\ entry.name = c.name /\ entry.type = "DIRECTORY_TYPE"
    BY <1>0 DEF fd_entry
  <2>3. Undefined[scenario] = {} => D = hits
    BY <2>1
  <2> HIDE DEF erased, entry
  <2>4. PICK d \in RemoveFromParent(Erase(row.drive, D), c.dir, entry) :
          o.row = WithDrive(row, d)
    BY <2>1
  <2>5. d \in Drives
    BY <1>0, <2>2, <2>4, RemoveColumns
  <2>6. ASSUME Tidy(row.drive), PlainNames, Undefined[scenario] = {} PROVE Tidy(d)
    <3>1. row.drive[path].dir = (entry.type = "DIRECTORY_TYPE")
      BY <1>0, <1>2, <1>4, <2>2, <2>6 DEF Tidy
    <3>2. ASSUME NEW q \in DOMAIN row.drive, NEW n \in Names, q \notin D, Append(q, n) \in D
          PROVE  q = c.dir /\ n = c.name
      <4>1. ~BeginsWith(q, path) /\ BeginsWith(Append(q, n), path) /\ q \in Seq(Names)
        BY <1>0, <2>3, <2>6, <3>2, DriveFacts
      <4> QED
        BY <1>0, <2>6, <4>1, BelowFacts
    <3> HIDE DEF hits
    <3> QED
      BY <1>0, <1>4, <2>2, <2>4, <2>6, <3>1, <3>2, RemoveColumns
  <2> QED
    BY <2>4, <2>5, <2>6, NewDrive DEF StaysTidy
<1> QED
  BY <1>1, <1>3, <1>4

-----------------------------------------------------------------------------
(* Commands.                                                               *)

\* The commands on a user's row.
RowOps == (WriteOps \union ReadOps) \ {"add", "delete", "unknown"}

\* What a command does to a row.
RowStep(row, new) ==
  new \in Rows /\ RowCounted(new) /\ MailsKept(row, new) /\ StaysTidy(row, new)

(* Every operation on a row is such a step.                                *)
LEMMA RowOperations ==
  ASSUME NEW row \in Rows, RowCounted(row), NEW c \in Requests, c.op \in RowOps,
         NEW o \in RowOperation(row, c)
  PROVE  RowStep(row, o.row)
<1>1. CASE o.row = row
  BY <1>1 DEF RowStep, MailsKept, StaysTidy
<1>2. CASE c.op \in {"putmail", "delmail"}
  <2>1. \/ c.op = "putmail" /\ o \in store_email(row, c)
        \/ c.op = "delmail" /\ o \in delete_mail(row, c)
    BY <1>2 DEF RowOperation
  <2> QED
    BY <2>1, MailOperations DEF RowStep, StaysTidy
<1>3. CASE c.op \in {"putfile", "mkfolder", "delfile", "delfolder"}
  <2>1. \/ c.op = "putfile" /\ o \in store_file(row, c)
        \/ c.op = "mkfolder" /\ o \in create_folder(row, c)
        \/ c.op = "delfile" /\ o \in delete_file(row, c)
        \/ c.op = "delfolder" /\ o \in delete_folder(row, c)
    BY <1>3 DEF RowOperation
  <2>2. o.row \in Rows /\ OnlyDrive(row, o.row) /\ StaysTidy(row, o.row)
    BY <2>1, CreateOperations, DeleteOperations
  <2> QED
    BY <2>2 DEF RowStep, OnlyDrive, RowCounted, MailsKept
<1>4. CASE c.op = "changepw" /\ o.row # row
  <2>1. o.row = [row EXCEPT !.password = c.new_password]
    BY <1>4 DEF RowOperation, change_password, Returns
  <2>2. c.new_password \in Passwords
    BY <1>4, RequestFacts
  <2>3. /\ o.row \in Rows /\ o.row.mails = row.mails /\ o.row.num_emails = row.num_emails
        /\ o.row.drive = row.drive
    BY <2>1, <2>2 DEF Rows
  <2> QED
    BY <2>3 DEF RowStep, RowCounted, MailsKept, StaysTidy
<1>5. CASE c.op \in {"auth", "getmail", "mailbody", "getfile", "getfolder"}
  <2>1. CASE c.op = "auth"
    BY <1>1, <2>1 DEF RowOperation, auth_user, Returns
  <2>2. CASE c.op = "getmail"
    BY <1>1, <2>2 DEF RowOperation, Returns
  <2>3. CASE c.op = "mailbody"
    BY <1>1, <2>3 DEF RowOperation, get_mail_body, Returns
  <2>4. CASE c.op = "getfile"
    BY <1>1, <2>4 DEF RowOperation, get_file_data, Returns
  <2>5. CASE c.op = "getfolder"
    BY <1>1, <2>5 DEF RowOperation, get_folder_content, Returns
  <2> QED
    BY <1>5, <2>1, <2>2, <2>3, <2>4, <2>5
<1> QED
  BY <1>1, <1>2, <1>3, <1>4, <1>5 DEF RowOps, WriteOps, ReadOps

Tablets == Maps(Users, Rows)

\* What a command does to the tablet: no mail of a row that stays is
\* replaced, and rows stay counted and tidy.
Counted(T) == \A u \in DOMAIN T : RowCounted(T[u])

TidyRows(T) == \A u \in DOMAIN T : Tidy(T[u].drive)

TabletStep(T, new) ==
  /\ new \in Tablets /\ Counted(new)
  /\ \A u \in DOMAIN T \intersect DOMAIN new : MailsKept(T[u], new[u])
  /\ TidyRows(T) /\ PlainNames /\ Undefined[scenario] = {} => TidyRows(new)

(* A command that changes nothing is such a step.                          *)
LEMMA SameTablet ==
  ASSUME NEW T \in Tablets, Counted(T)
  PROVE  TabletStep(T, T)
BY DEF TabletStep, MailsKept

(* add_user: the new row has no mails and the folder "/r00t".              *)
LEMMA AddUser ==
  ASSUME NEW T \in Tablets, Counted(T), NEW c \in Requests, c.op = "add", NEW o \in add_user(T, c)
  PROVE  TabletStep(T, o.tablet)
<1> DEFINE drive == [p \in {Root} |-> EmptyFolder]
           row == [password |-> c.password, num_emails |-> 0, mails |-> <<>>, drive |-> drive]
           new == Insert(T, c.user, row)
<1>1. CASE o.tablet = T
  BY <1>1, SameTablet
<1>2. CASE o.tablet = new /\ c.user \notin DOMAIN T
  <2>1. drive \in Drives /\ DOMAIN drive = {Root} /\ drive[Root] = EmptyFolder
    <3>1. drive \in [{Root} -> file_content] /\ {Root} \in SUBSET Paths
      BY DEF EmptyFolder, file_content, Root, Paths
    <3> QED
      BY <3>1, IsAMap DEF Drives
  <2>2. <<>> \in Mails /\ DOMAIN <<>> = {}
    <3>1. <<>> \in [{} -> Bodies] /\ {} \in SUBSET MailIds
      OBVIOUS
    <3> QED
      BY <3>1, IsAMap DEF Mails
  <2>3. c.user \in Users /\ c.password \in Passwords
    BY RequestFacts
  <2>4. Tidy(drive)
    <3>1. EmptyFolder.dir = TRUE /\ EmptyFolder.entry = <<>>
      BY DEF EmptyFolder
    <3>2. Columns(drive)
      BY <2>1, <3>1 DEF Columns
    <3>3. Listed(drive) /\ ListedOnce(drive)
      BY <2>1, <3>1 DEF Listed, ListedOnce
    <3> QED
      BY <3>2, <3>3 DEF Tidy
  <2> HIDE DEF drive
  <2>5. row \in Rows /\ row.mails = <<>> /\ row.num_emails = 0 /\ row.drive = drive
    BY <2>1, <2>2, <2>3 DEF Rows
  <2>6. RowCounted(row)
    BY <2>2, <2>5, FS_EmptySet DEF RowCounted
  <2> HIDE DEF row
  <2>7. /\ new \in Tablets
        /\ \A x : x \in DOMAIN new <=> x \in DOMAIN T \/ x = c.user
        /\ \A x \in DOMAIN T : new[x] = T[x]
        /\ new[c.user] = row
    BY <1>2, <2>3, <2>5, InsertFacts DEF Tablets
  <2> HIDE DEF new
  <2>8. Counted(new)
    BY <2>6, <2>7 DEF Counted
  <2>9. \A u \in DOMAIN T \intersect DOMAIN new : MailsKept(T[u], new[u])
    BY <2>7 DEF MailsKept
  <2>10. TidyRows(T) => TidyRows(new)
    BY <2>4, <2>5, <2>7 DEF TidyRows
  <2> QED
    BY <1>2, <2>7, <2>8, <2>9, <2>10 DEF TabletStep
<1> QED
  BY <1>1, <1>2 DEF add_user

(* delete_user takes a row away and leaves the others.                     *)
LEMMA DeleteUser ==
  ASSUME NEW T \in Tablets, Counted(T), NEW user, NEW o \in delete_user(T, user)
  PROVE  TabletStep(T, o.tablet)
<1> DEFINE new == Erase(T, {user})
<1>1. CASE o.tablet = T
  BY <1>1, SameTablet
<1>2. CASE o.tablet = new
  <2>1. /\ new \in Tablets
        /\ \A x : x \in DOMAIN new <=> x \in DOMAIN T /\ x \notin {user}
        /\ \A x \in DOMAIN new : new[x] = T[x]
    BY EraseFacts DEF Tablets
  <2> HIDE DEF new
  <2>2. Counted(new)
    BY <2>1 DEF Counted
  <2>3. \A u \in DOMAIN T \intersect DOMAIN new : MailsKept(T[u], new[u])
    BY <2>1 DEF MailsKept
  <2>4. TidyRows(T) => TidyRows(new)
    BY <2>1 DEF TidyRows
  <2> QED
    BY <1>2, <2>1, <2>2, <2>3, <2>4 DEF TabletStep
<1> QED
  BY <1>1, <1>2 DEF delete_user

(* An operation on a row changes that row only.                            *)
LEMMA RowCommand ==
  ASSUME NEW T \in Tablets, Counted(T), NEW c \in Requests, c.op \in RowOps,
         NEW o \in OnRow(T, c)
  PROVE  TabletStep(T, o.tablet)
<1>1. CASE c.user \notin DOMAIN T
  <2>1. o.tablet = T
    BY <1>1 DEF OnRow
  <2> QED
    BY <2>1, SameTablet
<1>2. CASE c.user \in DOMAIN T
  <2>1. PICK r \in RowOperation(T[c.user], c) : o.tablet = [T EXCEPT ![c.user] = r.row]
    BY <1>2 DEF OnRow
  <2>2. T \in [DOMAIN T -> Rows] /\ DOMAIN T \in SUBSET Users /\ T[c.user] \in Rows
    BY <1>2, MapFacts DEF Tablets
  <2>3. RowStep(T[c.user], r.row)
    BY <1>2, <2>2, RowOperations DEF Counted
  <2> DEFINE new == o.tablet
  <2>4. /\ new \in [DOMAIN T -> Rows] /\ new[c.user] = r.row
        /\ \A u \in DOMAIN T : u # c.user => new[u] = T[u]
    BY <1>2, <2>1, <2>2, <2>3 DEF RowStep
  <2> HIDE DEF new
  <2>5. new \in Tablets /\ DOMAIN new = DOMAIN T
    BY <2>2, <2>4, IsAMap DEF Tablets
  <2>6. Counted(new)
    BY <2>3, <2>4, <2>5 DEF Counted, RowStep
  <2>7. \A u \in DOMAIN T \intersect DOMAIN new : MailsKept(T[u], new[u])
    BY <2>3, <2>4, <2>5 DEF MailsKept, RowStep
  <2>8. TidyRows(T) /\ PlainNames /\ Undefined[scenario] = {} => TidyRows(new)
    BY <1>2, <2>3, <2>4, <2>5 DEF TidyRows, RowStep, StaysTidy
  <2> QED
    BY <2>5, <2>6, <2>7, <2>8 DEF TabletStep, new
<1> QED
  BY <1>1, <1>2

(* process_command: whatever the command, it is such a step.               *)
LEMMA CommandStep ==
  ASSUME NEW T \in Tablets, Counted(T), NEW c \in Requests, NEW o \in Outcomes(T, c)
  PROVE  TabletStep(T, o.tablet)
<1>1. CASE c.op = "add"
  <2>1. \E x \in add_user(T, c) : o.tablet = x.tablet
    BY <1>1 DEF Outcomes, UserCommand, Answering
  <2> QED
    BY <1>1, <2>1, AddUser
<1>2. CASE c.op = "delete"
  <2>1. \E x \in delete_user(T, c.user) : o.tablet = x.tablet
    BY <1>2 DEF Outcomes, UserCommand, Answering
  <2> QED
    BY <2>1, DeleteUser
<1>3. CASE c.op = "unknown"
  <2>1. o.tablet = T
    BY <1>3 DEF Outcomes, UnknownCommand
  <2> QED
    BY <2>1, SameTablet
<1>4. CASE c.op \in RowOps
  <2>0. OnRow(T, c) = {[tablet |-> x.tablet, res |-> x.res] : x \in OnRow(T, c)}
    BY DEF OnRow
  <2>1. CASE c.op = "changepw" \/ c.op = "putfile"
    <3>1. \E x \in AsBool(OnRow(T, c)) : o.tablet = x.tablet
      BY <2>1 DEF Outcomes, UserCommand, FileCommand, Answering
    <3>2. \A x \in AsBool(OnRow(T, c)) : \E y \in OnRow(T, c) : x.tablet = y.tablet
      BY <2>0 DEF AsBool
    <3> QED
      BY <1>4, <3>1, <3>2, RowCommand
  <2>2. CASE c.op \notin {"changepw", "putfile"}
    <3>1. \E x \in OnRow(T, c) : o.tablet = x.tablet
      <4>1. CASE c.op = "auth"
        BY <4>1 DEF Outcomes, UserCommand, Answering
      <4>2. CASE c.op \in {"putmail", "getmail", "mailbody", "delmail"}
        BY <4>2 DEF Outcomes, MailCommand, Answering
      <4>3. CASE c.op \in {"getfile", "delfile"}
        BY <4>3 DEF Outcomes, FileCommand, Answering
      <4>4. CASE c.op \in {"getfolder", "mkfolder", "delfolder"}
        BY <4>4 DEF Outcomes, FolderCommand, Answering
      <4> QED
        BY <1>4, <2>2, <4>1, <4>2, <4>3, <4>4 DEF RowOps, WriteOps, ReadOps
    <3> QED
      BY <1>4, <3>1, RowCommand
  <2> QED
    BY <2>1, <2>2
<1> QED
  BY <1>1, <1>2, <1>3, <1>4, RequestFacts DEF RowOps

-----------------------------------------------------------------------------
(* Threads.                                                                *)

\* The threads between the two parts of add_log_entry.
Written == {t \in Threads : pc[t] = "written"}

\* The entries of the log file that are not counted are theirs.
LogCounted ==
  /\ log \in Seq(Requests) /\ log_sequence_no \in Nat
  /\ IsFiniteSet(Written)
  /\ log_sequence_no + Cardinality(Written) = Len(log)

ThreadsTyped ==
  /\ pc \in [Threads -> {"idle", "written", "counted"}]
  /\ cmd \in [Threads -> Requests \union {NoCommand}]
  /\ \A t \in Threads : pc[t] # "idle" => cmd[t] \in Requests
  /\ alive \in BOOLEAN /\ scenario \in Scenarios

Inv ==
  /\ tablet \in Tablets /\ Counted(tablet)
  /\ ThreadsTyped
  /\ LogCounted

(* An empty tablet and an empty log.                                       *)
LEMMA InvInit == Init => Inv /\ TidyRows(tablet)
<1> SUFFICES ASSUME Init PROVE Inv /\ TidyRows(tablet)
  OBVIOUS
<1>1. tablet \in Tablets /\ DOMAIN tablet = {}
  <2>1. tablet = <<>>
    BY DEF Init
  <2>2. tablet \in [{} -> Rows] /\ {} \in SUBSET Users
    BY <2>1
  <2> QED
    BY <2>2, IsAMap DEF Tablets
<1>2. Counted(tablet) /\ TidyRows(tablet)
  BY <1>1 DEF Counted, TidyRows
<1>3. ThreadsTyped
  BY DEF Init, ThreadsTyped
<1>4. LogCounted
  <2>1. Written = {}
    BY DEF Init, Written
  <2> QED
    BY <2>1, FS_EmptySet DEF Init, LogCounted
<1> QED
  BY <1>1, <1>2, <1>3, <1>4 DEF Inv

(* A thread that writes an entry, counts it, executes its command, reads,  *)
(* or ends the process keeps the invariant, and changes the tablet only by *)
(* a command.                                                              *)
LEMMA InvNext ==
  ASSUME Inv, [Next]_vars
  PROVE  Inv' /\ scenario' = scenario /\ (tablet' = tablet \/ TabletStep(tablet, tablet'))
<1>0. /\ tablet \in Tablets /\ Counted(tablet) /\ ThreadsTyped /\ LogCounted
      /\ Len(log) \in Nat /\ Cardinality(Written) \in Nat
  BY FS_CardinalityType DEF Inv, LogCounted
<1>1. ASSUME NEW t \in Threads, WriteEntry(t)
      PROVE  Inv' /\ scenario' = scenario /\ tablet' = tablet
  <2>1. PICK c \in Sends[scenario][t] : log' = Append(log, c) /\ cmd' = [cmd EXCEPT ![t] = c]
    BY <1>1 DEF WriteEntry
  <2>2. c \in Requests
    BY <1>0, <2>1, KeyValueAssumption DEF KeyValueAssumption, ThreadsTyped
  <2>3. /\ pc[t] = "idle" /\ pc' = [pc EXCEPT ![t] = "written"] /\ alive' = alive
        /\ UNCHANGED <<tablet, log_sequence_no, scenario>>
    BY <1>1 DEF WriteEntry
  <2>4. ThreadsTyped'
    BY <1>0, <2>1, <2>2, <2>3 DEF ThreadsTyped
  <2>5. Written' = Written \union {t} /\ t \notin Written
    BY <1>0, <2>3 DEF Written, ThreadsTyped
  <2>6. IsFiniteSet(Written') /\ Cardinality(Written') = Cardinality(Written) + 1
    BY <1>0, <2>5, FS_AddElement DEF LogCounted
  <2>7. log' \in Seq(Requests) /\ Len(log') = Len(log) + 1
    BY <1>0, <2>1, <2>2 DEF LogCounted
  <2>8. LogCounted'
    BY <1>0, <2>3, <2>6, <2>7 DEF LogCounted
  <2> QED
    BY <1>0, <2>3, <2>4, <2>8 DEF Inv, Counted
<1>2. ASSUME NEW t \in Threads, CountEntry(t)
      PROVE  Inv' /\ scenario' = scenario /\ tablet' = tablet
  <2>1. /\ pc[t] = "written" /\ pc' = [pc EXCEPT ![t] = "counted"]
        /\ log_sequence_no' = log_sequence_no + 1
        /\ UNCHANGED <<tablet, log, cmd, alive, scenario>>
    BY <1>2 DEF CountEntry
  <2>2. ThreadsTyped'
    BY <1>0, <2>1 DEF ThreadsTyped
  <2>3. Written' = Written \ {t} /\ t \in Written
    BY <1>0, <2>1 DEF Written, ThreadsTyped
  <2>4. IsFiniteSet(Written') /\ Cardinality(Written') = Cardinality(Written) - 1
    BY <1>0, <2>3, FS_RemoveElement DEF LogCounted
  <2>5. LogCounted'
    BY <1>0, <2>1, <2>4 DEF LogCounted
  <2> QED
    BY <1>0, <2>1, <2>2, <2>5 DEF Inv, Counted
<1>3. ASSUME NEW t \in Threads, Execute(t)
      PROVE  Inv' /\ scenario' = scenario /\ TabletStep(tablet, tablet')
  <2>1. /\ pc[t] = "counted" /\ pc' = [pc EXCEPT ![t] = "idle"]
        /\ cmd' = [cmd EXCEPT ![t] = NoCommand]
        /\ UNCHANGED <<log, log_sequence_no, alive, scenario>>
    BY <1>3 DEF Execute
  <2>2. PICK o \in Outcomes(tablet, cmd[t]) : tablet' = o.tablet
    BY <1>3 DEF Execute
  <2>3. cmd[t] \in Requests
    BY <1>0, <2>1 DEF ThreadsTyped
  <2>4. TabletStep(tablet, tablet')
    BY <1>0, <2>2, <2>3, CommandStep
  <2>5. tablet' \in Tablets /\ Counted(tablet')
    BY <2>4 DEF TabletStep
  <2>6. ThreadsTyped'
    BY <1>0, <2>1 DEF ThreadsTyped
  <2>7. Written' = Written
    BY <1>0, <2>1 DEF Written, ThreadsTyped
  <2>8. LogCounted'
    BY <1>0, <2>1, <2>7 DEF LogCounted
  <2> QED
    BY <2>1, <2>4, <2>5, <2>6, <2>8 DEF Inv
<1>4. ASSUME UNCHANGED <<tablet, log, log_sequence_no, pc, cmd, scenario>>, alive' \in BOOLEAN
      PROVE  Inv' /\ scenario' = scenario /\ tablet' = tablet
  <2>1. ThreadsTyped'
    BY <1>0, <1>4 DEF ThreadsTyped
  <2>2. Written' = Written
    BY <1>4 DEF Written
  <2>3. LogCounted'
    BY <1>0, <1>4, <2>2 DEF LogCounted
  <2> QED
    BY <1>0, <1>4, <2>1, <2>3 DEF Inv, Counted
<1>5. ASSUME NEW t \in Threads, Die(t) \/ Read(t)
      PROVE  Inv' /\ scenario' = scenario /\ tablet' = tablet
  BY <1>4, <1>5 DEF Die, Read
<1>6. CASE UNCHANGED vars
  <2>1. alive' \in BOOLEAN /\ UNCHANGED <<tablet, log, log_sequence_no, pc, cmd, scenario>>
    BY <1>0, <1>6 DEF vars, ThreadsTyped
  <2> QED
    BY <1>4, <2>1
<1> QED
  BY <1>1, <1>2, <1>3, <1>5, <1>6 DEF Next

(* The invariant gives the types.                                          *)
LEMMA InvTypes == Inv => TypeOK
<1> SUFFICES ASSUME Inv PROVE TypeOK
  OBVIOUS
<1>1. tablet \in [DOMAIN tablet -> Rows] /\ DOMAIN tablet \subseteq Users
  BY MapFacts DEF Inv, Tablets
<1>2. ASSUME NEW u \in DOMAIN tablet PROVE IsTabletRow(tablet[u])
  <2> DEFINE row == tablet[u]
  <2>1. row \in Rows
    BY <1>1
  <2> HIDE DEF row
  <2>2. /\ row.password \in Passwords /\ row.num_emails \in Nat
        /\ row.mails \in Mails /\ row.drive \in Drives
    BY <2>1 DEF Rows
  <2>3. IsMap(row.mails, Nat \ {0}, Bodies)
    <3>1. row.mails \in [DOMAIN row.mails -> Bodies] /\ DOMAIN row.mails \subseteq MailIds
      BY <2>2, MapFacts DEF Mails
    <3> QED
      BY <3>1 DEF IsMap, MailIds
  <2>4. IsMap(row.drive, Seq(Names), file_content)
    <3>1. row.drive \in [DOMAIN row.drive -> file_content] /\ DOMAIN row.drive \subseteq Paths
      BY <2>2, MapFacts DEF Drives
    <3> QED
      BY <3>1 DEF IsMap, Paths
  <2> QED
    BY <2>2, <2>3, <2>4 DEF IsTabletRow, row
<1>3. log_sequence_no \in 0 .. Len(log)
  <2>1. Cardinality(Written) \in Nat /\ Len(log) \in Nat /\ log_sequence_no \in Nat
        /\ log_sequence_no + Cardinality(Written) = Len(log)
    BY FS_CardinalityType DEF Inv, LogCounted
  <2> QED
    BY <2>1
<1> QED
  BY <1>1, <1>2, <1>3 DEF TypeOK, Inv, ThreadsTyped

(* Where the counter is 0 there is no mail to hide.                        *)
LEMMA CountedComplete == Inv => ListingComplete
<1> SUFFICES ASSUME Inv, NEW u \in DOMAIN tablet
             PROVE  LET list == get_email_list(tablet[u])
                    IN /\ list.headers = DOMAIN tablet[u].mails
                       /\ Cardinality(list.headers) <= list.num_emails
  BY DEF ListingComplete
<1> DEFINE row == tablet[u]
<1>1. IsFiniteSet(DOMAIN row.mails) /\ Cardinality(DOMAIN row.mails) <= row.num_emails
  BY DEF Inv, Counted, RowCounted
<1>2. Cardinality(DOMAIN row.mails) \in Nat
  BY <1>1, FS_CardinalityType
<1> HIDE DEF row
<1>3. row.num_emails = 0 => DOMAIN row.mails = {}
  <2>1. row.num_emails = 0 => Cardinality(DOMAIN row.mails) = 0
    BY <1>1, <1>2
  <2> QED
    BY <1>1, <2>1, FS_EmptySet
<1>4. /\ get_email_list(row).num_emails = row.num_emails
      /\ get_email_list(row).headers = DOMAIN row.mails
  BY <1>3 DEF get_email_list
<1> QED
  BY <1>1, <1>4 DEF row

-----------------------------------------------------------------------------
(* Theorems.                                                               *)

(* The tablet is well formed and the sequence number file never counts     *)
(* more entries than the log file has, for any threads, users and          *)
(* requests, whatever is undefined.                                        *)
THEOREM TypeCorrect == Spec => []TypeOK
  BY InvInit, InvNext, InvTypes, PTL DEF Spec

(* The mail counter never wraps round and a listing never hides a mail     *)
(* (store_email, delete_mail, get_email_list).                             *)
THEOREM ListingCompleteAlways == Spec => []ListingComplete
  BY InvInit, InvNext, CountedComplete, PTL DEF Spec

(* A mail number never comes to name another mail while it names one       *)
(* (store_email inserts, and does not replace).                            *)
THEOREM MailKeptAlways == Spec => MailKept
<1>1. Inv /\ [Next]_vars =>
        [\A u \in DOMAIN tablet \intersect DOMAIN tablet' :
           \A id \in DOMAIN tablet[u].mails \intersect DOMAIN tablet'[u].mails :
             tablet'[u].mails[id] = tablet[u].mails[id]]_tablet
  BY InvNext DEF TabletStep, MailsKept
<1> QED
  BY <1>1, InvInit, InvNext, PTL DEF Spec, MailKept

\* The drives of a scenario without undefined behaviour are tidy.
TidyInv == Inv /\ (Undefined[scenario] = {} => TidyRows(tablet))

(* With plain names, whatever a folder lists exists, as what it is listed: *)
(* the two halves of create_folder, delete_folder, store_file and          *)
(* delete_file stay in step.                                               *)
THEOREM ListedExistsAlways == ASSUME PlainNames PROVE Spec => []ListedExists
<1>1. Init => TidyInv
  BY InvInit DEF TidyInv
<1>2. TidyInv /\ [Next]_vars => TidyInv'
  BY InvNext DEF TidyInv, TabletStep, TidyRows
<1>3. TidyInv => ListedExists
  BY DEF TidyInv, TidyRows, Tidy, Listed, ListedExists
<1> QED
  BY <1>1, <1>2, <1>3, PTL DEF Spec

-----------------------------------------------------------------------------
(* The replay of the log.                                                  *)

\* Threads write the rows of different users.
OwnUsers ==
  \A x \in Scenarios : \A t, r \in Threads : t # r =>
    \A c \in Sends[x][t], d \in Sends[x][r] :
      c.op \in WriteOps /\ d.op \in WriteOps => c.user # d.user

\* The tablet has room for all users.
EnoughRoom == Cardinality(Users) <= MAX_TABLET_USERS

GoodTablets == {T \in Tablets : Counted(T)}

\* Two tablets have the same of user u.
SameRow(T, R, u) ==
  /\ u \in DOMAIN T <=> u \in DOMAIN R
  /\ u \in DOMAIN T => T[u] = R[u]

\* T with what R has of user u.
Put(T, R, u) ==
  [v \in (DOMAIN T \ {u}) \union (DOMAIN R \intersect {u}) |-> IF v = u THEN R[v] ELSE T[v]]

\* The tablets after a write.
After(T, c) == {o.tablet : o \in Outcomes(T, c)}

Logged == {c \in Requests : c.op \in WriteOps /\ c.op # "delete"}

(* Tablets that have the same of every user are the same.                  *)
LEMMA SameRows ==
  ASSUME NEW T \in Tablets, NEW R \in Tablets, \A u : SameRow(T, R, u)
  PROVE  T = R
<1>1. T \in [DOMAIN T -> Rows] /\ R \in [DOMAIN R -> Rows]
  BY MapFacts DEF Tablets
<1>2. DOMAIN T = DOMAIN R /\ \A u \in DOMAIN T : T[u] = R[u]
  BY DEF SameRow
<1> QED
  BY <1>1, <1>2

(* Put takes the row of one user and leaves the others.                    *)
LEMMA PutFacts ==
  ASSUME NEW T \in GoodTablets, NEW R \in GoodTablets, NEW u
  PROVE  /\ Put(T, R, u) \in GoodTablets
         /\ SameRow(Put(T, R, u), R, u)
         /\ \A v : v # u => SameRow(Put(T, R, u), T, v)
<1>1. /\ T \in [DOMAIN T -> Rows] /\ DOMAIN T \subseteq Users
      /\ R \in [DOMAIN R -> Rows] /\ DOMAIN R \subseteq Users
  BY MapFacts DEF Tablets, GoodTablets
<1> DEFINE D == (DOMAIN T \ {u}) \union (DOMAIN R \intersect {u})
           P == [v \in D |-> IF v = u THEN R[v] ELSE T[v]]
<1>2. D \in SUBSET Users
  BY <1>1
<1>3. P \in [D -> Rows]
  BY <1>1
<1>4. \A v \in D : P[v] = IF v = u THEN R[v] ELSE T[v]
  OBVIOUS
<1>5. P = Put(T, R, u)
  BY DEF Put
<1>6. \A v : v \in D <=> (IF v = u THEN u \in DOMAIN R ELSE v \in DOMAIN T)
  OBVIOUS
<1> HIDE DEF D, P
<1>7. P \in Tablets /\ DOMAIN P = D
  BY <1>2, <1>3, IsAMap DEF Tablets
<1>8. Counted(P)
  BY <1>4, <1>6, <1>7 DEF Counted, GoodTablets
<1>9. SameRow(P, R, u) /\ \A v : v # u => SameRow(P, T, v)
  BY <1>4, <1>6, <1>7 DEF SameRow
<1> QED
  BY <1>5, <1>7, <1>8, <1>9 DEF GoodTablets

(* An answer changes no tablet.                                            *)
LEMMA AnswerTablets ==
  ASSUME NEW S, NEW texts
  PROVE  {o.tablet : o \in Answering(S, texts)} = {o.tablet : o \in S}
<1> DEFINE A(o) == [tablet |-> o.tablet, res |-> o.res,
                    answer |-> IF o.res \in texts THEN o.res ELSE "nothing"]
<1>1. Answering(S, texts) = {A(o) : o \in S}
  BY DEF Answering
<1>2. \A o : A(o).tablet = o.tablet
  OBVIOUS
<1> HIDE DEF A
<1> QED
  BY <1>1, <1>2

(* A write other than of a user changes the user's row, if it is there.    *)
LEMMA AfterRowCommand ==
  ASSUME NEW T, NEW c \in Logged, c.op # "add"
  PROVE  /\ c.op \in RowOps
         /\ After(T, c) = {o.tablet : o \in OnRow(T, c)}
<1>1. c.op \in RowOps
  <2>1. c.op \in WriteOps /\ c.op # "delete"
    BY DEF Logged
  <2>2. "unknown" \notin WriteOps
    BY DEF WriteOps
  <2> QED
    BY <2>1, <2>2 DEF RowOps
<1>2. ASSUME NEW S, NEW texts PROVE {o.tablet : o \in Answering(S, texts)} = {o.tablet : o \in S}
  BY AnswerTablets
<1>3. {o.tablet : o \in AsBool(OnRow(T, c))} = {o.tablet : o \in OnRow(T, c)}
  <2>1. OnRow(T, c) = {[tablet |-> x.tablet, res |-> x.res] : x \in OnRow(T, c)}
    BY DEF OnRow
  <2>2. ASSUME NEW x \in OnRow(T, c), NEW r PROVE [x EXCEPT !.res = r].tablet = x.tablet
    <3>1. PICK y \in OnRow(T, c) : x = [tablet |-> y.tablet, res |-> y.res]
      BY <2>1
    <3> QED
      BY <3>1
  <2>3. {o.tablet : o \in AsBool(OnRow(T, c))} =
          {[x EXCEPT !.res = IF @ = "SUCCESS" THEN @
                               ELSE "ERR_EXCEEDED_MAX_TABLET_USER_LIMIT"].tablet :
             x \in OnRow(T, c)}
    BY DEF AsBool
  <2> QED
    BY <2>2, <2>3
<1>4. CASE c.op \in {"changepw", "putfile"}
  <2>1. \E texts : Outcomes(T, c) = Answering(AsBool(OnRow(T, c)), texts)
    BY <1>4 DEF Outcomes, UserCommand, FileCommand
  <2> QED
    BY <1>1, <1>2, <1>3, <2>1 DEF After
<1>5. CASE c.op \in {"putmail", "delmail", "delfile", "mkfolder", "delfolder"}
  <2>1. \E texts : Outcomes(T, c) = Answering(OnRow(T, c), texts)
    <3>1. CASE c.op \in {"putmail", "delmail"}
      BY <3>1 DEF Outcomes, MailCommand
    <3>2. CASE c.op = "delfile"
      BY <3>2 DEF Outcomes, FileCommand
    <3>3. CASE c.op \in {"mkfolder", "delfolder"}
      BY <3>3 DEF Outcomes, FolderCommand
    <3> QED
      BY <1>5, <3>1, <3>2, <3>3
  <2> QED
    BY <1>1, <1>2, <2>1 DEF After
<1> QED
  BY <1>4, <1>5 DEF Logged, WriteOps

\* The row of a new user.
NewRow(c) == [password |-> c.password, num_emails |-> 0, mails |-> <<>>,
              drive |-> [p \in {Root} |-> EmptyFolder]]

(* add_user inserts a row, unless the tablet is full or the user is there. *)
LEMMA AfterAdd ==
  ASSUME NEW T, NEW c, c.op = "add"
  PROVE  After(T, c) = IF Cardinality(DOMAIN T) = MAX_TABLET_USERS \/ c.user \in DOMAIN T
                         THEN {T} ELSE {Insert(T, c.user, NewRow(c))}
<1>1. \E texts : Outcomes(T, c) = Answering(add_user(T, c), texts)
  BY DEF Outcomes, UserCommand
<1>2. After(T, c) = {o.tablet : o \in add_user(T, c)}
  BY <1>1, AnswerTablets DEF After
<1>3. CASE Cardinality(DOMAIN T) = MAX_TABLET_USERS
  BY <1>2, <1>3 DEF add_user
<1>4. CASE Cardinality(DOMAIN T) # MAX_TABLET_USERS /\ c.user \in DOMAIN T
  BY <1>2, <1>4 DEF add_user
<1>5. CASE Cardinality(DOMAIN T) # MAX_TABLET_USERS /\ c.user \notin DOMAIN T
  BY <1>2, <1>5 DEF add_user, NewRow
<1> QED
  BY <1>3, <1>4, <1>5

(* A command on a row changes that row, if it is there.                    *)
LEMMA OnRowTablets ==
  ASSUME NEW T, NEW c
  PROVE  {o.tablet : o \in OnRow(T, c)} =
           IF c.user \in DOMAIN T
             THEN {[T EXCEPT ![c.user] = o.row] : o \in RowOperation(T[c.user], c)} ELSE {T}
<1>1. CASE c.user \notin DOMAIN T
  BY <1>1 DEF OnRow
<1>2. CASE c.user \in DOMAIN T
  <2> DEFINE B(o) == [T EXCEPT ![c.user] = o.row]
             A(o) == [tablet |-> B(o), res |-> o.res]
             Rs == RowOperation(T[c.user], c)
  <2>1. OnRow(T, c) = {A(o) : o \in Rs}
    BY <1>2 DEF OnRow
  <2>2. \A o : A(o).tablet = B(o)
    OBVIOUS
  <2> HIDE DEF A, B, Rs
  <2>3. {o.tablet : o \in OnRow(T, c)} = {B(o) : o \in Rs}
    BY <2>1, <2>2
  <2> QED
    BY <1>2, <2>3 DEF B, Rs
<1> QED
  BY <1>1, <1>2

(* The tablet is full only when every user has a row.                      *)
LEMMA FullTablet ==
  ASSUME EnoughRoom, NEW T \in Tablets, Cardinality(DOMAIN T) = MAX_TABLET_USERS
  PROVE  DOMAIN T = Users
<1>1. DOMAIN T \in SUBSET Users /\ IsFiniteSet(Users)
  BY MapFacts, KeyValueAssumption DEF Tablets, KeyValueAssumption
<1>2. /\ Cardinality(DOMAIN T) <= Cardinality(Users)
      /\ Cardinality(Users) = Cardinality(DOMAIN T) => Users = DOMAIN T
  BY <1>1, FS_Subset
<1>3. Cardinality(Users) \in Nat /\ MAX_TABLET_USERS \in Nat
  BY <1>1, FS_CardinalityType, KeyValueAssumption DEF KeyValueAssumption
<1> QED
  BY <1>2, <1>3 DEF EnoughRoom

(* A write depends on the row of its user only and changes no other: in    *)
(* another tablet with that row it can do the same.                        *)
LEMMA WriteIsLocal ==
  ASSUME EnoughRoom, NEW T \in GoodTablets, NEW R \in GoodTablets, NEW c \in Logged,
         SameRow(T, R, c.user), NEW new \in After(T, c)
  PROVE  /\ new \in GoodTablets
         /\ \A v : v # c.user => SameRow(new, T, v)
         /\ Put(R, new, c.user) \in After(R, c)
<1> DEFINE u == c.user
<1>1. new \in GoodTablets
  <2>1. PICK o \in Outcomes(T, c) : new = o.tablet
    BY DEF After
  <2>2. T \in Tablets /\ Counted(T) /\ c \in Requests
    BY DEF GoodTablets, Logged
  <2>3. TabletStep(T, new)
    BY <2>1, <2>2, CommandStep
  <2> QED
    BY <2>3 DEF TabletStep, GoodTablets
<1>2. Put(R, new, u) \in GoodTablets /\ SameRow(Put(R, new, u), new, u)
      /\ \A v : v # u => SameRow(Put(R, new, u), R, v)
  BY <1>1, PutFacts
<1>3. u \in Users /\ c \in Requests
  BY RequestFacts DEF Logged
<1>4. /\ T \in [DOMAIN T -> Rows] /\ DOMAIN T \subseteq Users
      /\ R \in [DOMAIN R -> Rows] /\ DOMAIN R \subseteq Users
      /\ T \in Tablets /\ R \in Tablets /\ Put(R, new, u) \in Tablets
  BY <1>2, MapFacts DEF Tablets, GoodTablets
<1>5. ASSUME new = T, R \in After(R, c)
      PROVE  (\A v : v # u => SameRow(new, T, v)) /\ Put(R, new, u) \in After(R, c)
  <2>1. \A v : SameRow(Put(R, new, u), R, v)
    BY <1>2, <1>5 DEF SameRow
  <2>2. Put(R, new, u) = R
    BY <1>4, <2>1, SameRows
  <2> QED
    BY <1>5, <2>2 DEF SameRow
<1>6. CASE c.op = "add"
  <2> DEFINE row == NewRow(c)
  <2>1. ASSUME NEW X
        PROVE  After(X, c) = IF Cardinality(DOMAIN X) = MAX_TABLET_USERS \/ u \in DOMAIN X
                               THEN {X} ELSE {Insert(X, u, row)}
    BY <1>6, AfterAdd
  <2>3. CASE u \in DOMAIN T
    <3>1. new = T /\ R \in After(R, c)
      BY <2>1, <2>3 DEF SameRow
    <3> QED
      BY <1>1, <1>5, <3>1
  <2>4. CASE u \notin DOMAIN T
    <3>1. u \notin DOMAIN R
      BY <2>4 DEF SameRow
    <3>2. Cardinality(DOMAIN T) # MAX_TABLET_USERS /\ Cardinality(DOMAIN R) # MAX_TABLET_USERS
      BY <1>3, <1>4, <2>4, <3>1, FullTablet
    <3>3. new = Insert(T, u, row) /\ After(R, c) = {Insert(R, u, row)}
      BY <2>1, <2>4, <3>1, <3>2
    <3> HIDE DEF row
    <3>4. /\ \A v : v # u => SameRow(new, T, v)
          /\ u \in DOMAIN new /\ new[u] = row
      BY <2>4, <3>3 DEF Insert, SameRow
    <3>5. DOMAIN Put(R, new, u) = DOMAIN R \union {u}
          /\ \A v \in DOMAIN R \union {u} :
                Put(R, new, u)[v] = IF v \in DOMAIN R THEN R[v] ELSE row
      BY <3>1, <3>4 DEF Put
    <3>6. Insert(R, u, row) = [v \in DOMAIN R \union {u} |-> IF v \in DOMAIN R THEN R[v] ELSE row]
      BY DEF Insert
    <3>7. Put(R, new, u) \in [DOMAIN R \union {u} -> Rows]
      BY <1>4, <3>5, MapFacts DEF Tablets
    <3>8. Put(R, new, u) = Insert(R, u, row)
      BY <3>5, <3>6, <3>7
    <3> QED
      BY <1>1, <3>3, <3>4, <3>8
  <2> QED
    BY <2>3, <2>4
<1>7. CASE c.op # "add"
  <2>1. ASSUME NEW X
        PROVE  After(X, c) =
                 IF u \in DOMAIN X
                   THEN {[X EXCEPT ![u] = o.row] : o \in RowOperation(X[u], c)} ELSE {X}
    BY <1>7, AfterRowCommand, OnRowTablets
  <2>2. CASE u \notin DOMAIN T
    <3>1. new = T /\ R \in After(R, c)
      BY <2>1, <2>2 DEF SameRow
    <3> QED
      BY <1>1, <1>5, <3>1
  <2>3. CASE u \in DOMAIN T
    <3>1. u \in DOMAIN R /\ R[u] = T[u]
      BY <2>3 DEF SameRow
    <3>2. PICK o \in RowOperation(T[u], c) : new = [T EXCEPT ![u] = o.row]
      BY <2>1, <2>3
    <3>3. [R EXCEPT ![u] = o.row] \in After(R, c)
      BY <2>1, <3>1, <3>2
    <3>4. /\ DOMAIN new = DOMAIN T /\ new[u] = o.row
          /\ \A v \in DOMAIN T : v # u => new[v] = T[v]
      BY <1>4, <2>3, <3>2
    <3>5. \A v : v # u => SameRow(new, T, v)
      BY <3>4 DEF SameRow
    <3>6. DOMAIN Put(R, new, u) = DOMAIN R
          /\ \A v \in DOMAIN R : Put(R, new, u)[v] = IF v = u THEN o.row ELSE R[v]
      BY <2>3, <3>1, <3>4 DEF Put
    <3>7. Put(R, new, u) \in [DOMAIN R -> Rows]
      BY <1>4, <3>6, MapFacts DEF Tablets
    <3>8. Put(R, new, u) = [R EXCEPT ![u] = o.row]
      BY <1>4, <3>1, <3>6, <3>7
    <3> QED
      BY <1>1, <3>3, <3>5, <3>8
  <2> QED
    BY <2>2, <2>3
<1> QED
  BY <1>1, <1>6, <1>7

(* What a write does depends on nothing else that changes: only on the     *)
(* scenario, which stays.                                                  *)
LEMMA AfterStays ==
  ASSUME scenario' = scenario
  PROVE  \A T, c : After(T, c)' = After(T, c)
<1> SUFFICES ASSUME NEW T, NEW c PROVE After(T, c)' = After(T, c)
  OBVIOUS
<1>1. ASSUME NEW row
      PROVE  /\ delete_file(row, c)' = delete_file(row, c)
             /\ delete_folder(row, c)' = delete_folder(row, c)
  <2>1. delete_file(row, c)' = delete_file(row, c)
    BY DEF delete_file, RemoveFromParent, Erased
  <2>2. delete_folder(row, c)' = delete_folder(row, c)
    BY DEF delete_folder, RemoveFromParent, Erased
  <2> QED
    BY <2>1, <2>2
<1>2. \A row : RowOperation(row, c)' = RowOperation(row, c)
  BY <1>1 DEF RowOperation
<1>3. OnRow(T, c)' = OnRow(T, c)
  BY <1>2 DEF OnRow
<1>4. Outcomes(T, c)' = Outcomes(T, c)
  BY <1>3 DEF Outcomes, UserCommand, MailCommand, FileCommand, FolderCommand, UnknownCommand
<1> QED
  BY <1>4 DEF After

\* The entry of a thread that has logged a command and not executed it.
Busy == {t \in Threads : pc[t] # "idle"}
Awaited(at, k) == \E t \in Busy : at[t] = k

\* A replay of the log that leaves out what is not executed yet.
Run(run, at) ==
  /\ run[0] = <<>> /\ run[Len(log)] = tablet
  /\ \A k \in 1 .. Len(log) :
       IF Awaited(at, k) THEN run[k] = run[k - 1] ELSE run[k] \in After(run[k - 1], log[k])

\* Where in the log the command of a thread is: nothing that comes after is
\* about its user.
Placed(run, at) ==
  \A t \in Busy :
    /\ at[t] \in 1 .. Len(log) /\ log[at[t]] = cmd[t]
    /\ \A k \in at[t] + 1 .. Len(log) : log[k].user # cmd[t].user
    /\ \A k \in at[t] - 1 .. Len(log) : SameRow(run[k], tablet, cmd[t].user)

Undeleted == \A i \in DOMAIN log : log[i].op # "delete"

LogInv ==
  /\ \A i \in DOMAIN log : log[i].op \in WriteOps
  /\ \A t \in Busy : cmd[t] \in Sends[scenario][t] /\ cmd[t].op \in WriteOps
  /\ alive /\ Undeleted =>
       \E run \in [0 .. Len(log) -> GoodTablets], at \in [Threads -> Nat] :
         Run(run, at) /\ Placed(run, at)

(* A thread that logs a command: the replay goes on to the same tablet.    *)
LEMMA WriteKeepsRun ==
  ASSUME OwnUsers, Inv, LogInv, alive, NEW t \in Threads, WriteEntry(t), Undeleted'
  PROVE  \E run \in [0 .. Len(log') -> GoodTablets], at \in [Threads -> Nat] :
           Run(run, at)' /\ Placed(run, at)'
<1>1. PICK c \in Sends[scenario][t] :
        c.op \in WriteOps /\ log' = Append(log, c) /\ cmd' = [cmd EXCEPT ![t] = c]
  BY DEF WriteEntry
<1>2. /\ pc[t] = "idle" /\ pc' = [pc EXCEPT ![t] = "written"] /\ tablet' = tablet
      /\ pc \in [Threads -> {"idle", "written", "counted"}]
      /\ cmd \in [Threads -> Requests \union {NoCommand}]
      /\ log \in Seq(Requests) /\ tablet \in GoodTablets
      /\ scenario \in Scenarios /\ scenario' = scenario
  BY DEF WriteEntry, Inv, ThreadsTyped, LogCounted, GoodTablets
<1>3. c \in Requests
  BY <1>1, <1>2, KeyValueAssumption DEF KeyValueAssumption
<1> DEFINE n == Len(log)
<1>4. /\ n \in Nat /\ Len(log') = n + 1 /\ log'[n + 1] = c
      /\ \A k \in 1 .. n : log'[k] = log[k]
      /\ DOMAIN log = 1 .. n /\ DOMAIN log' = 1 .. n + 1
  BY <1>1, <1>2, <1>3
<1>5. Undeleted
  BY <1>4 DEF Undeleted
<1>6. PICK run \in [0 .. n -> GoodTablets] : \E at \in [Threads -> Nat] :
        Run(run, at) /\ Placed(run, at)
  BY <1>5 DEF LogInv
<1>7. PICK at \in [Threads -> Nat] : Run(run, at) /\ Placed(run, at)
  BY <1>6
<1>8. PICK Run2 \in [0 .. n + 1 -> GoodTablets] :
        Run2[n + 1] = tablet /\ \A k \in 0 .. n : Run2[k] = run[k]
  <2> DEFINE f == [k \in 0 .. n + 1 |-> IF k = n + 1 THEN tablet ELSE run[k]]
  <2>1. f \in [0 .. n + 1 -> GoodTablets] /\ f[n + 1] = tablet /\ \A k \in 0 .. n : f[k] = run[k]
    BY <1>2, <1>4
  <2> HIDE DEF f
  <2> QED
    BY <2>1
<1>9. PICK At2 \in [Threads -> Nat] : At2[t] = n + 1 /\ \A r \in Threads \ {t} : At2[r] = at[r]
  <2> DEFINE f == [at EXCEPT ![t] = n + 1]
  <2>1. f \in [Threads -> Nat] /\ f[t] = n + 1 /\ \A r \in Threads \ {t} : f[r] = at[r]
    BY <1>4
  <2> HIDE DEF f
  <2> QED
    BY <2>1
<1>10. t \notin Busy /\ Busy' = Busy \union {t} /\ cmd'[t] = c
       /\ \A r \in Busy : cmd'[r] = cmd[r] /\ At2[r] = at[r] /\ at[r] \in 1 .. n
  BY <1>1, <1>2, <1>7, <1>9 DEF Busy, Placed
<1>11. Run(Run2, At2)'
  <2>1. Run2[0] = <<>> /\ run[n] = tablet
    BY <1>4, <1>7, <1>8 DEF Run
  <2>0. \A k : Awaited(At2, k)' <=> \E r \in Busy' : At2[r] = k
    BY DEF Awaited
  <2>2. \A k \in 1 .. n : Awaited(At2, k)' <=> Awaited(at, k)
    BY <1>4, <1>9, <1>10, <2>0 DEF Awaited
  <2>3. \A k : k = n + 1 => Awaited(At2, k)'
    BY <1>9, <1>10, <2>0
  <2>4. ASSUME NEW k \in 1 .. n + 1
        PROVE  IF Awaited(At2, k)' THEN Run2[k] = Run2[k - 1]
                 ELSE Run2[k] \in After(Run2[k - 1], log'[k])
    <3>1. CASE k = n + 1
      <4>1. Awaited(At2, k)'
        BY <2>3, <3>1
      <4>2. Run2[k] = Run2[k - 1]
        BY <1>4, <1>8, <2>1, <3>1
      <4> QED
        BY <4>1, <4>2
    <3>2. CASE k # n + 1
      <4>1. k \in 1 .. n /\ k - 1 \in 0 .. n /\ k \in 0 .. n
        BY <1>4, <3>2
      <4>2. IF Awaited(at, k) THEN run[k] = run[k - 1] ELSE run[k] \in After(run[k - 1], log[k])
        BY <1>7, <4>1 DEF Run
      <4> QED
        BY <1>4, <1>8, <2>2, <4>1, <4>2
    <3> QED
      BY <3>1, <3>2
  <2>5. \A T, d : After(T, d)' = After(T, d)
    BY <1>2, AfterStays
  <2>6. \A k \in 1 .. n + 1 :
          (IF Awaited(At2, k) THEN Run2[k] = Run2[k - 1]
             ELSE Run2[k] \in After(Run2[k - 1], log[k]))'
    BY <2>4, <2>5
  <2>7. (Run2[0] = <<>> /\ Run2[Len(log)] = tablet)'
    BY <1>2, <1>4, <1>8, <2>1
  <2> QED
    BY <1>4, <2>6, <2>7 DEF Run
<1>12. Placed(Run2, At2)'
  <2>1. ASSUME NEW r \in Busy PROVE cmd[r].user # c.user
    <3>1. cmd[r] \in Sends[scenario][r] /\ cmd[r].op \in WriteOps /\ r \in Threads /\ r # t
      BY <1>10 DEF LogInv, Busy
    <3> QED
      BY <1>1, <1>2, <3>1 DEF OwnUsers
  <2> SUFFICES ASSUME NEW r \in Busy \union {t}
               PROVE  /\ At2[r] \in 1 .. n + 1 /\ log'[At2[r]] = cmd'[r]
                      /\ \A k \in At2[r] + 1 .. n + 1 : log'[k].user # cmd'[r].user
                      /\ \A k \in At2[r] - 1 .. n + 1 : SameRow(Run2[k], tablet, cmd'[r].user)
    BY <1>2, <1>4, <1>10 DEF Placed, SameRow
  <2>2. CASE r = t
    <3>1. run[n] = tablet
      BY <1>7 DEF Run
    <3>2. \A k \in n .. n + 1 : Run2[k] = tablet
      BY <1>4, <1>8, <3>1
    <3> QED
      BY <1>4, <1>9, <1>10, <2>2, <3>2 DEF SameRow
  <2>3. CASE r \in Busy
    <3>1. /\ at[r] \in 1 .. n /\ log[at[r]] = cmd[r]
          /\ \A k \in at[r] + 1 .. n : log[k].user # cmd[r].user
          /\ \A k \in at[r] - 1 .. n : SameRow(run[k], tablet, cmd[r].user)
      BY <1>7, <2>3 DEF Placed
    <3>2. At2[r] = at[r] /\ cmd'[r] = cmd[r]
      BY <1>10, <2>3
    <3>3. At2[r] \in 1 .. n + 1 /\ log'[At2[r]] = cmd'[r]
      BY <1>4, <3>1, <3>2
    <3>4. ASSUME NEW k \in at[r] + 1 .. n + 1 PROVE log'[k].user # cmd[r].user
      <4>1. CASE k = n + 1
        BY <1>4, <2>1, <2>3, <4>1
      <4>2. CASE k # n + 1
        <5>1. k \in 1 .. n /\ k \in at[r] + 1 .. n
          BY <1>4, <3>1, <4>2
        <5> QED
          BY <1>4, <3>1, <5>1
      <4> QED
        BY <4>1, <4>2
    <3>5. ASSUME NEW k \in at[r] - 1 .. n + 1 PROVE SameRow(Run2[k], tablet, cmd[r].user)
      <4>1. CASE k = n + 1
        BY <1>8, <4>1 DEF SameRow
      <4>2. CASE k # n + 1
        <5>1. k \in 0 .. n /\ k \in at[r] - 1 .. n
          BY <1>4, <3>1, <4>2
        <5> QED
          BY <1>8, <3>1, <5>1
      <4> QED
        BY <4>1, <4>2
    <3> QED
      BY <3>2, <3>3, <3>4, <3>5
  <2> QED
    BY <2>2, <2>3
<1> QED
  BY <1>4, <1>8, <1>9, <1>11, <1>12

(* A thread that executes its command: the replay that does not leave its  *)
(* entry out changes the row of its user from there on, and nothing else,  *)
(* since no entry that follows is about that user.                         *)
LEMMA ExecuteKeepsRun ==
  ASSUME OwnUsers, EnoughRoom, Inv, LogInv, alive, Undeleted, NEW t \in Threads, Execute(t)
  PROVE  \E run \in [0 .. Len(log') -> GoodTablets], at \in [Threads -> Nat] :
           Run(run, at)' /\ Placed(run, at)'
<1> DEFINE n == Len(log)
<1>1. /\ pc[t] = "counted" /\ pc' = [pc EXCEPT ![t] = "idle"] /\ log' = log
      /\ cmd' = [cmd EXCEPT ![t] = NoCommand] /\ scenario' = scenario
      /\ tablet' \in After(tablet, cmd[t])
  BY DEF Execute, After
<1>2. /\ pc \in [Threads -> {"idle", "written", "counted"}]
      /\ cmd \in [Threads -> Requests \union {NoCommand}]
      /\ log \in Seq(Requests) /\ tablet \in GoodTablets /\ scenario \in Scenarios
      /\ n \in Nat /\ DOMAIN log = 1 .. n
  BY DEF Inv, ThreadsTyped, LogCounted, GoodTablets
<1>3. /\ t \in Busy /\ Busy' = Busy \ {t} /\ \A r \in Busy' : cmd'[r] = cmd[r]
  BY <1>1, <1>2 DEF Busy
<1>4. PICK run \in [0 .. n -> GoodTablets] : \E at \in [Threads -> Nat] :
        Run(run, at) /\ Placed(run, at)
  BY DEF LogInv
<1>5. PICK at \in [Threads -> Nat] : Run(run, at) /\ Placed(run, at)
  BY <1>4
<1>6. PICK c : c = cmd[t]
  OBVIOUS
<1>7. PICK T2 : T2 = tablet'
  OBVIOUS
<1> DEFINE i == at[t]
           u == c.user
<1>8. /\ i \in 1 .. n /\ log[i] = c
      /\ \A k \in i + 1 .. n : log[k].user # u
      /\ \A k \in i - 1 .. n : SameRow(run[k], tablet, u)
  BY <1>3, <1>5, <1>6 DEF Placed
<1>9. \A k \in 1 .. n : log[k] \in Logged
  <2>1. \A k \in 1 .. n : log[k] \in Requests
    BY <1>2
  <2>2. \A k \in 1 .. n : log[k].op \in WriteOps
    BY <1>2 DEF LogInv
  <2>3. \A k \in 1 .. n : log[k].op # "delete"
    BY <1>2 DEF Undeleted
  <2> QED
    BY <2>1, <2>2, <2>3 DEF Logged
<1>10. c \in Logged
  BY <1>8, <1>9
<1>11. \A r \in Busy' : cmd[r].user # u
  <2> SUFFICES ASSUME NEW r \in Busy' PROVE cmd[r].user # u
    OBVIOUS
  <2>1. /\ cmd[r] \in Sends[scenario][r] /\ cmd[r].op \in WriteOps /\ r \in Threads /\ r # t
        /\ c \in Sends[scenario][t] /\ c.op \in WriteOps
    BY <1>3, <1>6 DEF LogInv, Busy
  <2> QED
    BY <1>2, <2>1 DEF OwnUsers
<1>12. T2 \in GoodTablets /\ \A v : v # u => SameRow(T2, tablet, v)
  <2>1. SameRow(tablet, tablet, c.user) /\ T2 \in After(tablet, c)
    BY <1>1, <1>6, <1>7 DEF SameRow
  <2> QED
    BY <1>2, <1>10, <2>1, WriteIsLocal
<1>13. \A k \in 0 .. n :
         /\ run[k] \in GoodTablets /\ Put(run[k], T2, u) \in GoodTablets
         /\ SameRow(Put(run[k], T2, u), T2, u)
         /\ \A v : v # u => SameRow(Put(run[k], T2, u), run[k], v)
  BY <1>12, PutFacts
<1>14. PICK run2 \in [0 .. n -> GoodTablets] :
         /\ \A k \in 0 .. i - 1 : run2[k] = run[k]
         /\ \A k \in i .. n : run2[k] = Put(run[k], T2, u)
  <2> DEFINE f == [k \in 0 .. n |-> IF k < i THEN run[k] ELSE Put(run[k], T2, u)]
  <2> HIDE DEF i, u
  <2>1. f \in [0 .. n -> GoodTablets]
    BY <1>13
  <2>2. /\ \A k \in 0 .. i - 1 : f[k] = run[k]
        /\ \A k \in i .. n : f[k] = Put(run[k], T2, u)
    BY <1>2, <1>8
  <2> HIDE DEF f
  <2> QED
    BY <2>1, <2>2
<1> HIDE DEF i, u
<1>15. Run(run2, at)'
  <2>1. (run2[0] = <<>> /\ run2[Len(log)] = tablet)'
    <3>1. 0 \in 0 .. i - 1 /\ n \in i .. n /\ n \in 0 .. n
      BY <1>2, <1>8
    <3>2. run2[0] = <<>>
      BY <1>5, <1>14, <3>1 DEF Run
    <3>3. run2[n] = Put(tablet, T2, u) /\ run[n] = tablet
      BY <1>5, <1>14, <3>1 DEF Run
    <3>4. /\ Put(tablet, T2, u) \in GoodTablets /\ SameRow(Put(tablet, T2, u), T2, u)
          /\ \A v : v # u => SameRow(Put(tablet, T2, u), tablet, v)
      BY <1>13, <3>1, <3>3
    <3>5. \A v : SameRow(Put(tablet, T2, u), T2, v)
      BY <1>12, <3>4 DEF SameRow
    <3>6. Put(tablet, T2, u) = T2
      BY <1>12, <3>4, <3>5, SameRows DEF GoodTablets
    <3> QED
      BY <1>1, <1>7, <3>2, <3>3, <3>6
  <2>2. \A k : Awaited(at, k)' <=> \E r \in Busy' : at[r] = k
    BY DEF Awaited
  <2>3. \A k : k # i => (Awaited(at, k)' <=> Awaited(at, k))
    BY <1>3, <2>2 DEF Awaited, i
  <2>4. \A k : k = i => ~Awaited(at, k)' /\ Awaited(at, k)
    <3>1. ASSUME NEW r \in Busy', at[r] = i PROVE FALSE
      <4>1. log[at[r]] = cmd[r]
        BY <1>3, <1>5 DEF Placed
      <4> QED
        BY <1>8, <1>11, <3>1, <4>1 DEF u
    <3>2. \A k : k = i => Awaited(at, k)
      BY <1>3 DEF Awaited, i
    <3> QED
      BY <2>2, <3>1, <3>2
  <2>5. ASSUME NEW k \in 1 .. n
        PROVE  IF Awaited(at, k)' THEN run2[k] = run2[k - 1]
                 ELSE run2[k] \in After(run2[k - 1], log[k])
    <3>1. IF Awaited(at, k) THEN run[k] = run[k - 1] ELSE run[k] \in After(run[k - 1], log[k])
      BY <1>5 DEF Run
    <3>2. CASE k < i
      <4>1. run2[k] = run[k] /\ run2[k - 1] = run[k - 1]
        BY <1>2, <1>8, <1>14, <3>2
      <4>2. k # i
        BY <1>2, <1>8, <3>2
      <4> QED
        BY <2>3, <3>1, <4>1, <4>2
    <3>3. CASE k = i
      <4>1. run[k] = run[k - 1]
        BY <2>4, <3>1, <3>3
      <4>2. run2[k] = Put(run[k - 1], T2, u) /\ run2[k - 1] = run[k - 1] /\ k - 1 \in 0 .. n
        BY <1>2, <1>8, <1>14, <3>3, <4>1
      <4>3. SameRow(tablet, run[k - 1], u)
        <5>1. k - 1 \in i - 1 .. n
          BY <1>2, <1>8, <3>3
        <5>2. SameRow(run[k - 1], tablet, u)
          BY <1>8, <5>1
        <5> QED
          BY <5>2 DEF SameRow
      <4>4. T2 \in After(tablet, c) /\ run[k - 1] \in GoodTablets
        BY <1>1, <1>6, <1>7, <1>13, <4>2
      <4>5. Put(run[k - 1], T2, u) \in After(run[k - 1], c)
        BY <1>2, <1>10, <4>3, <4>4, WriteIsLocal DEF u
      <4> QED
        BY <1>8, <2>4, <3>3, <4>2, <4>5
    <3>4. CASE k > i
      <4>1. /\ run2[k] = Put(run[k], T2, u) /\ run2[k - 1] = Put(run[k - 1], T2, u)
            /\ k \in 0 .. n /\ k - 1 \in 0 .. n /\ k # i /\ k \in i + 1 .. n
        BY <1>2, <1>8, <1>14, <3>4
      <4>2. CASE Awaited(at, k)
        BY <2>3, <3>1, <4>1, <4>2
      <4>3. CASE ~Awaited(at, k)
        <5>1. PICK d \in Logged : d = log[k]
          BY <1>9
        <5> DEFINE v == d.user
        <5>2. v # u
          BY <1>8, <4>1, <5>1
        <5>3. PICK T \in GoodTablets : T = run[k - 1]
          BY <1>13, <4>1
        <5>4. PICK new \in GoodTablets : new = run[k]
          BY <1>13, <4>1
        <5>5. PICK R \in GoodTablets : R = Put(T, T2, u)
          BY <1>13, <4>1, <5>3
        <5>6. SameRow(R, T2, u) /\ \A w : w # u => SameRow(R, T, w)
          BY <1>13, <4>1, <5>3, <5>5
        <5>7. new \in After(T, d) /\ SameRow(T, R, v)
          BY <3>1, <4>3, <5>1, <5>2, <5>3, <5>4, <5>6 DEF SameRow
        <5>8. Put(R, new, v) \in After(R, d) /\ \A w : w # v => SameRow(new, T, w)
          BY <5>7, WriteIsLocal
        <5>9. PICK A \in GoodTablets :
                /\ A = Put(R, new, v) /\ SameRow(A, new, v)
                /\ \A w : w # v => SameRow(A, R, w)
          BY PutFacts
        <5>10. PICK B \in GoodTablets :
                 /\ B = Put(new, T2, u) /\ SameRow(B, T2, u)
                 /\ \A w : w # u => SameRow(B, new, w)
          BY <1>12, PutFacts
        <5> HIDE DEF v
        <5>11. ASSUME NEW w PROVE SameRow(A, B, w)
          <6>1. CASE w = v
            BY <5>2, <5>9, <5>10, <6>1 DEF SameRow
          <6>2. CASE w = u
            BY <5>2, <5>6, <5>9, <5>10, <6>2 DEF SameRow
          <6>3. CASE w # u /\ w # v
            <7>1. SameRow(A, R, w) /\ SameRow(R, T, w) /\ SameRow(new, T, w) /\ SameRow(B, new, w)
              BY <5>6, <5>8, <5>9, <5>10, <6>3
            <7> QED
              BY <7>1 DEF SameRow
          <6> QED
            BY <6>1, <6>2, <6>3
        <5>12. A = B
          BY <5>11, SameRows DEF GoodTablets
        <5>13. run2[k] = B /\ run2[k - 1] = R
          BY <4>1, <5>3, <5>4, <5>5, <5>10
        <5> QED
          BY <2>3, <4>1, <4>3, <5>1, <5>8, <5>9, <5>12, <5>13
      <4> QED
        BY <4>2, <4>3
    <3> QED
      BY <1>2, <1>8, <3>2, <3>3, <3>4
  <2>6. \A T, d : After(T, d)' = After(T, d)
    BY <1>1, AfterStays
  <2>7. \A k \in 1 .. n :
          (IF Awaited(at, k) THEN run2[k] = run2[k - 1]
             ELSE run2[k] \in After(run2[k - 1], log[k]))'
    BY <1>1, <2>5, <2>6
  <2> QED
    BY <1>1, <2>1, <2>7 DEF Run
<1>16. Placed(run2, at)'
  <2> SUFFICES ASSUME NEW r \in Busy'
               PROVE  /\ at[r] \in 1 .. n /\ log[at[r]] = cmd[r]
                      /\ \A k \in at[r] + 1 .. n : log[k].user # cmd[r].user
                      /\ \A k \in at[r] - 1 .. n : SameRow(run2[k], T2, cmd[r].user)
    BY <1>1, <1>3, <1>7 DEF Placed, SameRow
  <2>1. /\ at[r] \in 1 .. n /\ log[at[r]] = cmd[r]
        /\ \A k \in at[r] + 1 .. n : log[k].user # cmd[r].user
        /\ \A k \in at[r] - 1 .. n : SameRow(run[k], tablet, cmd[r].user)
    BY <1>3, <1>5 DEF Placed
  <2>2. PICK v : v = cmd[r].user
    OBVIOUS
  <2>3. v # u /\ SameRow(T2, tablet, v)
    BY <1>11, <1>12, <2>2 DEF u
  <2>4. ASSUME NEW k \in at[r] - 1 .. n PROVE SameRow(run2[k], T2, v)
    <3>1. k \in 0 .. n /\ (k \in 0 .. i - 1 \/ k \in i .. n)
      BY <1>2, <1>8, <2>1
    <3>2. SameRow(run[k], tablet, v)
      BY <2>1, <2>2
    <3>3. SameRow(run2[k], run[k], v)
      <4>1. SameRow(run[k], run[k], v) /\ SameRow(Put(run[k], T2, u), run[k], v)
        BY <1>13, <2>3, <3>1 DEF SameRow
      <4> QED
        BY <1>14, <3>1, <4>1
    <3> QED
      BY <2>3, <3>2, <3>3 DEF SameRow
  <2> QED
    BY <2>1, <2>2, <2>4
<1> QED
  BY <1>1, <1>15, <1>16

(* The recursive function in replay_log exists: were there a number up to  *)
(* which it does not, the smallest would be one more than one up to which  *)
(* it does.                                                                *)
LEMMA ReplaySteps ==
  ASSUME NEW entries, Len(entries) \in Nat
  PROVE  \E f : /\ replay_log(entries) = f[Len(entries)] /\ f[0] = {<<>>}
               /\ \A k \in 1 .. Len(entries) :
                    f[k] = UNION {ReplayEntry(T, entries[k]) : T \in f[k - 1]}
<1> DEFINE n == Len(entries)
           Step(k, S) == UNION {ReplayEntry(T, entries[k]) : T \in S}
           Of(m, f) == f = [k \in 0 .. m |-> IF k = 0 THEN {<<>>} ELSE Step(k, f[k - 1])]
           There(m) == \E f : Of(m, f)
           Missing == {m \in 0 .. n : ~There(m)}
<1> HIDE DEF Step
<1>1. There(0)
  <2>1. Of(0, [k \in 0 .. 0 |-> {<<>>}])
    OBVIOUS
  <2> QED
    BY <2>1
<1>2. ASSUME NEW m \in 0 .. n, m # n, NEW g, Of(m, g)
      PROVE  There(m + 1)
  <2> DEFINE f == [k \in 0 .. m + 1 |-> IF k = m + 1 THEN Step(k, g[m]) ELSE g[k]]
  <2>1. \A k \in 0 .. m : g[k] = IF k = 0 THEN {<<>>} ELSE Step(k, g[k - 1])
    BY <1>2
  <2>2. ASSUME NEW k \in 0 .. m + 1
        PROVE  f[k] = IF k = 0 THEN {<<>>} ELSE Step(k, f[k - 1])
    <3>1. CASE k = m + 1
      BY <3>1
    <3>2. CASE k # m + 1
      BY <2>1, <3>2
    <3> QED
      BY <3>1, <3>2
  <2>3. f = [k \in 0 .. m + 1 |-> f[k]]
    OBVIOUS
  <2> HIDE DEF f
  <2>4. f = [k \in 0 .. m + 1 |-> IF k = 0 THEN {<<>>} ELSE Step(k, f[k - 1])]
    BY <2>2, <2>3
  <2> QED
    BY <2>4
<1>3. \A m \in 0 .. n : m # n /\ There(m) => There(m + 1)
  BY <1>2
<1>4. There(n)
  <2> HIDE DEF There
  <2> SUFFICES ASSUME Missing # {} PROVE FALSE
    OBVIOUS
  <2>1. Missing \in SUBSET Nat
    OBVIOUS
  <2>2. PICK m \in Missing : \A j \in Missing : m <= j
    <3> HIDE DEF Missing
    <3> QED
      BY <2>1, Smallest
  <2>3. m \in 1 .. n /\ ~There(m)
    BY <1>1, <2>2
  <2>4. m - 1 \in 0 .. n /\ m - 1 # n /\ m - 1 + 1 = m /\ ~(m <= m - 1)
    BY <2>3
  <2>5. There(m - 1)
    BY <2>2, <2>4
  <2> QED
    BY <1>3, <2>3, <2>4, <2>5
<1>5. Of(n, CHOOSE f : Of(n, f))
  BY <1>4
<1>6. replay_log(entries) = (CHOOSE f : Of(n, f))[n]
  BY DEF replay_log, Step
<1>7. PICK f : f = CHOOSE g : Of(n, g)
  OBVIOUS
<1>8. Of(n, f) /\ replay_log(entries) = f[n]
  BY <1>5, <1>6, <1>7
<1>9. \A k \in 0 .. n : f[k] = IF k = 0 THEN {<<>>} ELSE Step(k, f[k - 1])
  BY <1>8
<1> QED
  BY <1>8, <1>9 DEF Step

(* A replay that leaves nothing out is one of replay_log: the smallest     *)
(* entry after which it would not be cannot be.                            *)
LEMMA RunIsReplay ==
  ASSUME Inv, LogInv, alive, Undeleted, Busy = {}
  PROVE  tablet \in replay_log(log)
<1> DEFINE n == Len(log)
<1>1. log \in Seq(Requests) /\ n \in Nat /\ DOMAIN log = 1 .. n
  BY DEF Inv, LogCounted
<1>2. PICK run \in [0 .. n -> GoodTablets] : \E at \in [Threads -> Nat] :
        Run(run, at) /\ Placed(run, at)
  BY DEF LogInv
<1>3. PICK at \in [Threads -> Nat] : Run(run, at)
  BY <1>2
<1>4. PICK f : /\ replay_log(log) = f[n] /\ f[0] = {<<>>}
               /\ \A k \in 1 .. n : f[k] = UNION {ReplayEntry(T, log[k]) : T \in f[k - 1]}
  BY <1>1, ReplaySteps
<1>5. \A k \in 1 .. n : run[k - 1] \in f[k - 1] => run[k] \in f[k]
  <2> SUFFICES ASSUME NEW k \in 1 .. n, run[k - 1] \in f[k - 1] PROVE run[k] \in f[k]
    OBVIOUS
  <2>1. ~Awaited(at, k)
    BY DEF Awaited
  <2>2. run[k] \in After(run[k - 1], log[k])
    BY <1>3, <2>1 DEF Run
  <2>3. log[k].op # "delete"
    BY <1>1 DEF Undeleted
  <2>4. run[k] \in ReplayEntry(run[k - 1], log[k])
    BY <2>2, <2>3 DEF ReplayEntry, After
  <2> QED
    BY <1>4, <2>4
<1> DEFINE Missing == {k \in 0 .. n : run[k] \notin f[k]}
<1>6. Missing = {}
  <2> SUFFICES ASSUME Missing # {} PROVE FALSE
    OBVIOUS
  <2>1. Missing \in SUBSET Nat
    OBVIOUS
  <2>2. PICK m \in Missing : \A j \in Missing : m <= j
    <3> HIDE DEF Missing
    <3> QED
      BY <2>1, Smallest
  <2>3. m # 0
    BY <1>3, <1>4, <2>2 DEF Run
  <2>4. m \in 1 .. n /\ m - 1 \in 0 .. n /\ ~(m <= m - 1)
    BY <1>1, <2>2, <2>3
  <2>5. run[m - 1] \in f[m - 1]
    BY <2>2, <2>4
  <2> QED
    BY <1>5, <2>2, <2>4, <2>5
<1>7. run[n] \in f[n]
  BY <1>1, <1>6
<1> QED
  BY <1>3, <1>4, <1>7 DEF Run

(* The empty log is replayed to the empty tablet.                          *)
LEMMA LogInit == Init => LogInv
<1> SUFFICES ASSUME Init PROVE LogInv
  OBVIOUS
<1>1. log = <<>> /\ tablet = <<>> /\ Busy = {} /\ Len(log) = 0
  BY DEF Init, Busy
<1>2. tablet \in GoodTablets
  BY InvInit DEF Inv, GoodTablets
<1>3. PICK run \in [0 .. 0 -> GoodTablets] : run[0] = tablet
  <2> DEFINE f == [k \in 0 .. 0 |-> tablet]
  <2>1. f \in [0 .. 0 -> GoodTablets] /\ f[0] = tablet
    BY <1>2
  <2> QED
    BY <2>1
<1>4. PICK at \in [Threads -> Nat] : TRUE
  <2>1. [t \in Threads |-> 0] \in [Threads -> Nat]
    OBVIOUS
  <2> QED
    BY <2>1
<1>5. Run(run, at) /\ Placed(run, at)
  BY <1>1, <1>3 DEF Run, Placed
<1> QED
  BY <1>1, <1>3, <1>4, <1>5 DEF LogInv

(* Every step keeps the replay in step with the tablet.                    *)
LEMMA LogStep ==
  ASSUME OwnUsers, EnoughRoom, Inv, LogInv, [Next]_vars
  PROVE  LogInv'
<1>0. /\ pc \in [Threads -> {"idle", "written", "counted"}]
      /\ cmd \in [Threads -> Requests \union {NoCommand}]
      /\ log \in Seq(Requests) /\ scenario \in Scenarios
      /\ \A k \in DOMAIN log : log[k].op \in WriteOps
      /\ \A r \in Busy : cmd[r] \in Sends[scenario][r] /\ cmd[r].op \in WriteOps
  BY DEF Inv, ThreadsTyped, LogCounted, LogInv
<1>1. ASSUME Busy' = Busy, UNCHANGED <<tablet, log, cmd, scenario>>, alive' => alive
      PROVE  LogInv'
  <2>1. Undeleted' <=> Undeleted
    BY <1>1 DEF Undeleted
  <2>2. \A T, d : After(T, d)' = After(T, d)
    BY <1>1, AfterStays
  <2>3. ASSUME alive', Undeleted'
        PROVE  \E run \in [0 .. Len(log') -> GoodTablets], at \in [Threads -> Nat] :
                 Run(run, at)' /\ Placed(run, at)'
    <3>1. PICK run \in [0 .. Len(log) -> GoodTablets] : \E at \in [Threads -> Nat] :
            Run(run, at) /\ Placed(run, at)
      BY <1>1, <2>1, <2>3 DEF LogInv
    <3>2. PICK at \in [Threads -> Nat] : Run(run, at) /\ Placed(run, at)
      BY <3>1
    <3>3. \A k : Awaited(at, k)' <=> Awaited(at, k)
      BY <1>1 DEF Awaited
    <3>4. Run(run, at)'
      BY <1>1, <2>2, <3>2, <3>3 DEF Run
    <3>5. Placed(run, at)'
      BY <1>1, <3>2 DEF Placed, SameRow
    <3> QED
      BY <1>1, <3>4, <3>5
  <2> QED
    BY <1>0, <1>1, <2>3 DEF LogInv
<1>2. ASSUME NEW t \in Threads, WriteEntry(t) PROVE LogInv'
  <2>1. PICK c \in Sends[scenario][t] :
          c.op \in WriteOps /\ log' = Append(log, c) /\ cmd' = [cmd EXCEPT ![t] = c]
    BY <1>2 DEF WriteEntry
  <2>2. alive /\ pc[t] = "idle" /\ pc' = [pc EXCEPT ![t] = "written"] /\ scenario' = scenario
    BY <1>2 DEF WriteEntry
  <2>3. c \in Requests
    BY <1>0, <2>1, KeyValueAssumption DEF KeyValueAssumption
  <2>4. \A k \in DOMAIN log' : log'[k].op \in WriteOps
    BY <1>0, <2>1, <2>3
  <2>5. Busy' = Busy \union {t} /\ t \notin Busy /\ cmd'[t] = c /\ \A r \in Busy : cmd'[r] = cmd[r]
    BY <1>0, <2>1, <2>2 DEF Busy
  <2>6. \A r \in Busy' : cmd'[r] \in Sends[scenario][r] /\ cmd'[r].op \in WriteOps
    BY <1>0, <2>1, <2>5
  <2> QED
    BY <1>2, <2>2, <2>4, <2>6, WriteKeepsRun DEF LogInv
<1>3. ASSUME NEW t \in Threads, CountEntry(t) PROVE LogInv'
  <2>1. Busy' = Busy
    BY <1>0, <1>3 DEF CountEntry, Busy
  <2> QED
    BY <1>1, <1>3, <2>1 DEF CountEntry
<1>4. ASSUME NEW t \in Threads, Execute(t) PROVE LogInv'
  <2>1. /\ alive /\ pc' = [pc EXCEPT ![t] = "idle"] /\ cmd' = [cmd EXCEPT ![t] = NoCommand]
        /\ log' = log /\ scenario' = scenario
    BY <1>4 DEF Execute
  <2>2. Busy' \subseteq Busy /\ \A r \in Busy' : cmd'[r] = cmd[r]
    BY <1>0, <2>1 DEF Busy
  <2>3. Undeleted' <=> Undeleted
    BY <2>1 DEF Undeleted
  <2>4. /\ \A k \in DOMAIN log' : log'[k].op \in WriteOps
        /\ \A r \in Busy' : cmd'[r] \in Sends[scenario'][r] /\ cmd'[r].op \in WriteOps
    BY <1>0, <2>1, <2>2
  <2> QED
    BY <1>4, <2>1, <2>3, <2>4, ExecuteKeepsRun DEF LogInv
<1>5. ASSUME NEW t \in Threads, Die(t) \/ Read(t) PROVE LogInv'
  <2>1. alive /\ UNCHANGED <<tablet, log, pc, cmd, scenario>>
    BY <1>5 DEF Die, Read
  <2>2. Busy' = Busy
    BY <2>1 DEF Busy
  <2> QED
    BY <1>1, <2>1, <2>2
<1>6. CASE UNCHANGED vars
  <2>1. UNCHANGED <<tablet, log, pc, cmd, scenario, alive>>
    BY <1>6 DEF vars
  <2>2. Busy' = Busy
    BY <2>1 DEF Busy
  <2> QED
    BY <1>1, <2>1, <2>2
<1> QED
  BY <1>2, <1>3, <1>4, <1>5, <1>6 DEF Next

(* When no thread is at work every entry of the log file is counted.       *)
LEMMA ReplayFromLog == Inv /\ LogInv => ReplayAgrees
<1> SUFFICES ASSUME Inv, LogInv, alive, \A t \in Threads : pc[t] = "idle",
                    NEW counted, counted = SubSeq(log, 1, log_sequence_no),
                    \A i \in DOMAIN counted : counted[i].op # "delete"
             PROVE  tablet \in replay_log(counted)
  BY DEF ReplayAgrees
<1>1. Written = {} /\ Busy = {}
  BY DEF Written, Busy
<1>2. log \in Seq(Requests) /\ Len(log) \in Nat /\ log_sequence_no = Len(log)
  <2>1. Cardinality(Written) = 0
    BY <1>1, FS_EmptySet
  <2> QED
    BY <2>1 DEF Inv, LogCounted
<1>3. counted = log
  BY <1>2
<1> QED
  BY <1>1, <1>3, RunIsReplay DEF Undeleted

(* With no command under way a replay of the log file can rebuild the      *)
(* tablet, although threads log and execute in different orders, where     *)
(* each thread writes rows of its own, the tablet has room for all users   *)
(* and no user was deleted (process_command, replay_log).                  *)
THEOREM ReplayAgreesAlways ==
  ASSUME OwnUsers, EnoughRoom
  PROVE  Spec => []ReplayAgrees
<1>1. Init => Inv /\ LogInv
  BY InvInit, LogInit
<1>2. Inv /\ LogInv /\ [Next]_vars => (Inv /\ LogInv)'
  BY InvNext, LogStep
<1> QED
  BY <1>1, <1>2, ReplayFromLog, PTL DEF Spec
=============================================================================
