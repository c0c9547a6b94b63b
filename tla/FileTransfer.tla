----------------------------- MODULE FileTransfer -----------------------------
(***************************************************************************)
(* A file on its way through a front end to a storage server and back:     *)
(* upload_next_part and sendChunk cut it into chunks, store_file puts them *)
(* together, get_file_data sends them, download_file_chunk and handleGET   *)
(* pass them to the browser.  Here the bytes matter; KeyValue has the      *)
(* columns and FrontEnd the connections.                                   *)
(*                                                                         *)
(* Abstractions.  One thread of the front end has the connection to        *)
(* itself.  A file is a sequence of bytes; "crlf" stands for the two       *)
(* bytes of a line end.  A structure is read whole.  What strncpy writes   *)
(* past a response stays within its last two fields, and the heap block    *)
(* that realloc gives still has the old bytes, with a zero after them.     *)
(***************************************************************************)
EXTENDS Integers, Sequences, SequencesExt

CONSTANTS
  Bytes,
  Files,          \* the files a browser may upload
  CHUNK_SIZE,
  Modulus,        \* uint64_t counts modulo this
  SocketBuffer,   \* responses that fit the connection before send blocks
  Undefined,      \* "stack": what the code leaves unset is not zero
  MaxDownloads    \* bound

ASSUME FileTransferAssumption ==
  /\ CHUNK_SIZE \in Nat \ {0} /\ SocketBuffer \in Nat \ {0} /\ MaxDownloads \in Nat
  /\ Modulus \in Nat /\ Modulus % CHUNK_SIZE = 0
  /\ Files \subseteq Seq(Bytes) /\ \A f \in Files : Len(f) < Modulus
  /\ Undefined \subseteq {"stack"}

Nul == "0"
Junk == "?"
NoFile == [there |-> FALSE, file_len |-> 0, file_data |-> <<>>]

VARIABLES
  upc, source, data, chunk_id,  \* the upload: place, the browser's file, what is cut from the form, chunks sent
  request,                      \* the put_file_request on the way, as a sequence of none or one
  file,                         \* the column of the file
  dpc, received, downloads,     \* the download: place, what the browser got, downloads so far
  asked, sending, bytes_sent,   \* get_file_request on the way; get_file_data: in its loop, and how far
  responses                     \* the responses on the connection

upVars == <<upc, source, data, chunk_id, request>>
downVars == <<dpc, received, downloads, asked, sending, bytes_sent, responses>>
fileVars == <<upVars, file, downVars>>

FileInit ==
  /\ upc = "form" /\ source = <<>> /\ data = <<>> /\ chunk_id = 0 /\ request = <<>>
  /\ file = NoFile
  /\ dpc = "none" /\ received = <<>> /\ downloads = 0
  /\ asked = FALSE /\ sending = FALSE /\ bytes_sent = 0
  /\ responses = <<>>

-----------------------------------------------------------------------------
(* Upload.                                                                 *)

\* The data of a part ends at its first line end.
UpTo(s, b) ==
  LET ends == {i \in DOMAIN s : s[i] = b}
  IN  IF ends = {} THEN s ELSE SubSeq(s, 1, Min(ends) - 1)

\* upload_next_part reads the form and finds the file in it.
ReadPart(f) ==
  /\ upc = "form"
  /\ source' = f /\ data' = UpTo(f, "crlf")
  /\ upc' = "send"
  /\ UNCHANGED <<chunk_id, request, file, downVars>>

\* Mutant: a rest as long as a chunk is sent twice.
LastChunkLate == Len(data) - chunk_id * CHUNK_SIZE < CHUNK_SIZE

LastChunk == Len(data) - chunk_id * CHUNK_SIZE <= CHUNK_SIZE

\* sendChunk, in the loop or after it.
sendChunk ==
  /\ upc = "send"
  /\ request' = <<SubSeq(data, chunk_id * CHUNK_SIZE + 1,
                         IF LastChunk THEN Len(data) ELSE (chunk_id + 1) * CHUNK_SIZE)>>
  /\ upc' = IF LastChunk THEN "last" ELSE "confirm"
  /\ UNCHANGED <<source, data, chunk_id, file, downVars>>

\* Mutant: the length of the file is the length of the last chunk.
AppendedShort(old, chunk) ==
  [old EXCEPT !.file_len = Len(chunk), !.file_data = Append(Front(@ \o chunk), Nul)]

\* snprintf into as many bytes as the file now has keeps the last one for the
\* zero, unless there is nothing to print.
Appended(old, chunk) ==
  [old EXCEPT !.file_len = @ + Len(chunk),
              !.file_data = IF @ \o chunk = <<>> THEN <<>> ELSE Append(Front(@ \o chunk), Nul)]

store_file ==
  /\ request # <<>>
  /\ file' = IF file.there THEN Appended(file, request[1])
               ELSE [there |-> TRUE, file_len |-> Len(request[1]), file_data |-> request[1]]
  /\ request' = <<>>
  /\ upc' = IF upc = "last" THEN "stored" ELSE "confirmed"
  /\ UNCHANGED <<source, data, chunk_id, downVars>>

Confirmed ==
  /\ upc \in {"confirmed", "stored"}
  /\ upc' = IF upc = "stored" THEN "done" ELSE "send"
  /\ chunk_id' = IF upc = "stored" THEN chunk_id ELSE chunk_id + 1
  /\ UNCHANGED <<source, data, request, file, downVars>>

-----------------------------------------------------------------------------
(* Download.                                                               *)

\* request_file_download finds the file in its folder and asks for it.
request_file_download ==
  /\ upc = "done" /\ dpc \in {"none", "done"} /\ downloads < MaxDownloads
  /\ dpc' = "read" /\ received' = <<>> /\ downloads' = downloads + 1
  /\ asked' = TRUE
  /\ UNCHANGED <<upVars, file, sending, bytes_sent, responses>>

get_file_data ==
  /\ asked /\ ~sending
  /\ asked' = FALSE /\ sending' = TRUE /\ bytes_sent' = 0
  /\ UNCHANGED <<upVars, file, dpc, received, downloads, responses>>

\* What is left to send, as an unsigned number.
Left == (file.file_len - bytes_sent) % Modulus

\* strncpy of n bytes from the beginning of the file to a response on the
\* stack: past the first zero it writes zeros, after the n bytes nothing.
Copied(n) ==
  LET text == UpTo(SubSeq(file.file_data, 1, Min({n, file.file_len})), Nul)
      rest == IF "stack" \in Undefined THEN {Nul, Junk} ELSE {Nul}
  IN  {[i \in 1..(IF n > CHUNK_SIZE THEN n ELSE CHUNK_SIZE) |->
          IF i <= Len(text) THEN text[i] ELSE IF i <= n THEN Nul ELSE r] : r \in rest}

\* has_more is the byte after the chunk.
Response(bytes, more) ==
  [chunk |-> SubSeq(bytes, 1, CHUNK_SIZE), f_len |-> file.file_len,
   has_more |-> IF Len(bytes) > CHUNK_SIZE THEN bytes[CHUNK_SIZE + 1] # Nul ELSE more]

\* Mutant: has_more is set for a full chunk too.
SendResponseMore ==
  /\ sending /\ bytes_sent # file.file_len /\ Len(responses) < SocketBuffer
  /\ \E bytes \in Copied(IF Left > CHUNK_SIZE THEN CHUNK_SIZE ELSE file.file_len) :
       responses' = Append(responses, Response(bytes, Left >= CHUNK_SIZE))
  /\ bytes_sent' = (bytes_sent + (IF Left > CHUNK_SIZE THEN CHUNK_SIZE ELSE file.file_len)) % Modulus
  /\ UNCHANGED <<upVars, file, dpc, received, downloads, asked, sending>>

\* One turn of the loop: always from the beginning of the file.
SendResponse ==
  /\ sending /\ bytes_sent # file.file_len /\ Len(responses) < SocketBuffer
  /\ \E bytes \in Copied(IF Left > CHUNK_SIZE THEN CHUNK_SIZE ELSE file.file_len) :
       responses' = Append(responses, Response(bytes, Left > CHUNK_SIZE))
  /\ bytes_sent' = (bytes_sent + (IF Left > CHUNK_SIZE THEN CHUNK_SIZE ELSE file.file_len)) % Modulus
  /\ UNCHANGED <<upVars, file, dpc, received, downloads, asked, sending>>

\* The loop ends; the empty message after it puts nothing on the connection.
EndOfLoop ==
  /\ sending /\ bytes_sent = file.file_len
  /\ sending' = FALSE
  /\ UNCHANGED <<upVars, file, dpc, received, downloads, asked, bytes_sent, responses>>

\* A chunk with something in its last byte is full, another one ends at the
\* first zero; sendMsg writes up to a zero.
download_file_chunk ==
  /\ dpc = "read" /\ responses # <<>>
  /\ LET r == Head(responses) IN
       /\ received' = received \o UpTo(r.chunk, Nul)
       /\ dpc' = IF r.has_more THEN "read" ELSE "done"
  /\ responses' = Tail(responses)
  /\ UNCHANGED <<upVars, file, downloads, asked, sending, bytes_sent>>

FileNext ==
  \/ \E f \in Files : ReadPart(f)
  \/ sendChunk \/ store_file \/ Confirmed
  \/ request_file_download \/ get_file_data \/ SendResponse \/ EndOfLoop \/ download_file_chunk

\* Both processes run; a browser need not upload or download.
FileSpec ==
  /\ FileInit /\ [][FileNext]_fileVars
  /\ WF_fileVars(sendChunk \/ store_file \/ Confirmed)
  /\ WF_fileVars(get_file_data \/ SendResponse \/ EndOfLoop) /\ WF_fileVars(download_file_chunk)

-----------------------------------------------------------------------------
(* Properties.                                                             *)

\* Type invariant: a response carries one full structure and the counter of
\* get_file_data stays a uint64_t.
FileTypeOK ==
  /\ upc \in {"form", "send", "confirm", "last", "confirmed", "stored", "done"}
  /\ dpc \in {"none", "read", "done"}
  /\ file.file_len = Len(file.file_data)
  /\ bytes_sent \in 0..(Modulus - 1)
  /\ \A i \in DOMAIN responses : Len(responses[i].chunk) = CHUNK_SIZE

\* An upload that is over has stored as many bytes as it was to send, however
\* many chunks it took (storage_util.cc:181-197, key_value.cc:783, 811).
LengthStored == upc = "done" => file.file_len = Len(data)

\* What get_file_data can send: more would not fit its response, and for an
\* empty file the loop is not entered.
OneChunk == Len(source) \in 1..CHUNK_SIZE

\* What a browser has when its download is over is the file that was uploaded,
\* on every download of it, for a file of one chunk (key_value.cc:843-871).
RoundTrip == OneChunk /\ dpc = "done" => received = source

\* A download that was asked for ends, for a file of one chunk: the last
\* response says so (singleconnserverhtml.cc:325-329).
DownloadEnds == OneChunk /\ dpc = "read" ~> dpc = "done"

-----------------------------------------------------------------------------
(* Not among the runs: what the source says of the program and the code    *)
(* does not keep; README.md, "Departures", has the setting for each.       *)

\* An upload that is over has stored the bytes it was to send
\* (key_value.cc:769-783, 808-814).
BytesStored == upc = "done" => file.file_data = data

\* When no download is under way the storage server is back in read_commands
\* or about to be, and nothing is left on the connection for the next request
\* (backendrelay.cc:220 "multi-chunk download").
NothingLeft ==
  (dpc = "done" /\ ~asked) => responses = <<>> /\ (sending => bytes_sent = file.file_len)
===============================================================================
