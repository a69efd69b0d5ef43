---------------------------- MODULE EncryptedFile ----------------------------
(***************************************************************************)
(* encrypt_file and decrypt_file of app/services/encryption_service.py.    *)
(* Files are encrypted chunk by chunk; then someone keeps a file for us:   *)
(* the stored bytes are any header followed by any sequence of the frames  *)
(* ever written and of damaged ones, perhaps cut short; then it is         *)
(* decrypted.  AES-GCM is what it promises: a ciphertext opens under the   *)
(* key, nonce and associated data it was made with, and no other.          *)
(***************************************************************************)
EXTENDS Naturals, Sequences

CONSTANTS
    Files,      \* the files encrypted under one passphrase, each with its salt
    Plain,      \* Plain[f] : what f holds, a sequence
    ChunkSize,
    MaxFrames,  \* bound on the frames of the stored file
    Damaged     \* a header or frame whose bytes were changed

ASSUME EncryptedFileAssumption ==
    /\ ChunkSize \in Nat \ {0} /\ MaxFrames \in Nat
    /\ Damaged \notin Files
    /\ \A f \in Files : Plain[f] \in Seq(Nat)

VARIABLES
    written,    \* written[f] : the frames of f on disk
    chunk,      \* chunk[f] : the number of the chunk to be encrypted next
    stored,     \* the file to be decrypted: header, frames, cut, right (key)
    counter,    \* frames decrypted so far
    out,        \* the chunks written to the destination
    result      \* "none", "ok" or "error"

fileVars == <<written, chunk, stored, counter, out, result>>
decrypting == <<stored, counter, out, result>>

None == [header |-> Damaged, frames |-> <<>>, cut |-> FALSE, right |-> FALSE]
Least(a, b) == IF a < b THEN a ELSE b

\* fin.read(CHUNK_SIZE), the i-th time
Read(f, i) == SubSeq(Plain[f], i * ChunkSize + 1, Least((i + 1) * ChunkSize, Len(Plain[f])))

\* Mutated form: a chunk is the last one when it is not full.
ShortChunk(f, i) == Len(Read(f, i)) < ChunkSize

Final(f, i) == Read(f, i + 1) = <<>>

\* cipher.encrypt(nonce(counter), chunk, final)
Frame(f, i) == [key |-> f, counter |-> i, final |-> Final(f, i), data |-> Read(f, i)]

ASSUME DamageAssumption == \A f \in Files : \A i \in 0 .. Len(Plain[f]) : Frame(f, i) # Damaged

EncryptChunk(f) ==
    /\ stored = None
    /\ chunk[f] = 0 \/ Read(f, chunk[f]) # <<>>
    /\ written' = [written EXCEPT ![f] = Append(@, Frame(f, chunk[f]))]
    /\ chunk' = [chunk EXCEPT ![f] = @ + 1]
    /\ UNCHANGED decrypting

----------------------------------------------------------------------------

Complete(f) == chunk[f] > 0 /\ Read(f, chunk[f]) = <<>>
Pieces == {Damaged} \cup UNION {{written[f][i] : i \in DOMAIN written[f]} : f \in Files}

\* What is stored is what was written, or anything put together from it.
Store ==
    /\ stored = None /\ \A f \in Files : Complete(f)
    /\ \E header \in Files \cup {Damaged}, n \in 0 .. MaxFrames, cut, right \in BOOLEAN :
          \E frames \in [1 .. n -> Pieces] :
              stored' = [header |-> header, frames |-> frames, cut |-> cut, right |-> right]
    /\ stored' # None
    /\ UNCHANGED <<written, chunk, counter, out, result>>

Frames == stored.frames

\* Mutated form: no associated data.
OpensAnywhere(frame, last) ==
    frame # Damaged /\ stored.right /\ frame.key = stored.header /\ frame.counter = counter

\* The tag is right.
Opens(frame, last) ==
    /\ frame # Damaged /\ stored.right
    /\ frame.key = stored.header /\ frame.counter = counter /\ frame.final = last

\* The next frame is whole, and it is the last one when not a byte follows.
DecryptFrame ==
    LET last == counter + 1 = Len(Frames) /\ ~stored.cut
    IN /\ stored # None /\ result = "none"
       /\ \/ /\ stored.header # Damaged /\ counter < Len(Frames)
             /\ Opens(Frames[counter + 1], last)
             /\ out' = Append(out, Frames[counter + 1].data)
             /\ counter' = counter + 1
             /\ result' = IF last THEN "ok" ELSE "none"
          \/ /\ ~(stored.header # Damaged /\ counter < Len(Frames) /\ Opens(Frames[counter + 1], last))
             /\ result' = "error" /\ UNCHANGED <<counter, out>>
       /\ UNCHANGED <<written, chunk, stored>>

FileInit ==
    /\ written = [f \in Files |-> <<>>] /\ chunk = [f \in Files |-> 0]
    /\ stored = None /\ counter = 0 /\ out = <<>> /\ result = "none"

FileNext == (\E f \in Files : EncryptChunk(f)) \/ Store \/ DecryptFrame

FileSpec == FileInit /\ [][FileNext]_fileVars

----------------------------------------------------------------------------
(* Properties *)

\* "truncation and re-ordering are detected": whatever happened to the stored
\* file, decryption that succeeds has given all chunks of the file whose header
\* it carries, in order, from the first to the end of the file.
WholeFileOrError ==
    result = "ok" => /\ stored.header \in Files
                     /\ out = [i \in 1 .. Len(out) |-> Read(stored.header, i - 1)]
                     /\ Read(stored.header, Len(out)) = <<>>

Joined == LET join[n \in 0 .. Len(out)] == IF n = 0 THEN <<>> ELSE join[n - 1] \o out[n]
          IN join[Len(out)]

\* A file that was kept as it was written, and is opened with its passphrase,
\* is decrypted to what was encrypted: an empty file and one of exactly so
\* many full chunks too.
RoundTrip ==
    \A f \in Files :
        stored = [header |-> f, frames |-> written[f], cut |-> FALSE, right |-> TRUE] =>
            result # "error" /\ (result = "ok" => Joined = Plain[f])
=============================================================================
