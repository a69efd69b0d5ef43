------------------------------- MODULE Archive -------------------------------
(***************************************************************************)
(* What becomes of a dump on its way to the backup directory and back:     *)
(* compression_service.py, encryption_service.py and hash_utils.py as      *)
(* execute_backup, verify_backup and execute_restore put them together.    *)
(* A file is layers around the dump.  Its bytes may change at any moment,  *)
(* in the temporary directory as in the store, and the server may be       *)
(* started with another key.                                               *)
(***************************************************************************)
CONSTANTS
    Methods,    \* of "none", "gzip" and "zip"
    Keys        \* passphrases that DBSAFE_ENCRYPTION_KEY may have

ASSUME ArchiveAssumption == Methods \subseteq {"none", "gzip", "zip"} /\ Keys # {}

VARIABLES
    method, encryption,     \* what the backup's row says
    key,                    \* the passphrase of the running server
    stage,                  \* where execute_backup is
    file,                   \* the file in the temporary directory, then the stored one
    checksum,               \* as recorded
    verdict,                \* of the last deep verification, with the file and key it saw
    restoring,              \* TRUE between a restore's check and its unpacking
    restored                \* the outcome of the last restore

vars == <<method, encryption, key, stage, file, checksum, verdict, restoring, restored>>
options == <<method, encryption>>

\* What may be wrong with the bytes of a layer, by what reading it raises: an end
\* too early (EOFError), a wrong header or check sum (OSError, BadZipFile), an
\* invalid deflate stream (zlib.error).
Damages == {"short", "crc", "deflate"}

Dump == [kind |-> "dump", damage |-> "none"]
Raised(e) == [kind |-> e, damage |-> "none"]
Wrap(kind, k, f) == [kind |-> kind, damage |-> "none", key |-> k, inner |-> f]
IsLayer(f) == "inner" \in DOMAIN f

\* The dump inside at most two layers.
Payload(f) ==
    IF ~IsLayer(f) THEN f ELSE IF ~IsLayer(f.inner) THEN f.inner ELSE f.inner.inner

\* sha256_file: two files with the same digest are the same file.
Digest(f) == f

\* compress_file
Compress(f) == Wrap(method, "no key", f)

\* Mutated form: the check sum of the stream is not compared.
IgnoresCRC(f) ==
    IF f.kind # method \/ f.damage = "short" THEN Raised("RestoreError")
    ELSE IF f.damage = "deflate" THEN Raised("zlib.error")
    ELSE [f.inner EXCEPT !.damage = f.damage]

\* decompress_file, and test_integrity, which reads the archive to its end: both
\* turn OSError, EOFError and BadZipFile into RestoreError.
Decompress(f) ==
    IF f.kind # method \/ f.damage \in {"short", "crc"} THEN Raised("RestoreError")
    ELSE IF f.damage = "deflate" THEN Raised("zlib.error")
    ELSE f.inner

\* encrypt_file and decrypt_file: with another key, or one changed byte, the
\* authentication of a chunk or the reading of the header fails.
Encrypt(f) == Wrap("encrypted", key, f)
Decrypt(f) ==
    IF f.kind = "encrypted" /\ f.key = key /\ f.damage = "none"
    THEN f.inner ELSE Raised("EncryptionError")

----------------------------------------------------------------------------
(* execute_backup *)

Step(from, to, result) ==
    /\ stage = from /\ stage' = to /\ file' = result
    /\ UNCHANGED <<options, key, verdict, restoring, restored>>

CompressStep ==
    /\ Step("dumped", "compressed", IF method = "none" THEN file ELSE Compress(file))
    /\ UNCHANGED checksum

EncryptStep ==
    /\ Step("compressed", "encrypted", IF encryption THEN Encrypt(file) ELSE file)
    /\ UNCHANGED checksum

HashStep == Step("encrypted", "stored", file) /\ checksum' = Digest(file)

----------------------------------------------------------------------------
(* verify_backup with deep *)

Decrypted == IF encryption THEN Decrypt(file) ELSE file

\* Mutated form: an encrypted backup is not decompressed.
OneLayer == ~encryption /\ method # "none"

TestsCompression == method # "none"

\* _deep_check: the exception it raises, or what it read.
DeepCheck ==
    IF Decrypted.kind # "EncryptionError" /\ TestsCompression
    THEN Decompress(Decrypted) ELSE Decrypted

\* digests_equal of the recorded and the actual checksum
DigestsEqual == Digest(file) = checksum

\* Only a DBSafeError makes a verdict of a failed deep check.
DeepStatus ==
    IF ~DigestsEqual \/ DeepCheck.kind \in {"RestoreError", "EncryptionError"} THEN "invalid"
    ELSE IF DeepCheck.kind = "zlib.error" THEN "raised"
    ELSE "valid"

Verify ==
    /\ stage = "stored"
    /\ verdict' = [file |-> file, key |-> key, status |-> DeepStatus]
    /\ UNCHANGED <<options, key, stage, file, checksum, restoring, restored>>

----------------------------------------------------------------------------
(* execute_restore: the safety backup lies between the check and the unpacking. *)

RestoreCheck ==
    /\ stage = "stored" /\ ~restoring
    /\ restoring' = DigestsEqual
    /\ restored' = IF DigestsEqual THEN restored ELSE Raised("RestoreError")
    /\ UNCHANGED <<options, key, stage, file, checksum, verdict>>

Unpacked ==
    IF Decrypted.kind # "EncryptionError" /\ method # "none"
    THEN Decompress(Decrypted) ELSE Decrypted

RestoreUnpack ==
    /\ restoring /\ restoring' = FALSE
    /\ restored' = Unpacked
    /\ UNCHANGED <<options, key, stage, file, checksum, verdict>>

----------------------------------------------------------------------------

\* Bytes of the file change.
Rot ==
    /\ file.damage = "none" /\ \E d \in Damages : file' = [file EXCEPT !.damage = d]
    /\ UNCHANGED <<options, key, stage, checksum, verdict, restoring, restored>>

\* The server is started with another key; a restore that was running is gone.
ReplaceKey ==
    /\ stage = "stored" /\ key' \in Keys \ {key} /\ restoring' = FALSE
    /\ UNCHANGED <<options, stage, file, checksum, verdict, restored>>

Init ==
    /\ method \in Methods /\ encryption \in BOOLEAN /\ key \in Keys
    /\ stage = "dumped" /\ file = Dump /\ checksum = Raised("none")
    /\ verdict = [file |-> Dump, key |-> key, status |-> "none"]
    /\ restoring = FALSE /\ restored = Raised("none")

Next ==
    \/ CompressStep \/ EncryptStep \/ HashStep \/ Verify
    \/ RestoreCheck \/ RestoreUnpack \/ Rot \/ ReplaceKey

Spec == Init /\ [][Next]_vars

----------------------------------------------------------------------------
(* Properties *)

\* Deep verification proves the file readable (_deep_check): as long as file and
\* key are those of a deep "valid", execute_restore gets to a dump.
DeepValidIsRestorable ==
    verdict.status = "valid" /\ verdict.file = file /\ verdict.key = key
    => DigestsEqual /\ Unpacked.kind = "dump"

\* execute_restore compares the checksum before the safety backup and reads the
\* file after it.  The bytes may change between the two: with a compressed or an
\* encrypted backup, the database still gets the dump that was hashed or nothing.
LayersProtectTheGap ==
    restored.kind = "dump" /\ (encryption \/ method # "none") => restored = Payload(checksum)
=============================================================================
