---------------------------- MODULE ProgramDeploy ----------------------------
(***************************************************************************)
(* The program of a SIMD test: its keypair file                            *)
(* (load_or_generate_program_keypair, crates/cli/src/main.rs) and its      *)
(* deployment (deploy_or_skip_program and deploy_program_surfpool of       *)
(* crates/test-common), over the passes of several runs of the command     *)
(* line that share the key file and the .so file.                          *)
(*                                                                         *)
(* External are the file system, whose write is a truncation and a write   *)
(* that a crash may separate, the builder that `just run` starts and that  *)
(* replaces the .so piece by piece, the surfnet, and the live network.     *)
(***************************************************************************)
EXTENDS Naturals, Sequences, FiniteSetsExt

CONSTANTS
    Runs,        \* processes of the command line
    Passes,      \* bound: passes of a run over the test, one after another
    ChunkSize,   \* bytes of a chunk, 4 MiB in the code
    Bytes,       \* what the .so files consist of
    Images,      \* the .so files the builder makes
    NoFile,      \* there is no file
    Unreadable, Empty, Garbled, Short,  \* what is in a key file without a key:
                 \* no text, nothing, a part of a key or more than a key, and
                 \* a list of too few bytes
    Old,         \* the key in the file before the runs
    Pinned,      \* the address in the manifest
    NoKey        \* no program id yet

ASSUME PassesAssumption == Passes \in Nat \ {0}
ASSUME ChunkSizeAssumption == ChunkSize \in Nat \ {0}
ASSUME ImagesAssumption == Images \subseteq Seq(Bytes)

VARIABLES
    network,  \* the network of all runs: "localnet" or a "live" one
    pinned,   \* the manifest has an address for the test on this network
    first,    \* history: the key file at the beginning
    keyFile,  \* the key in it, or what is in it instead of a key
    so,       \* the .so file; NoFile when there is none
    build,    \* what the builder still has to write of the .so
    images,   \* history: the contents the .so file had
    pc,       \* the next step of a run
    id,       \* program_kp of a run, and the ctx.program_id made of it
    image,    \* so_bytes of a run, as far as it has read the .so
    next,     \* chunks a run has written
    program,  \* what its surfnet holds at the program's address
    torn,     \* history: the runs during whose reading the .so was written
    results,  \* the outcomes of its passes
    used,     \* history: the program ids the passes of the runs used
    wrote     \* history: the runs that truncated the key file

setting == <<network, pinned>>
file == <<first, keyFile>>
builder == <<so, build, images>>
deployment == <<image, next, program, torn>>
history == <<used, wrote>>
vars == <<setting, file, builder, pc, id, deployment, results, history>>

Key(r) == <<r, Len(results[r]) + 1>>    \* Keypair::new()
Keys == {Old} \cup (Runs \X (1..Passes))
Keyless == {NoFile, Unreadable, Empty, Garbled, Short}

\* What stands for a key, or for none, is told apart from new keys.
ASSUME KeyAssumption ==
    /\ \A k \in Keyless \cup {Old, Pinned, NoKey} : k \notin Runs \X Nat
    /\ Old \notin Keyless \cup {Pinned}
    /\ {NoFile, Unreadable} \cap {Empty, Garbled, Short} = {}

Init ==
    /\ network \in {"localnet", "live"} /\ pinned \in BOOLEAN
    /\ keyFile \in Keyless \cup {Old} /\ first = keyFile
    /\ so \in Images \cup {NoFile} /\ build = <<>>
    /\ images = IF so = NoFile THEN {} ELSE {so}
    /\ pc = [r \in Runs |-> "start"] /\ id = [r \in Runs |-> NoKey]
    /\ image = [r \in Runs |-> <<>>] /\ next = [r \in Runs |-> 0]
    /\ program = [r \in Runs |-> <<>>] /\ results = [r \in Runs |-> <<>>]
    /\ torn = {} /\ used = {} /\ wrote = {}

Goto(r, label) == pc' = [pc EXCEPT ![r] = label]

\* The outcome of a pass; the next one has a context and a surfnet of its own.
Finish(r, outcome) ==
    /\ results' = [results EXCEPT ![r] = Append(@, outcome)]
    /\ Goto(r, IF Len(results[r]) + 1 = Passes THEN "done" ELSE "start")
    /\ id' = [id EXCEPT ![r] = NoKey] /\ program' = [program EXCEPT ![r] = <<>>]
    /\ image' = [image EXCEPT ![r] = <<>>] /\ next' = [next EXCEPT ![r] = 0]
    /\ torn' = torn \ {r}

-----------------------------------------------------------------------------
(* The key file.                                                           *)

\* The pass goes on with a program id.
Identify(r, key) ==
    /\ id' = [id EXCEPT ![r] = key] /\ used' = used \cup {key}
    /\ Goto(r, "deploy") /\ UNCHANGED <<deployment, results, wrote>>

\* Slip: a key that cannot be parsed is replaced, too.
Unread_Unparsed == {NoFile, Unreadable, Empty, Garbled}
\* What read_to_string gives no text for.
Unread == {NoFile, Unreadable}

\* The address of the manifest, or the key of the file.  A text that does not
\* parse is an error of the pass; one of too few bytes panics in bytes[..32].
ReadKey(r) ==
    /\ pc[r] = "start"
    /\ \/ pinned /\ Identify(r, Pinned)
       \/ ~pinned /\ keyFile \in Keys /\ Identify(r, keyFile)
       \/ /\ ~pinned /\ keyFile \in Unread /\ Goto(r, "generate")
          /\ UNCHANGED <<id, deployment, results, history>>
       \/ /\ ~pinned /\ keyFile \in {Empty, Garbled}
          /\ Finish(r, "badKey") /\ UNCHANGED history
       \/ /\ ~pinned /\ keyFile = Short /\ Goto(r, "panicked")
          /\ UNCHANGED <<id, deployment, results, history>>
    /\ UNCHANGED <<setting, file, builder>>

\* create_dir_all and fs::write, which opens the file and truncates it, or fail.
Truncate(r) ==
    /\ pc[r] = "generate"
    /\ \/ Finish(r, "badKey") /\ UNCHANGED <<keyFile, wrote>>
       \/ /\ Goto(r, "write") /\ keyFile' = Empty /\ wrote' = wrote \cup {r}
          /\ UNCHANGED <<id, deployment, results>>
    /\ UNCHANGED <<setting, first, builder, used>>

\* Slip: the error of the write is dropped.
WriteKey_ErrorDropped(r) ==
    /\ pc[r] = "write" /\ Identify(r, Key(r))
    /\ keyFile' \in {Key(r), Empty, Garbled}
    /\ UNCHANGED <<setting, first, builder>>

\* Then it writes: over what another run has written since, of which a longer
\* text leaves its end.  A write that fails may leave the beginning of the text.
WriteKey(r) ==
    /\ pc[r] = "write"
    /\ \/ /\ keyFile' \in {Key(r)} \cup (IF keyFile = Empty THEN {} ELSE {Garbled})
          /\ Identify(r, Key(r))
       \/ /\ keyFile' \in {keyFile, Garbled}
          /\ Finish(r, "badKey") /\ UNCHANGED history
    /\ UNCHANGED <<setting, first, builder>>

\* The process ends at any point, in the middle of a write, too.
Crash(r) ==
    /\ pc[r] \notin {"done", "panicked", "crashed"} /\ Goto(r, "crashed")
    /\ keyFile' \in IF pc[r] = "write" THEN {keyFile, Garbled} ELSE {keyFile}
    /\ UNCHANGED <<setting, first, builder, id, deployment, results, history>>

-----------------------------------------------------------------------------
(* The deployment.                                                         *)

\* deploy_or_skip_program: on localnet it opens the .so, or fails.  Nobody has
\* deployed a new key's program to a live network; a failed request reads as not
\* deployed.
Deploy(r) ==
    /\ pc[r] = "deploy"
    /\ \/ network = "localnet" /\ Finish(r, "notDeployed")
       \/ /\ network = "localnet" /\ so # NoFile /\ Goto(r, "read")
          /\ UNCHANGED <<id, deployment, results>>
       \/ network = "live" /\ Finish(r, "skipped")
       \/ /\ network = "live" /\ id[r] \in {Old, Pinned} /\ Goto(r, "body")
          /\ UNCHANGED <<id, deployment, results>>
    /\ UNCHANGED <<setting, file, builder, history>>

\* Slip: one read may return less than the file.
ReadSo_Once(r) ==
    /\ pc[r] = "read"
    /\ \E n \in 0..Len(so) : image' = [image EXCEPT ![r] = SubSeq(so, 1, n)]
    /\ Goto(r, "chunks")
    /\ UNCHANGED <<setting, file, builder, id, next, program, torn, results, history>>

\* fs::read takes the bytes one after another from the file as it is by then,
\* up to its end, or fails.
ReadSo(r) ==
    /\ pc[r] = "read"
    /\ \/ /\ Len(image[r]) < Len(so)
          /\ image' = [image EXCEPT ![r] = Append(@, so[Len(@) + 1])]
          /\ UNCHANGED <<pc, id, next, program, torn, results>>
       \/ /\ Len(image[r]) >= Len(so) /\ Goto(r, "chunks")
          /\ UNCHANGED <<id, deployment, results>>
       \/ Finish(r, "notDeployed")
    /\ UNCHANGED <<setting, file, builder, history>>

\* Slip: the offset counts chunks.
Offset_OfChunks(i) == i
Offset(i) == i * ChunkSize

\* The bytes of chunk i of an image.
Chunk(bytes, i) ==
    SubSeq(bytes, i * ChunkSize + 1, Min({(i + 1) * ChunkSize, Len(bytes)}))

\* surfnet_writeProgram
Written(bytes, offset, chunk) ==
    LET here == (offset + 1)..(offset + Len(chunk))
    IN  [k \in DOMAIN bytes \cup here |->
            IF k \in here THEN chunk[k - offset] ELSE bytes[k]]

\* Slip: the error in the response is not looked at.
ChunkFails_GoesOn(r) ==
    /\ next' = [next EXCEPT ![r] = @ + 1]
    /\ UNCHANGED <<pc, id, image, program, torn, results>>
\* A request that failed, or an error in its response, ends the pass.
ChunkFails(r) == Finish(r, "notDeployed")

\* Slip: one chunk too many.
AllWritten_OneMore(r) == next[r] * ChunkSize > Len(image[r])
AllWritten(r) == next[r] * ChunkSize >= Len(image[r])

\* One round of the loop over the chunks, or its end.
WriteChunk(r) ==
    /\ pc[r] = "chunks"
    /\ IF AllWritten(r)
       THEN Goto(r, "body") /\ UNCHANGED <<id, deployment, results>>
       ELSE \/ /\ program' = [program EXCEPT ![r] =
                     Written(@, Offset(next[r]), Chunk(image[r], next[r]))]
               /\ next' = [next EXCEPT ![r] = @ + 1]
               /\ UNCHANGED <<pc, id, image, torn, results>>
            \/ ChunkFails(r)
    /\ UNCHANGED <<setting, file, builder, history>>

\* The test body, and the end of the pass.  (A body that returns an error ends
\* the run: Crash.)
Body(r) ==
    /\ pc[r] = "body" /\ Finish(r, "ran")
    /\ UNCHANGED <<setting, file, builder, history>>

\* The builder (external) starts a new .so in the place of the old one and
\* writes it byte by byte.
Build ==
    /\ \/ /\ build = <<>>
          /\ \E i \in Images : i \notin images /\ build' = i
          /\ so' = <<>>
       \/ build # <<>> /\ so' = Append(so, Head(build)) /\ build' = Tail(build)
    /\ images' = images \cup {so'}
    /\ torn' = torn \cup {r \in Runs : pc[r] = "read"}
    /\ UNCHANGED <<setting, file, pc, id, image, next, program, results, history>>

Run(r) ==
    \/ ReadKey(r) \/ Truncate(r) \/ WriteKey(r) \/ Crash(r)
    \/ Deploy(r) \/ ReadSo(r) \/ WriteChunk(r) \/ Body(r)

Next == Build \/ \E r \in Runs : Run(r)
Spec == Init /\ [][Next]_vars

-----------------------------------------------------------------------------
(* Properties.                                                             *)

Outcomes == {"badKey", "notDeployed", "skipped", "ran"}

\* The variables keep their types, and a pass has an id from its reading of
\* the key to its end, written to whole bytes only.
TypeOK ==
    /\ keyFile \in Keyless \cup Keys /\ used \subseteq Keys \cup {Pinned}
    /\ \A r \in Runs :
          /\ Len(results[r]) <= Passes
          /\ \A i \in DOMAIN results[r] : results[r][i] \in Outcomes
          /\ pc[r] \in {"deploy", "read", "chunks", "body"} => id[r] \in used
          /\ next[r] * ChunkSize < Len(image[r]) + ChunkSize

\* On localnet a body runs on all that was read of the .so, not on a part of it
\* and not on what a failed write left.  What was read is the file as it was at
\* one moment (empty or half-built, perhaps), if nobody wrote it meanwhile.  If
\* the builder did, it may be a mixture that never was in the file; all that can
\* be said is that each byte of it once was there, in its place.
OneImage ==
    \A r \in Runs : network = "localnet" /\ pc[r] = "body" =>
        /\ program[r] = image[r]
        /\ r \notin torn => image[r] \in images
        /\ \A k \in DOMAIN image[r] :
              \E i \in images : k \in DOMAIN i /\ i[k] = image[r][k]

\* A program keeps its identity: a run makes at most one new key (two runs that
\* race for the file may lead each other to a second one), no run uses a new one
\* if there was an old one, and a file that can be read as text keeps its
\* content, be it a key or not.
OneIdentity ==
    /\ \A j, k \in used \ {Old, Pinned} : j[1] = k[1] => j = k
    /\ first \notin {NoFile, Unreadable} => keyFile = first /\ used \subseteq {Old, Pinned}

\* The program that is tested is the one whose key is in the file, so that the
\* next run tests the same one: a key in use is saved, unless a run other than
\* its maker has found no key, too, and begun to write.
KeySaved ==
    \A r \in Runs :
        pc[r] \in {"deploy", "read", "chunks", "body"} /\ id[r] # Pinned =>
            keyFile = id[r] \/ (id[r] # Old /\ \E q \in wrote : q # id[r][1])

=============================================================================
