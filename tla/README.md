# A TLA+ development for HashCryptoLib

HashCryptoLib is a C++ library (Windows) that puts one interface, `CCryptoApi`, over
several cryptography providers, and adds its own OpenPGP engine, a wrapper around
GnuPG, certificate, CMS, timestamp and SSH services, a DLL boundary and script
bindings. This directory models the parts of it that keep state and checks them with
TLC; the invariants that matter most are proved with TLAPS for every value of the
constants. Cryptography itself is abstract: a key is a number, a signature names the
key it was made with, a sealed chunk opens under one password.

## 1. Inventory

| Component | State | Operations | Interacts with | What is hard | Correct when |
|---|---|---|---|---|---|
| `CPgpEngine`: own identity (`Pgp/PgpEngine.cpp`) | master key, flat "first subkey" fields, `ownUserIds`, `ownSubkeys`, cached certificate and binding packets, password check value | GenerateKeyPair, AddUserId, RevokeUserId, SetPrimaryUserId, AddSubkey, RevokeSubkey, SetKeyExpiration, ChangePassword | export concatenates the cached packets | long call sequences, partial failure, cached packets that go stale | the exported block agrees with itself, with the getters and with the password |
| `CPgpEngine`: messages | the peer's imported key block | Export, Import, Encrypt*, Decrypt*, Sign*, Verify* | two engines through copied key blocks | the copy is older or newer than the key in use; expiry; the flat fields and the list diverge | what a correspondent does with the copy, the owner can undo or confirm |
| `CPgpEngine`: file streaming | temporary and output files, the streaming reader | EncryptFile, EncryptFileCompressed, DecryptFile, SignFile | file system, progress callback, messages written by GnuPG | nested length framings cut anywhere by reads, failure or crash between any two steps | only verified plaintext is shown, success means complete, nothing is left behind |
| `CCryptoApi`: file encryption (`CryptoApi.cpp`) | output file, derived key | EncryptFile, DecryptFile | provider objects, progress callback, file system | cancellation, exceptions, crashes between chunks, repeated calls | outputs are never wrong, inputs never touched, keys wiped |
| `CCryptoApi`: shared instances | map configuration → instance, mutex | GetShared (12 overloads), ResetShared | every user of the same configuration, across threads | lookup/insert races, reset under live references, exceptions under the lock | one instance per configuration, keys shared exactly as intended |
| `CCryptoApi`: key engines | RSA, signature and key-agreement engines | Generate*KeyPair, Encrypt/Decrypt/Sign/Verify/Derive | providers | regeneration that fails half way | the old key or the new one |
| `CCryptoApi`: buffers, hashing, random | none | Encrypt*/Decrypt*/ComputeHash*/GenerateRandomBytes | providers | size negotiation at INT_MAX | required sizes are exact |
| Providers (Microsoft, CryptoPP, Botan, OpenSSL, libgcrypt, CryptoPP modern) | algorithm and key handles | SetKey, Encrypt, Decrypt, GenerateKeyPair, Sign, ... | vendor libraries | handle lifecycle | no handle used after it was destroyed |
| Provider factories, registry, capability matrix | none (tables) | Create* | `CCryptoApi` | table consistency | an advertised algorithm can be created |
| `IAeadCipher` chunked buffers | none | EncryptChunked, DecryptChunked | providers | 32-bit size arithmetic | decrypt inverts encrypt |
| `CPgpEngineWrapper` | gpg home directory, own identity, imported peers, temporary files | the OpenPGP operations, through the gpg process | pipes, files, keyservers | handles inherited by other calls' children, pipe deadlock, names that repeat in a persistent home directory, identity cache against the keyring | every call returns with all of its own output; the cache follows the keyring |
| `CCertificateManager` | store handle, intermediate certificates | issue, validate, store operations | Windows store, OpenSSL | stale intermediates, unopened store | validation uses what was added |
| `CCmsService`, `CTimestampService` | none / request nonce | sign, verify, request | OpenSSL, network | late or foreign replies | the reply matches the request |
| `CSshManager` | session, socket | connect, authenticate, exec, transfer | libssh2 | order of calls, failure half way | no use of a dead session |
| DLL loader, factory | module handle, entry points | LoadLibrary, UnloadLibrary, Create*/Destroy* | the DLL | repeated load and unload | each load is freed once |
| Script bindings | Python interpreter count | one engine per script | interpreter | concurrent construction | initialised before use |
| Command line, utilities, testers | none | parsing, formatting | | | |

`PROJECT.json` lists the same components with their sources, and the hazards with the
line where each one bites.

## 2. Modules

### PgpIdentity (with PgpExchangeProofs, MCPgpIdentity)

One `CPgpEngine` and the identity it owns. The variables are the engine's fields:
`ownMaster` (a number per generated identity), the flat first-subkey fields,
`ownUserIds` and `ownSubkeys` with their cached packets, the password the secret
packets are encrypted under, the clock. A certificate or binding is a record of what
the packet carries: issuer, creation time, primary flag, expiration, key flags. There
is one action per public mutator; each has its early returns (`Refuse`), its packet
failures (`PacketFailure`: a builder returning an error before the commit), and its
commit, as one step. `AddUserId` pushes the new entry before its nested
`SetPrimaryUserId`, so it may report an error with the entry already there: that is in
the model. `Tick` is `std::time`. An allocation failure in the middle of a commit is
not modelled.

### PgpExchange (with PgpExchangeProofs, MCPgpExchange)

EXTENDS PgpIdentity with a correspondent. `ExportPublicKeyArmored` renders the key
block, `ImportPeerPublicKey` chooses the encryption key from a copy that the owner's
later calls make stale. Messages and signatures record who made them and when;
`DecryptBuffer`, `DecryptFile`, `VerifyBuffer` and `VerifyFile` are what the two sides
do with them. `TimeModulus` is the width of the 32-bit time arithmetic.

### FileCrypto (with FileCryptoProofs, MCFileCrypto)

`EncryptFile` and `DecryptFile` on a disk. A file is a form (absent, plain,
container), the password of a container, its whole chunks, and what it stops in the
middle of (`tail`). The ghost fields `origin`, `done` and `sound` say which plaintext
it stands for and whether the calls it came through succeeded. A call goes through
`Start` (argument checks), `Open` (CreateFileW twice; CREATE_ALWAYS truncates),
`EncryptSetup` or `DecryptSetup`, `EncryptChunk` or `DecryptChunk` per iteration, and
`Finish`. Every early return is an `Abort` (wipe the key, close, try to delete, return);
`catch (...)` is `Unwind`, which deletes and wipes nothing. `Crash` may come at any
point when `MayCrash` holds.

### SharedInstances (with SharedInstancesProofs, MCSharedInstances)

`getSharedImpl` and `ResetShared` as threads run them: `Acquire`, `Find`, `Construct`
(which may throw), `Clear`, `Release` are separate steps. Requests are partial
functions from fields to values that `Resolve` completes, as the overloads do. What
`CryptoApi.h` requires of callers is respected: calls on one instance are serialised
(lines 137-140), and a reference is not used after a `ResetShared` (lines 157-158).

### SeipReader, PgpFile, OutputFile (with SeipReaderProofs, PgpFileProofs, MCPgpFile)

`PgpFile` is the four file calls on a disk that outlives the process: one step per open,
write, delete and move, each of which may fail; the progress callback may cancel or
throw after each chunk; `Crash` may come between any two steps. `SeipReader` is the
reader inside `DecryptFile`: `parseEncryptedFileHeader` and `decryptSeipBodyStreaming`
as a function from reader state to reader state, one `ReadFile`, one header or one run
of body octets per step. A file is a sequence of octets that say what they are, so a
reader that takes a chunk header for content writes something a document does not have.
Fields no length rule looks into (a PKESK packet, the random prefix, the MDC) are one
octet each, encryption keeps positions and is not shown, and a deflated octet inflates
to one octet. A literal packet's format, name and date are one octet too, so
`innerPrefixFitsInChunk` refuses only an empty first chunk; the chunks of one to a few
octets it refuses besides are malformed by RFC 4880 (the first has at least 512), as the
code's comment says. An old-format header with a definite length, which
`readPacketHeader` turns into the same tag and length as a new-format one, is
represented by that one. A framing is its form and, for partial lengths, where its
chunks end in the body (`ChunkEnd`), so that a place in a packet is a number of octets
and a chunk. Besides the messages `PgpFile` describes, the run gives the reader files
that are none: a packet without a tag inside the encrypted one, something else than a
literal inside a compressed packet, messages cut short. BZip2's buffering of the whole
body is not told apart from the streaming algorithms.

`OutputFile` is the abstract specification: what a caller may see at the paths it
named. In-place calls show growing prefixes of the right result; `DecryptFile` shows
the old file, nothing, or the whole result, and touches the old file only if there is
one; success means the result is there. `PgpFile` instantiates it with a refinement
mapping that forgets temporary files, places and the reader.

### GpgProcess (with GpgProcessProofs, MCGpgProcess)

`runGpgProcess`, for any number of concurrent calls, with one step per system call. For
each call: its handles as the process sees them (`open`) and as its local variables
say (`local`), which pipe ends are inheritable, what the two bounded pipes hold. The
child process is external: it reads its input to the end and prints in any order,
blocks, fails or is killed, and holds every handle that was inheritable when it was
created, other calls' included, until it exits.

### GpgWrapper (with GpgWrapperProofs, MCGpgWrapper)

`CPgpEngineWrapper` instances and their home directories: construction, `SetHomeDir`,
destruction, a killed process; `GenerateKeyPair`, `LoadOwnIdentity`,
`DeleteOwnIdentity`, `DeletePeerPublicKey`; and the buffer calls, of which encrypt, sign,
verify, import and revoke stand for the shapes there are (one or two input files, an
output file or none, the exit code or the file as the verdict). A run of gpg is one
step here. A keyring is the set of a directory's keys, each with or without its secret
part; `FirstSecret` is the oldest secret key for an address, the one gpg lists first. Two
history variables say when nothing can be claimed: `disturbed`, another
instance used the directory meanwhile, and `repeated`, a key was imported twice or
deleted with the identity.

## 3. Runs

| Run | Checks | Bounds |
|---|---|---|
| `identity` | type, `OnePassword`, `UniquePrimary`, `PrimaryCertGoverns`, `ExportedByOwnMaster`, `FlatSubkeyMirrors`, `BindingMatchesGetters`, `RevocationIsForever`, `ErrorKeepsIdentity` | 2 identities, so that one replaces another; 2 User IDs and 2 subkeys, so that there is a primary and another, the seeded and an added one; 2 passwords; about 208,000 states |
| `exchange` | `BufferMessageOpens`, `SignatureVerifies`, `UnknownSignerIsInvalid`, `SignsWithNewestSubkey`, `EncryptsToBestSubkey`, type | an RSA identity with 2 subkeys that expire, and a clock that passes the expiry; Ed25519/X25519, 2 identities and 3 subkeys (2 after the replacement) that never expire: replacement and rotation under a stale copy; about 641,000 states |
| `file_crypto` | `OutputIsPrefix`, `RoundTrip`, `KeyWiped`, `InputPreserved`, `FileCallReturns`, type | 3 paths, 2 passwords, 2 chunks, 4 calls: encrypt, decrypt, encrypt again, decrypt again, with the output of one the input of the next; about 300,000 states |
| `shared` | `LiveReferenceIsCached`, `MutualExclusion`, `SignatureIsShared`, `SharedCallReturns`, type | 2 threads of 3 calls, 3 instances, 2 key pairs, two overloads of one configuration and a third differing in the last field; about 127,000 states |
| `pgp_file` | `DecryptFileVerdict`, `TemporaryIsPrefix`, `NothingLeftBehind`, `ImplementsOutputFile`, `FileCallEnds`, type | 2 paths, 2 calls, documents of 0 to 4 and of 10 octets, reads of 2 octets, a header area of 8, a 2-octet length from 4 on, lengths modulo 11: every nesting of definite, indeterminate and partial framings, chunks that end with the body, headers cut by reads, lengths that wrap, messages cut short or with a wrong MDC; about 141,000 states |
| `gpg_process` | `HandlesReleased`, `ResultIsComplete`, `GpgCallReturns`, type | 2 calls, pipes of one unit, inputs of 0 or 1, up to 2 units printed, so that both pipes fill; about 294,000 states |
| `gpg_wrapper` | `TrackedKeysInKeyring`, `ResultIsOwn`, `TemporariesRemoved`, type | 2 instances, 1 shared directory, 2 addresses, 1 foreign key, 2 generated keys, 3 temporary names; about 273,000 states |
| `file_decrypt`, `master_fallback`, `encrypt_flags`, `expiry_wrap`, `file_complete` | one documented claim each, violated (section 5) | the smallest instance that shows it |

Constraints. `exchange` gives each key family one hard case, expiry to RSA and
replacement and rotation to Ed25519/X25519: a replaced identity whose
subkeys also expire is not explored. `pgp_file` follows a message of another program only into `DecryptFile`,
and a second call is always a `DecryptFile` of what the first one left; other pairs of
calls repeat what single ones show. `gpg_wrapper` stops at a state nothing is claimed
of (a disturbed instance), and explores the keyring with imports only, the left-over
files with one key, and two live instances with no generated key; within each of these
all interleavings are there. The instances of `gpg_wrapper` are interchangeable, and no
temporal property is checked under that symmetry.

The runs of the shared cache, the file calls and the gpg models end when their calls
are made, so they do not check for deadlock; `SharedCallReturns`, `FileCallEnds` and
`GpgCallReturns` say that nobody stops inside a call. In the other models some call is
always possible.

Fairness. `FileCallReturns` needs that a call that has begun goes on: weak fairness of
its steps, that is, system calls and callbacks return. `SharedCallReturns` needs that
each thread inside a call keeps being scheduled. The mutex is not assumed fair: with
finitely many calls per thread it is eventually free for whoever waits, so weak
fairness is enough; with unboundedly many calls a `std::mutex` could starve a waiter,
which the bound `MaxCalls` excludes. `FileCallEnds` needs that the running file call
goes on. `GpgCallReturns` needs that each calling thread and each child is scheduled;
nothing has to fail, and a child may be slow but reads its input to the end. The input
fits the pipe (the assumption `GpgConstantsAssumption`, from the comment at
`PgpEngineWrapper.cpp:158-161`): with a larger one both sides could wait for each other.

Every property of a passing run has a mutant in `PROJECT.json`: a definition changed as a
plausible bug would change it, under which TLC finds the property violated. The
mutants stand next to the definitions they replace and are not otherwise used.

## 4. Proofs

The theorems hold for all sets of paths, passwords, threads, instances and requests, all
file contents, all lists of subkeys and User IDs, and all bounds, from the named
assumptions of each module:

* `PgpConstantsAssumption`, `FileConstantsAssumption`, `SharedConstantsAssumption`,
  `WrapperConstantsAssumption`: typing of the constants, and that the distinguished
  values ("none", the absent file) are not ordinary ones;
* `GpgConstantsAssumption`: also that gpg's input fits a pipe;
* `TimeModulusAssumption`, `ReaderAssumption`: the widths are positive, a length field
  holds less than a size, and a read asks for at least one octet;
* `PgpFileAssumption`: also that a foreign message's document has a length, and that no
  path the caller names is the temporary file of one
  (the calls append a suffix of their own).

`NaturalOrder` holds what several proofs need about numbers: a non-empty set of naturals
has a least element, a bounded one a greatest. The searches of the code stop there (the
newest subkey, the first secret key), and a least or greatest counterexample takes the
place of an induction, which the provers cannot do.

* **PgpExchangeProofs**, on the identity by itself (`Spec`), proves all nine properties of
  the run `identity`. The inductive invariant is `IdentityInv`: the type invariant, `UniquePrimary`, that certificates were
  issued in the past, `PrimaryCertGoverns`, and what holds of each subkey. The
  certificates' times are what is missing from the properties alone: a primary
  certificate governs because no other is newer, which survives a re-signing only
  because every certificate is from the past.
* **FileCryptoProofs** proves all safety properties of the run `file_crypto`.
  `FileInv` adds to `OutputIsPrefix` and `RoundTrip` how far the call in progress has
  come (`CallInv`): its output holds exactly the chunks of its input before the read
  position and stands for the same plaintext. At the end of the input this makes the
  output equal to the input, chunk by chunk.
* **SharedInstancesProofs** proves all safety properties of the run `shared`. In
  `SharedInv`, mutual exclusion gives that a failed lookup is still right when the new
  entry is inserted (`ConstructInv`); so entries are unique by configuration and by
  instance, and references and key pairs follow.

* **GpgProcessProofs** proves all safety properties of the run `gpg_process`, for any
  number of concurrent calls and any sizes. `GpgInv` adds to the type invariant, for each
  call, which handles are open at each step and that the variables name them
  (`HandlesFit`); that a call without a child has printed nothing and nobody exits for
  it (`NoChildYet`); that a running child holds its own ends of its own pipes until it
  leaves (`ChildFits`); and that what was printed is what was read plus what the pipe
  holds (`OutputFits`). `ResultIsComplete` follows because the drain loop only ends when
  no copy of the write end is open, so the call's own child has left, and the pipe is
  empty. Handles that other children inherited can only delay that.

* **PgpExchangeProofs**, on the exchange, proves all properties of the run `exchange`, for any number of
  identities and subkeys. `ExchangeInv` has the invariant of the identity, that subkeys
  were created in the past, and how each copy relates to what it was copied from
  (`CopiesInv`): the subkeys of a copy sit at their numbers, and a copy of the current
  identity's block lists a beginning of its subkeys, with the same key flags, while
  revocations and expirations may differ; a copy of a replaced identity can be told by
  its master key. `ChosenInv` and `InFlightInv` say that the key chosen at import is of
  the copy, that a key in flight is one the owner had, and that the subkey of a signature
  is marked as a signing key wherever it is listed, so the answer to a call can be read
  off the lists (`ReplyInv`). `EncryptsToBestHolds` has one hypothesis,
  `EndsBeforeTheWrap`: no creation time plus expiration reaches 2^32. The code does not exclude it, and the run
  `expiry_wrap` shows what happens then. `ExchangeImplementsIdentity` shows that the owner
  in an exchange behaves as `PgpIdentity` specifies, so the theorems there carry over.
* **GpgWrapperProofs** proves all properties of the run `gpg_wrapper`, for any number of
  instances, directories, addresses and keys. `WrapperInv` says of every instance that its
  directory exists and that the one named after it is nobody else's, of every directory
  that its secret keys were generated before now, of every call that its record has the
  shape of its kind with all paths in its directory; and of every undisturbed instance
  that its fields are in the keyring (`TrackedInv`) and what is on disk at each step of
  its call (`CallInv`). The frame lemmas do the work: a step of an instance changes only
  its own fields and its own directory (`OthersUntouched`), and another instance in that
  directory is disturbed from then on, so nothing has to be shown of it
  (`OthersInvariant`). That `own` is the key gpg lists first for its address needs that a
  generated key is newer than all keys there.
* **SeipReaderProofs** and **PgpFileProofs** prove all properties of the run `pgp_file` but
  its liveness. The first module has what does not depend on a file call: one step of
  the reader, on any octets, keeps all counts
  natural and accounts for every octet (`ReaderStepSound`), and goes on only in a phase it
  has a rule for (`ReaderStepKnown`). This is what makes `PgpFileTypeOK` hold for damaged
  messages and wrong lengths as well; the recursion over chunk headers is handled by a greatest
  counterexample (`ChunksAfterType`). PgpFileProofs begins with `FileInv`: what has been touched at each place
  of a call, and for a file being written, that it is a prefix of its target and that the
  pieces still to be written cut the rest of the target into runs that meet (`Growing`,
  `Cuts`). That the pieces `EncryptFile`, `EncryptFileCompressed` and `SignFile` prepare are
  such a cut of the message, chunk by chunk, is proved for all documents, recipients and
  read sizes (`MessageCuts`, `CompressCuts`, `ChunkCuts`). `NothingLeftBehind` follows. For the
  refinement, every step is a step of `OutputFile` or changes nothing the caller sees
  (one `...Refines` lemma per action).

  The second half of PgpFileProofs is about what the reader makes of an intact message: one
  for the own subkey with a matching MDC (`Intact`), of any framing of each of its up to
  three packets, with chunks of any lengths, stored or deflated, read in pieces of any
  size. `Follows` relates a reader to a place in the message. Each level says how many
  octets of a body are disposed of, in which chunk that is, and that what is waiting plus
  what is unread is exactly the rest of that chunk and the chunks after it with their
  headers (`Ahead`): `OuterAt` for the encrypted packet, `InnerAt` for the packet inside,
  `Decoded` for the literal that comes out of the decompressor. The levels are
  independent: a read moves the outer place only (`FillOuter`), a header or a run of the
  inner packet the inner one, what the decompressor is given the third. `HeaderFollows`
  shows that `parseEncryptedFileHeader` accepts the message and starts at its beginning,
  summing up the chunks it skips; `StepFollows` that a step stays in the message,
  accepts it with the whole document out, or refuses it, and that only for an empty last
  chunk. `DecryptInv` carries this through the file call (`DecryptsIntactMessages`).
  There is no hypothesis, and the message need not be one the constants describe. Two
  results follow: what is written is always a prefix of the document
  (`WritesOnlyPrefixes`), and what `EncryptFile` and `EncryptFileCompressed` write for
  the own subkey is opened and gives back the document (`DecryptsWhatWasEncrypted`).
  Documents are octets that were never deflated (`Plain`), as "inflated" is a mark on an
  octet in this model.

  `DecryptFileVerdictHolds`, `TemporaryHoldsPrefix` and `FileCallsImplementOutput` have one
  hypothesis, `OnlyMessagesPass`: what passes the MDC check is a message in `Messages`. It
  is the promise of the MDC, a cryptographic one, and no fact about the code; a file
  outside `Messages` that is a good message is opened as well. The run checks it on its
  damaged files, as `ReplacesWithDocument` includes it. For the other three calls there
  is no hypothesis (`InPlaceCallsImplementOutput`).

TLC checked these invariants on the instances of their runs before they were proved.
The proof attempts also corrected the model: the reader used to accept a packet
inside the encrypted one that starts with an octet which is no tag, and a packet other
than a literal inside a compressed one; `PgpEngine.cpp` refuses both
(`readPacketHeader`, `drainDecoded`), and so does `SeipReader` now.

The reader's proof brought out one more limit of the code, number 8 in section 5.

Only model-checked: the liveness properties (fairness is beyond the prover); what the
reader does with files that are no messages, beyond the counts of `PgpFileTypeOK`; and
everything the violation runs show.

## 5. Where the code and its documentation disagree

1. `file_decrypt`: PGP `DecryptFile` knows only the flat subkey fields and refuses a
   file encrypted to a subkey made by `AddSubkey`, which `DecryptBuffer` opens.
2. `master_fallback`: when all subkeys of an RSA block are revoked or expired, import
   falls back to the master key, for which the owner never tries to decrypt.
3. `encrypt_flags`: the fallback "regardless of flags" is taken also when the
   candidates carry flags, so a sign-only subkey is encrypted to.
4. `expiry_wrap`: creation time + expiration wraps in 32 bits, and a key that should
   last long is expired at once.
5. `file_complete`: what a failed `EncryptFile` leaves behind is decrypted with
   NO_ERROR; `Plan.md` 7.5 asks that it does not look complete.

Built into a property as an exception, because the code is modelled as it is:

6. A partial-length packet right inside the encrypted one that ends with an empty chunk
   is refused by `DecryptFile` (`PgpEngine.cpp:4759`), although `PgpEngine.h:366-368`
   accepts partial framing "alike" (`EndsWithEmptyChunk` in `DecryptFileVerdict`).
7. Lengths are written modulo 2^32 (`PgpEngine.cpp:394`): `EncryptFile` of about 4 GiB
   or more succeeds with a message `DecryptFile` refuses (`WellFramed` in `Intact`).
8. `parseEncryptedFileHeader` looks for the end of the headers in the first 65536 octets
   only, as they are "at most a few KB" (`PgpEngine.cpp:3789-3790`): a message for more
   recipients than fit there can be written and not be read (the last conjunct of
   `Intact`).
9. The wrapper's `GenerateKeyPair` for an address that already has a key keeps the old
   key as its identity (`PgpEngineWrapper.cpp:1372`; `TrackedKeysInKeyring`).
10. `DeletePeerPublicKey` erases one of several equal entries (`PgpEngineWrapper.cpp:3495`;
   `repeated` in `TrackedKeysInKeyring`).
11. `RevokeKeyArmored` takes a left-over file for its own when gpg failed
    (`PgpEngineWrapper.cpp:2267`; `ResultIsOwn`).
12. The comment on `runGpgProcess` rules out large output on stdout, but key blocks are
    exported through it (`PgpEngineWrapper.cpp:1387`); the model allows it, and
    `GpgCallReturns` holds all the same.

Noted while reading, without a run: `VerifyFile` checks against the peer's master key
only; `PgpEngine.h:153` says that only 0x0C subkeys can be added, but 0x02 is
supported; `PgpEngine.h:283` says that Sign uses the own master key, but a signing
subkey is preferred.

## 6. Not modelled, and the plan

Byte formats (armor, MPI, compression, X.509, CMS), the cryptography, logging, vendored
libraries and the testers stay out. Of `CPgpEngineWrapper`, the calls that are a single
run of gpg and leave nothing in the wrapper (user id and subkey edits, ChangePassword,
keyservers, inspection, the File calls) add no state to `GpgWrapper`; passwords show
there only as runs that fail. Two instances used in one home directory at the same time
do read each other's temporary files; the model has it, and nothing is claimed of it.
Two `DecryptFile` calls with one output at the same time share a temporary name and are
not modelled. Nor is an exception in the drain loop of `runGpgProcess` followed by the
caller removing files its child still uses: a run of gpg is one step of `GpgWrapper`.

What is left, in this order:

1. **KeyEngines**: the lazily created engines of `CCryptoApi` over the providers' key
   handles, with generation failing at each step.
2. **ChunkedBuffer**: `EncryptChunked`/`DecryptChunked` and the buffer calls' size
   negotiation, with 32-bit arithmetic, against a reference definition.
3. **DllLoader** (`hDll` is neither initialised nor reset, so that the destructor may free
   a module twice or one never loaded), **SshSession**, **CertStore** and the Python
   interpreter's reference count: the remaining handle lifecycles.
4. PgpExchange extended with additional recipients, symmetric and combined
   encrypt-and-sign messages.

Theorems worth proving next: the converse of `DecryptsIntactMessages`, that every file
the reader accepts is laid out like a message, with which `OnlyMessagesPass` would be
about the MDC octet alone.
