# Agent Capsule: TLA+ models and proofs

This directory models the core of Agent Capsule (`src/agentcapsule`): the receiver
that takes agent messages, finds capsules and reference descriptors in them,
verifies them against a local policy and a registry of trusted keys, and unpacks
what passes; the downloads behind references; the registry file itself; and the
way of a capsule file from the command that packs it to the commands that read
it. The modules are checked with TLC on small instances, and the properties that
matter most are proved with TLAPS for every value of the constants.

## The system

| Component | State | Operations | Talks to |
| --- | --- | --- | --- |
| Receiver (`receiver.py`) | report in the making: message index, blocks, inline items, references; files under the output directory | `ingest_messages`, `verify_capsule`, `unpack_capsule`, `pack_path` | everything below; the scanner first, then verification per item, `fetch_capsule` per reference |
| Scanner (`scanner.py`) | offset in the joined text, counts, verdicts | `scan_text` | policy, signing, trust, envelope, manifest |
| Capsule verification (`envelope.py`, `policy.py`, `signing.py`, `encryption.py`, `compression.py`, `backends.py`) | bytes decompressed so far | parse, check metadata, signature, trust, decode, decrypt, decompress, compare digests | registry look-up |
| Pack and sign (`envelope.py`, `signing.py`, `encryption.py`, `manifest.py`) | the files read so far, the envelope in the making, the capsule file | read a file or directory, build, compress, seal, sign, write | key files |
| Manifest and sandbox (`manifest.py`) | files on disk | manifest against payload, `unpack_payload`, `_safe_join` | receiver, commands |
| Trust registry (`trust.py`, `cli.py`) | registry files | look-up, merge, snapshot verification, import and sync | receiver, fetcher |
| Fetcher (`fetcher.py`) | the file at `save_path`, the chunks handed out | `fetch_capsule`, `_fetch_resumable`, `stream_fetch_capsule` | HTTP servers |
| Command line (`cli.py`) | key files, capsule files, registry files | `pack`, `verify`, `unpack`, `inspect`, `keys generate`, `trust` | the library |
| Policy loading (`policy.py`) | none | the policy record and its checks | verification |
| Audit, adapter, codec registry | none | formatting | |

What is hard in it:

* **Order of checks.** One item passes eight checks in four modules, each of which
  raises by itself; each of three signature modes takes another path through them.
* **The same checks four times.** `verify_capsule`, the scanner, the commands `verify`
  and `unpack`, and `inspect` each have code of their own for them.
* **Two readings.** The scan reads all messages joined, the receiver each message
  on its own, at another time and against a clock that moves; `unpack_capsule`
  parses its file a second time after it verified the first reading.
* **Order of building.** The tag of a sealed payload binds the headers as they are
  when it is sealed, the signature as they are when it is made; a header added or
  changed too late makes a capsule that nobody accepts.
* **Partial failure.** Any item may fail in any phase, half unpacked, and no other
  item of the run may suffer.
* **Crashes.** Files are written in place, by a receiver, a packer, a download, a
  trust command or `keys generate`, that may be killed inside a write and is then
  run again over the result.
* **Files that others change.** A directory is edited while it is packed; a capsule
  file is replaced between two readings; two commands write one registry file or
  one pair of key files.
* **Unreliable servers.** Error pages, dropped connections, servers without ranges,
  and retries that resume from whatever the disk holds; a stream hands out bytes
  before their digest is known.
* **Several registries.** Entries for one key that disagree, in any order.
* **A limit in bytes** for a decompression that reads in chunks.

`PROJECT.json` lists these as hazards, each at its line with the properties that
would catch it going wrong.

What makes each component correct:

* receiver: only what met the whole policy is accepted, and a reference only with
  both digests of its descriptor; every marker and every descriptor is reported,
  with a final status; the files of the report are on disk; altogether, it
  implements the receiver of `Ingest`;
* scanner: whenever the report does not block, it agrees with the receiver, and a
  doubtful signer is flagged;
* verification: the ordered checks amount to an acceptance condition that knows no
  order; decompression is bounded, and cut short by its limit only when it says so;
* packing: what was packed is accepted by every reader that shares the keys, and
  what is accepted was packed, header by header;
* commands: they agree with `verify_capsule`; a pair of key files is a pair;
* fetcher: what is returned is what was asked for and what is on disk; resuming
  goes on where the last attempt stopped; a stream hands out a prefix; retrying
  succeeds in the end;
* registry: a revocation wins in a merge; what a receiver can load is what a root
  key signed; an undisturbed success is installed whole.

## The modules

| Module | Models | How |
| --- | --- | --- |
| `Trust` | `SignatureRegistry.resolve` | entries, revocation, expiry, first match |
| `Paths` | `_safe_join`, `_safe_filename` | a path is its components |
| `Capsule` | a parsed capsule, the policy and each check | a list of reasons per check, in order; the code raises the first |
| `Acceptance` | nothing: it is the specification of `Capsule` | intact, admitted, authentic |
| `Messages` | message text | markers, bodies, descriptors and prose as tokens |
| `Receiver` | `ingest_messages` and the scan | one action per step of each loop; `pc` names the loop |
| `Ingest` | nothing: it is the specification of `Receiver` | admit, store, accept, reject, report, at any time and in any order |
| `ReceiverProps` | what a run promises, and the refinement mapping | stated from the report and the disk, without the code's order |
| `Commands` | the checks of `verify`, `unpack` and `inspect` | lists of reasons, like those of `Capsule` |
| `Envelope` | building, sealing, signing and reading a capsule | symbolic cryptography: a signature or a tag is the key with all that it covers |
| `KeyFiles` | `keys generate` | two files, any number of commands, killed at any step |
| `Handover` | `pack`, a capsule file on its way, and five readers | composes `Envelope`, `Commands` and `KeyFiles` |
| `Inflate` | the loop of `decompress_payload` | bytes are counted |
| `Fetcher` | plain, resumable and streaming download | replies, chunks, flushes, faults, kills |
| `RegistryMerge` | `merge_signature_registries` | one step per key |
| `TrustStore` | `trust import-snapshot` and `trust sync` | any number of commands on one file, killed at any step |
| `VerifyProofs`, `ReceiverProofs`, `IngestProofs`, `HandoverProofs`, `InflateProofs`, `FetcherProofs`, `MergeProofs`, `TrustStoreProofs` | theorems | |
| `MCData`, `MCGate`, `MCSplice`, `MCRefs`, `MCIngest`, `MCRestart`, `MCHandover`, `MCInflate`, `MCFetcher`, `MCMerge`, `MCStore` | instances for TLC | |

`Capsule` extends `Trust` and `Paths`; `Acceptance`, `Commands` and `Messages` extend
`Capsule`; `Receiver` composes scanner, extraction, verification, references and
unpacking over them; `ReceiverProps` instantiates `Ingest`. `Envelope` extends
`Acceptance` and `Commands`, and `Handover` extends `Envelope` and `KeyFiles`.
`RegistryMerge` and `TrustStore` extend `Trust`, whose look-up the receiver uses.
`Fetcher` and `Inflate` stand alone: the receiver sees the text a download
returned, or an error, and the bytes a payload decompressed to, or an error.

### How state and actions correspond to the code

*Receiver.* `pc` is the loop of `ingest_messages` the run is in: `scan` (the loop of
`scan_text`), `extract` (`_extract_inline_capsule_blocks`), `inline` (lines
333-371), `write` (the loop of `unpack_bundle`), `detect`, `fetch`, `match`,
`unpack` (lines 373-476), `done`, and `down` after a kill. `inline`, `refs` and
`malformed` are the lists of the report. `disk` holds a file with the capsule its bytes came
from, a ghost no guard reads. The clock `now` may tick between any two steps, and
each verification reads it for itself, as `datetime.now` does. `Restart` starts
another run over the same output directory with any job.

*Ingest.* The mapping takes `admitted` to the capsule of the task while `pc` is
`write`, `accepted` to the capsules of the accepted items, `failed` to what
`_disposition` sees as a failure, `outcome` to the disposition once the run is done,
and `stored` to `disk`. The abstract receiver has no scan, no loops and no
reasons; it says that a capsule is admitted only if it passes the whole policy at
that moment, that nothing but files of an admitted capsule is stored, that a kill
leaves at most one file cut short, and that a call in which anything failed
ends in `block`.

*Handover.* `pack.pc` is `walk` while files are read one by one, `sealed` once the
envelope is built and signed, `opened` once the capsule file is truncated.
`EditTree` changes the directory at any time. `Alter` is what may happen to the
file on its way: one field or the payload changed, the file replaced by another
capsule or by the payload of one under the headers of another, or removed.
`reader.pc` is `check` after the file was parsed, `again` before `unpack_capsule`
parses it a second time, and `write` before files are written; `first` and `second`
are the two readings. `Budgets` is a set of scenario families: which calls are
made, and how many events of each kind happen.

*KeyFiles.* `phase` of a command: `checked` (neither file is there, or `--force`),
`privateOpen` (truncated), `private` (written), `publicOpen`, `done`. A command is
named by the key it draws. `mixed` and `last` are ghosts no guard reads.

*Inflate.* One `Read` per pass of the loop, of any size up to the one asked for. The
end of the stream, damage and the limit are the three ways out.

*Fetcher.* `file` is what is at `save_path`, `buffer` what the file object holds
back, `pending` what a `write_bytes` is about to write. Each reply of the server is
an action, and so is each chunk. A `drop` closes the file (and flushes it), a
`crash` does not. Bytes are pieces; a body is a sequence of them, and the error
page is a body no capsule has. In mode `stream`, `open` waits for the reply and
`yield` hands out one chunk after another, counted against the limit; `given` is
what the caller has got so far. `want` is independent of `served`: a server may
publish another body than the one whose digest is asked for, so each of the three
comparisons of a digest (fetcher.py:76-79, 132-137, 184-187) may fail.

*RegistryMerge.* `merged` is the dictionary by identity, read key by key.

*TrustStore.* `phase` of a command: snapshot read, verified, file opened and
truncated, document written and success reported. A file has a length as well as
a document, since a shorter document written over a longer one, opened earlier by
another command, leaves the other's tail.

### What is abstracted

* SHA256 is collision free: a digest is represented by the value it is the digest
  of, a fingerprint by its key. In `Capsule`, a signature and a ciphertext are
  represented by who made them over just these bytes, or `Bad`; `Envelope` computes
  that from what was signed and sealed, and from what is being read.
* An exception is named by the reason code the receiver gives it; `OTHER` is one it
  does not recognise, reported as `UNKNOWN_ERROR` for an inline item and as the
  fallback of its phase for a reference. Wording, stages and excerpts are left out.
* Text is tokens. A begin marker followed by prose or by an end marker is a block
  that does not parse; prose is neither base64 nor a marker; a descriptor inside a
  block spans several lines.
* In `Envelope`, headers of free text are represented by `created_by` and `filename`.
  Blanks around a text are the map `Padded`: a header value loses them when it is
  parsed. A header and the one that names its encoding are one.
* In `Handover`, the payload of a single file has one size, and a bundle the number
  of its files: limits apply, sizes do not matter otherwise. `Bad` as an
  encryption key is a malformed one; for `inspect` the two differ where a variable
  is not set.
* A directory is listed in one step before its files are read. `os.walk` lists a
  subdirectory when it comes to it, so it may also find a file that appeared
  there meanwhile. An HMAC signature is only asked for with a secret.
* The key files of `KeyFiles` all have the same length, as the base64 form of raw
  Ed25519 keys does.
* A path is a sequence of components with `""` for a leading slash. The sandbox
  and the packed directory hold no symbolic links. Empty directories that a kill
  leaves are not tracked.
* A bundle payload that is JSON but no object is taken to fail like one that is no
  JSON at all (the code raises another exception, with another reason).
* The file a reference is downloaded to is not on the receiver's disk: `Fetcher` is
  about it, and the receiver sees the text or an error. Blocked addresses are a
  value of `uri`.
* Fingerprints in a policy are lower case; a call has at least one message.
* In `TrustStore` a command reads its snapshot in one step. A part of one document
  over a part of another (two commands at once and a kill inside a write) is
  assumed not to be JSON.

## The runs

| Run | Instance and bounds | Distinct states | Shows |
| --- | --- | --- | --- |
| `ingest` | three families of jobs, one run each, clock 0..1: some forty capsules that differ from a good one in one respect, inline and by reference, against every policy field, nine registries and the key options; every order of up to four tokens, then a second message, with a key that expires during the run; pairs of nine descriptors, fetch on and off, each fetch may fail | 108,007 | `AcceptedIsVerified`, `DoubtfulSignerIsFlagged`, `EverythingReported`, `CleanReportAgrees`, `AcceptedIsWhatWasReferenced`, `ReasonsAddUp`, `StatusIsFinal`, `ImplementsIngest`, `TypeOK` |
| `restart` | bundles that unpack, fail half way, climb out or overwrite themselves, and references; killed anywhere, also inside a write; two runs over one directory | 8,704 | `ReportedFilesAreThere`, `OnlyVerifiedBytes`, `OrphansAreReported`, `RunEnds`, `ImplementsIngest` |
| `fetch` | bodies of up to four pieces against a limit of three, plain, resumable and streaming; two faults of each kind; two capsules to one path; the digest asked for is that of any body, the published one or not, or none | 136,921 | `ReturnedIsWanted`, `FileIsResult`, `ResumeKeepsPrefix`, `StreamIsPrefix`, `RetrySucceeds`, `TypeOK` |
| `merge` | two registries of up to two entries, three of up to one, two keys | 79,609 | `RevokedWins`, `TrustIsNotInvented`, `TypeOK` |
| `sync` | two commands, six snapshots, both operations, one kill, clock 0..1 | 17,916 | `LoadedIsAdmitted`, `SuccessIsInstalled`, `RegistryIsRepaired`, `TypeOK` |
| `handover` | two files, five ways to pack, seven options and five kinds of reader in four families: two edits and a kill while a directory is packed; two packs and a change between two readings; one change and every reader; two key pairs drawn around a pack and a read | 917,671 | `PackedIsAccepted`, `AcceptedWasPacked`, `FilesAreOfThePayload`, `UnpackedIsPacked`, `VerdictsAgree`, `InspectionAgrees`, `PairIsWhole`, `KeysAreKept`, `TypeOK` |
| `inflate` | streams of 0 to 8 bytes, cut or damaged anywhere, chunks of 3, settings from -1 to 6, none, and no number | 3,970 | `OutputIsBounded`, `OutcomeIsExact`, `LoopEnds`, `TypeOK` |
| `alias`, `poison`, `oversize`, `unrevoke`, `padded` | see Findings | | a counterexample each |

Deadlock is checked, with an explicit step in which a finished program rests,
except in two places: `handover` and `padded` stop when the budget of their events
is spent, and `inflate` when the call it models has returned.

Why the bounds are enough. The checks of `verify_capsule` look at one capsule, and
a registry look-up at the entries that match it, so one capsule per variant and
registries of two entries reach every branch of every check. Extraction looks for
the next marker only: four tokens hold truncated, nested and spliced blocks, and a
second message the ones that cross a message border. Two references or two items
in a message let one disturb another. The clock matters once between two readings.
A download has a beginning, a middle and an end with three pieces, and a fourth
exceeds the limit. A second run over a directory meets everything that a first
leaves. Two commands interleave in every way at one file. Two packs make one
capsule mixed with another; a reader looks at one file, at most twice. Two files
let an edit come before, between and after the two readings of a directory. The
streams of `inflate` are longer than two chunks and lie below, at and above each
limit. The contents of files are interchangeable (`SYMMETRY` of `handover`, a run
without liveness). The theorems below lift most safety properties over all bounds.

Fairness. `Receiver` assumes `WF_vars(Step)`: the run is one thread that waits for
nothing but a fetch, and a fetch ends by its timeout (`fetcher.py` gives one to
every request). `Fetcher` assumes `WF_vars(Progress)`: a request is answered or
times out, and the caller tries again; faults are bounded by `MaxFaults`, since no
download ends on a line that always drops. `TrustStore` assumes that a started
command goes on, and strong fairness of a retry that gets a good snapshot: whoever
runs the sync repeats it, and the issuer serves a good snapshot again and again.
`RegistryIsRepaired` also asks that in the end no two commands write at the same
time: two overlapping commands may both report success over an unreadable file.
`Inflate` assumes `WF_vars(Next)`: a call of the library returns.

Each property has a mutant, kept beside the definition it replaces (`Mutant of
...`), which the run refutes.

## Findings

* `alias`: a bundle with the files `a` and `./a` passes verification, and its second
  file replaces the first. The duplicate check compares strings, the writer joins
  components (manifest.py:259, 327, 381), and the protocol document describes the
  list as that of the decoded files.
* `poison`: when a resumed download is answered with an error status, the fallback
  stores the body of the next reply without looking at its status
  (fetcher.py:119-130). The digest check raises but leaves the file, so each later
  retry asks for the range behind wrong bytes and fails as well.
* `oversize`: a resumed download may return more than `max_download_bytes`. The limit
  is compared with `st_size` while the file object still holds bytes back, and not
  at all when nothing remains to be fetched (fetcher.py:112-118, 132).
* `unrevoke`: the merge sorts the entries by key id, and a look-up by fingerprint
  alone takes the first match: a key that every registry revokes may be trusted
  after the merge (trust.py:82, 167), although the changelog calls the merge
  deterministic and `revoked`-wins. With a key id in the capsule the promise holds
  (`TrustIsNotInvented`, and `RevokedWins` for every input).
* `padded`: a file whose name begins or ends with a blank is packed without
  complaint, and its capsule fails verification: the parser strips header values
  (envelope.py:250), the manifest, which is base64, keeps the name, and the two are
  compared. `PackedIsAccepted` holds in `handover`, where no name has such blanks.

## What is proved

| Theorem | Module | Statement |
| --- | --- | --- |
| `VerifySound` | `VerifyProofs` | no error from the ordered checks implies the acceptance condition |
| `VerifyComplete` | `VerifyProofs` | the acceptance condition, with the right key, the first registry entry and no malformed key, implies no error |
| `OnlyVerifiedIsAccepted` | `ReceiverProofs` | `Spec => []AcceptedIsVerified` |
| `OnlyReferencedIsAccepted` | `ReceiverProofs` | `Spec => []AcceptedIsWhatWasReferenced` |
| `OnlyVerifiedIsWritten` | `ReceiverProofs` | `Spec => []OnlyVerifiedBytes` |
| `RejectionsAreExplained` | `ReceiverProofs` | `Spec => []ReasonsAddUp` |
| `VerdictsAreFinal` | `ReceiverProofs` | `Spec => StatusIsFinal` |
| `ReceiverRefinesIngest` | `ReceiverProofs` | `Spec => ImplementsIngest` |
| `IngestIsTyped` | `ReceiverProofs` | `Spec => []TypeOK` |
| `ReportedFilesExist` | `IngestProofs` | `Spec => []ReportedFilesAreThere` |
| `EveryFileIsAccountedFor` | `IngestProofs` | `Spec => []OrphansAreReported` |
| `NothingIsLost` | `IngestProofs` | `Spec => []EverythingReported` |
| `DoubtIsReported` | `IngestProofs` | `Spec => []DoubtfulSignerIsFlagged` |
| `CleanReportsAgree` | `IngestProofs` | `Spec => []CleanReportAgrees` |
| `OnlyPackedIsAccepted` | `HandoverProofs` | `Spec => []AcceptedWasPacked` |
| `InspectedIsAccepted` | `HandoverProofs` | `Spec => []InspectionAgrees` |
| `WrittenIsVerified` | `HandoverProofs` | `Spec => []FilesAreOfThePayload` |
| `PackedAlwaysAccepted` | `HandoverProofs` | `Spec => []PackedIsAccepted`, where no name has blanks around it |
| `UnpackedIsWhatWasPacked` | `HandoverProofs` | `Spec => []UnpackedIsPacked`, likewise |
| `CommandsAgree` | `HandoverProofs` | `Spec => []VerdictsAgree` |
| `HandoverIsTyped` | `HandoverProofs` | `Spec => []TypeOK` |
| `CommandsCheckTheSame` | `HandoverProofs` | `CommandErrors` is empty just when `VerifyErrors` is |
| `KeysComeInPairs` | `HandoverProofs` | `Spec => []PairIsWhole` |
| `NoKeyIsLost` | `HandoverProofs` | `Spec => KeysAreKept` |
| `ReturnedBytes`, `SavedBytes` | `FetcherProofs` | `Spec => []ReturnedIsWanted`, `Spec => []FileIsResult` |
| `FetchIsTyped` | `FetcherProofs` | `Spec => []TypeOK` |
| `ResumeContinues` | `FetcherProofs` | `Spec => []ResumeKeepsPrefix` |
| `StreamHandsOutPrefix` | `FetcherProofs` | `Spec => []StreamIsPrefix` |
| `RevokedAlwaysWins` | `MergeProofs` | `Spec => []RevokedWins` |
| `NoTrustIsInvented` | `MergeProofs` | `Spec => []TrustIsNotInvented` |
| `MergeIsTyped` | `MergeProofs` | `Spec => []TypeOK` |
| `LoadedWasSigned`, `ReportedIsInstalled` | `TrustStoreProofs` | `Spec => []LoadedIsAdmitted`, `Spec => []SuccessIsInstalled` |
| `StoreIsTyped` | `TrustStoreProofs` | `Spec => []TypeOK` |
| `LimitIsOne`, `InflateIsBounded`, `InflateIsExact` | `InflateProofs` | `Spec => []TypeOK`, `Spec => []OutputIsBounded`, `Spec => []OutcomeIsExact` |

Assumptions are those the modules name: `TrustAssumption` (identifiers are numbers,
`None` and `Bad` are none of them), `CapsuleAssumption` (`Bad` is neither a blob nor a
bundle), `ReceiverAssumption` (jobs are well typed and have a message), `EnvelopeAssumption`
(a text without its blanks has none, a shared secret is neither `None` nor `Bad`),
`KeyFilesAssumption` (a drawn key is new), `HandoverAssumption` (a path is listed
once), `FetcherAssumption`, `MergeAssumption`, `StoreAssumption` and
`InflateAssumption` (the limits are positive). TLC evaluates each on the instances.
Three theorems have hypotheses of their own: `NoFunction` says that `None` and `Bad`
are no records or sequences, as model values are not; `NoBlanks` that no author and
no packed name has blanks around it, which is what `padded` shows to be needed.

*Verification.* `VerifyErrors` is a concatenation of lists; it is empty only if each
part is. A lemma per part says what its emptiness establishes, and `VerifySound`
puts them together into `Passes`. `VerifyComplete` is the converse, and its hypotheses
say what the code asks beyond `Passes`: the key it picks (the caller's, else the
registry's, else the inline one) is the signer's, the entry that matches first is
the one that vouches, and the encryption key of the receiver is not malformed even
where nothing is encrypted.

*Receiver.* `AcceptedIsVerified` alone is not inductive: an item is reported as
unpacked several steps after it was verified. The invariant is `Shape /\ Items`.
`Shape` types the control state: indices, lists, and which task belongs to which
`pc`. `Items` says that a task being written passed at a time not after `now`, that
a reference past `match` has the digest of its text, and that every accepted item
has what the property asks. Each action preserves both, with one lemma per group
of actions; a tick of the clock preserves them since "at some time up to now" only
grows. `OnDisk` adds that a file holds bytes, or half, of a capsule that passed some
run, `Settled` that an item behind the loop has its final status, and a reason just
when it was not accepted, and `Counted` that malformed blocks are counted by a
number that only grows within a run. `Typed` joins `TypeOK` with `Shape`, `Items`
and `OnDisk`.

*Report and disk.* An item's directory is named by its message and by its number in
it, and `ReportedFilesAreThere` is kept only because no other item writes there.
`Numbered` relates the two lists of the report to `m`, `next` and the directory of
the task: the number of items a message has so far is `next` or one less,
depending on the loop. `OwnDirectory` follows: the directory of the item being
unpacked is that of no item reported with files, so `Put` overwrites only what the
task itself wrote, and `Held` (what the task has written is there too) is inductive.
`Orphans` says of a first run that every file is reported, or recorded by a failure,
or one of the task's; a bundle that fails half way turns the last into the second.

*Report and messages.* `Tallied` says of each loop how far the lists have come:
`Len(inline) + Len(blocks)`, `malformed` and `Len(refs)` are the numbers of closing end
markers, of unclosed begin markers and of descriptors that come before the place
`(m, off)`. The search jumps from a marker to the end of its block; `Searched` is
what makes this sound: a begin marker behind the offset has its end marker behind
it too, or has none. The lemmas `PassNone`, `PassOne`, `PassMessage` count what a jump
passes. At the end everything has been passed.

*Two readings.* The scanner and the receiver read different texts at different times.
`Encloses(text, b, e)` says, without a search, that `b` and `e` are the markers of a
block. `ScanSound` says that what the scanner has gone past is noted: each block
behind its offset is counted as invalid or had its signer looked up, and if none is
invalid and none is shut (encrypted, without a key), the valid ones are as many as
the blocks. `Found` says that all the receiver has is a block of some message, and
checked if accepted; `Gathered` that it has every block behind it. The texts are
compared by `LaidOut`: the joined text holds each message at a place of its own,
in order and without gaps (by induction over the messages, for a `FlattenSeq` that is a
fold). If no marker is left open, `SameBlocks` and `SameNumber` say that joining neither
makes, hides nor changes a block. `DoubtIsReported` follows for a revoked key since
a revocation has no date, and for every other doubt since a signed block looks
dense to the scanner, whatever it thinks of it; `CleanReportsAgree`, since
a clean report has no open marker, no rejected block and so none without its key.

*Refinement.* With these, each action of `Receiver` is a step of `Ingest` under the
mapping, or leaves the mapped variables alone: a verified item is `Admit`, a file
written `StoreFile`, the end of its bundle `Accept`, every rejection `Reject`, the
last message `Report`. `Settled` is needed to see that no step takes a failure or an
acceptance back.

*Handover.* `HandInv` is `PackOK /\ FilesOK /\ ReaderOK` with the type of the budget.
`PackOK` says that a finished envelope is `TextOK`: its signature is over itself and
its tag over its headers. `FilesOK` says that every capsule sent is such an
envelope as a reader parses it, and that the file is `None`, `Bad` or `FileOK`: its
signature is one that was sent, and so is its payload. `ReaderOK` says that what a
reader found follows from its first reading. A signature or a tag that fits
contains the headers it was made over, so equality of what it covers gives
equality of the capsules; trimming twice is trimming once, so a change of a header
of free text is never mistaken for the header as it was packed.
`CommandsCheckTheSame` compares the two lists of checks part by part.

The theorems about honest packs add `WalkOK`, `SentOK`, `AnswerOK` and `ListsOK`. `WalkOK`
says that a walk has read each listed path once, so that the entries of a bundle
have distinct paths whatever was edited meanwhile, and that a sealed envelope is
`IsPack`: what `Seal` makes of such entries. `SentOK` says so of all that was written.
`BuiltOK` and `SignedOK` list the headers that building leaves and signing adds;
signing keeps the first, so the tag still fits, and `PackedView` says what a
reader sees. One lemma per check then says that it finds nothing (`MetadataClear`,
`PayloadClear`, `HmacClear`, `TrustClear`, `PackedManifest`), for `inspect` too, whose key
is the same wherever it finds one. `AnswerOK` traces an answer to the first reading
or to the unpacking, and `ListsOK` says that every capsule on its way has a
manifest, so that a payload accepted as a bundle is one.

*Key files.* `KeyInv` says of a command that never shared its time with another that
what it has found or written so far is still there, and that two commands at work
are both `mixed`.

*Merge.* `RevokedWins` covers the keys read so far, so it is inductive with the place
in the lists; the three ways to take a key are the three cases. `TrustIsNotInvented`
is about a look-up in the sorted result. `Origin` says that an entry of the merge that
is not revoked was the first of its identity in a registry that was read, so the
same look-up in that registry finds it; `Result` says that the sorted list holds
what was merged, of which only that, and no order, is used.

*Trust store.* The invariant says, per command, that past `Verify` its snapshot was
admitted at some time up to now, and that a command alone at the file finds it
empty when it has opened it, or with its document when it has written it; and of
the file, that its document comes from an admitted snapshot. `RoundTrip` shows
that a key survives the way into the file and back.

*Fetcher.* What is about to be saved, and what is returned, has the digest asked for,
whichever body is published. `PrefixInv` adds that the file,
the buffer and what is still to come make up the published body, and `StreamInv`
that what was handed out and what is still to come do; what was handed out stays a
beginning of that body until the next capsule, however the call ended. `FetchIsTyped` includes that
a call that resumes has a file to resume.

*Inflate.* The loop keeps what it reads as long as the total is within the limit, so
a read of one byte more than remains overshoots by at most that byte; the read
size is never zero, so an empty chunk is the end of the stream.

Facts about data that would be an induction (a fold joins all its sequences, a set
of numbers has a least one, `UpTo`, `FlattenJoins`, `FirstIsLeast`) are proved for the
definitions at hand by taking a least counterexample, since the induction theorems
of the library take an operator that the provers cannot instantiate.

Only model-checked: liveness (`RunEnds`, `RetrySucceeds`, `RegistryIsRepaired`,
`LoopEnds`), which the prover cannot reach. Every invariant and every action
property of the passing runs, and the refinement, is stated by a theorem.

## Plan

Done: all modules above, their runs and theorems. What could be added next: the
safety part of `RegistryIsRepaired` (a retry that meets no other command leaves a
file that loads), and the address checks of the fetcher.

## Not modelled

* Parsing of policy files, of header syntax and of command line arguments, report
  formatting, audit events and the framework adapter: functions without state whose
  properties are about wording and layout.
* Name resolution and address classes in the fetcher, reduced to a verdict.
* Symbolic links, in a packed directory or in the output directory.
* Text with lone surrogates, which raises outside the `try` of `ingest_messages`
  (receiver.py:334): strings are tokens here.
* An order of registry snapshots: neither the code nor the documents promise one,
  and `TrustStore` lets an older snapshot replace a newer.
