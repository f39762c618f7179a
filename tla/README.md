# Verification of isomd5sum

TLA+ models of the programs of this repository, the TLC runs that check them on
small instances, and proofs that TLAPS checks for all instances. The source is
the reference: every definition is translated from the code, and `PROJECT.json`
names the lines it stands for.

## The system

isomd5sum implants a digest of an ISO 9660 image into an unused field of the
image itself, and checks a medium against the digest it carries.

| Part | Source | State | Operations |
|---|---|---|---|
| volume scan, descriptor parsing, fragment sums | `utilities.c`, `utilities.h` | file offset, sector buffer, `struct volume_info` | `read_primary_volume_descriptor`, `isosize`, `parsepvd`, `primary_volume_size`, `validate_fragment(_sha256)` |
| media check | `libcheckisomd5.c` | file offset, hash context, `offset`, `previous_fragment` | `mediaCheckFile`, `mediaCheckFD`, `checkmd5sum`, `clear_appdata`, `printMD5SUM` |
| implanters | `libimplantisomd5.c`, `libimplantisosha.c` | the same, and the sums so far; the image | `implantISOFile`, `implantISOFD`, and the SHA ones |
| check tools | `checkisomd5.c`, `checkisosha.c` | the percentage printed last, terminal mode, keys | `main`, `outputCB`, `user_bailing_out`, `processExitStatus` |
| implant tools | `implantisomd5.c`, `implantisosha.c` | the flags | `main` |
| hash contexts | `md5.c`, `sha256.c`, `validate_fragment()` | bit counts, partial block, a copy | `Init`, `Update`, `Final`, `validate_fragment(_sha256)` |
| Python binding | `pyisomd5sum.c` | reference counts, the pending exception | `checkisomd5sum`, `implantisomd5sum`, `pythonCB` |
| popt for Windows | `simple_popt.h` | position in `argv`, the flags | `poptGetNextOpt`, `poptGetArgs` |
| system call wrappers for Windows | `win32_compat.h` | none | |

How they interact: a tool calls a library, which calls `utilities.c` and the hash
contexts. The check calls back into the tool, or into a Python object, for each
block read (progress out, "abort" in). Implanter and checker meet only on the image: what one writes into the
application data the other parses. Nothing locks the image.

The behaviours that are hard to test: reads that return less than asked for, or
overstate what they returned; media that cannot be read or end early; the
relation between fragments, reads and the order of the stored sums; a tool that
is killed between erasing an old certificate and writing the new one; torn
writes; a check, or a second implanter, that runs while the image is implanted; a
certificate that is cut at any character when it is parsed; the race between
the keyboard and the callback; a Python callback that raises or dies; counts that
overflow. `PROJECT.json` lists each
hazard at its line with the properties that would catch it.

What makes each part correct:

* scan: it finds the first primary descriptor before a terminator, and ends;
* parser: it takes whole fields for what they say in any order, and no torn certificate for another one;
* check: it hashes exactly the volume with blanked application data; PASS means that the stored digest is that of what is on the medium; a correct medium is not condemned; a bad fragment ends the check; it returns;
* implanters: success means that the image carries the certificate of its own content; no failure or kill leaves another image's certificate; nothing outside the application data changes;
* together: a medium damaged since it was implanted does not pass, one that was not is not condemned;
* tools: exit status as in the manual page, monotone progress, a terminal that works afterwards; the same command line means the same on Windows;
* Python binding: the program learns what its callback answered or raised;
* hash contexts: nothing lost between pieces, padding as specified, different messages give different blocks.

## Modules

```
IsoLayout      the image: descriptors, size, kernel reads and writes, digests
  AppData      the fields of the application data: written, parsed
    VolumeScan    read_primary_volume_descriptor(), step by step
      ParsePvd       parsepvd() on characters, round by round
    Certificate   what an implanted image is, without steps (reference)
      MediaCheck    checkmd5sum(), step by step
        CheckTool      main() and outputCB() around it, with a user
      Implant       implantISOFD() / implantISOSHAFD(), step by step
        ImplantTool    main() around it, with SimplePopt on Windows
      RoundTrip     two of Implant and MediaCheck on one image, with damage
      PyBinding     MediaCheck under pyisomd5sum.c, with a Python program
CheckPromise   the manual page's contract, implemented by CheckTool
SimplePopt     simple_popt.h, and what popt itself does
HashContext    md5.c and sha256.c: pieces, counts, padding
MC*            instances for TLC

CertificateLemmas  least numbers, quotients; images: the search, writes, fields, digests
  ParsePvdProofs     about VolumeScan and ParsePvd
  MediaCheckProofs   about MediaCheck
    CheckToolProofs    about CheckTool
  ImplantProofs      about Implant and ImplantTool
  RoundTripProofs    about RoundTrip, with instances of the two above
HashContextProofs  about HashContext
PyBindingProofs    about PyBinding
```

**IsoLayout, AppData.** An image is a sequence of cells; byte offset `o` is cell
`o + 1`. A cell is a unit of content: a type byte, the volume size, a blank, a
field `TAG = value;` of the application data, or other data. So the 512 bytes of
application data become a few cells. The field grammar of `parsepvd()` is kept: which
fields complete which task, that the loop stops when all tasks are done, that
the last of several equal fields counts, the defaults, that without fragment sums
the memory is uninitialised, and that a hash and a number of skipped sectors are required.
A field that damage or a short write cut off is a cell that no tag matches; what
`parsepvd()` does with its characters is the subject of ParsePvd.
A digest is idealised as the content that was hashed, and a
character of a fragment sum as the digest and the character's place. The code
takes one hexadecimal digit of a digest byte for each character, so three
characters for a fragment: a fragment that is damaged is found at its end but
for one case in 4096, and in any case by the whole digest.

**MediaCheck.** One action per `read()` with all that the loop does to its block;
one per call of the callback in the loop; one each for `open()` failing,
`parsepvd()` failing or succeeding, leaving the loop, and concluding.
`ReadReturns` says what a `read()` may return. With `ShortReads` that is
anything between one cell and what was asked for; `Prefetch` bounds by how much a
count may be overstated. Uninitialised fragment sums compare either way, by
nondeterministic choice. Reading is all or nothing per cell: a cell in
`unreadable` makes a read that begins at it fail.

**Implant.** One action per system call with what follows up to the next.
`alg` selects `libimplantisomd5.c` or `libimplantisosha.c`: the two
files differ in the digest and the tag only. `Crash` may come between any two actions.
A medium comes with the `faults` of its device (reads that return less than asked
for, writes that stop early, writes that fail) and with cells that cannot be read.
`Errnos` are the values `errno` may have from an earlier call.

**VolumeScan.** The search, one `read()` a step, over a buffer that begins as
arbitrary memory and keeps what a short read leaves in it. MediaCheck and
Implant take the search as one step whose result `IsoLayout!HasPrimary`,
`ScanStop` and `PvdOffset` state; `FindsThePrimary` and `OffsetIsPvdOffset` show that the
steps arrive at that result.

**ParsePvd.** The same search, then the loop of `parsepvd()` with one round a step, over
the characters of the application data: one action per tag with the ways its
field can fail, one for a character that begins no tag. `NumberAt` is
`matches_number()`, which stores what `strtol()` made of the text even when it
rejects it; `task` is the set of the bits. `ParsesFields` connects the module with the
rest: on text of whole fields the result is `AppData!VolumeInfo` of the same
fields as cells. The text of a tag is one character, so a tag cut in its middle is a
character of no meaning. Negative numbers are left out: no implanter writes one.

**RoundTrip.** Two instances of Implant and one of MediaCheck over one `image`, every
system call of theirs interleaved. `Damage` changes a cell while none of them works.
`damaged`, `implanted`, `overlapped` and `begun` are history: what was damaged since the
last success, whether the last change was a success, whether two implanters
were at work at once, and what these and the image were when the check parsed the descriptor.

**CheckTool.** `main()` around MediaCheck, which it extends; each step of MediaCheck
that calls the callback is joined with `outputCB()`, whose answer it takes. The user
types at any time. `tty` and `stdin` are the two queues a key passes on
Unix; on Windows there is one. The refinement mapping to CheckPromise is
`asked` (a check was requested), `correct`, `missing` (an `open()` failed),
`escaped`, `exit_status`.

**PyBinding.** A Python program makes calls of the module, each check an instance of
MediaCheck with or without a callback. `CallsBack` joins the step of MediaCheck that
calls with `pythonCB()`, for an object that returns true, false or what has no truth
value, or raises. `refs` is the reference count of the callback, `held` the references
the program has; the program may drop one at any time, in the callback too.
What becomes of a program that uses a callback that was freed is not modelled. The
interpreter's part (borrowed arguments, a pending exception that turns a result
into an error) is that of CPython 3; the module compiled for CPython 3.11 was seen to
do the same. `doImplantIsoMD5Sum` is one step, since the interpreter lock is kept
and Implant has the steps.

**SimplePopt, ImplantTool.** `poptGetNextOpt()` one round a step, and `popt()`: what the
real library makes of the same line. ImplantTool parses with the one or the other,
then takes the steps of Implant, which it extends, and exits. A command line is a sequence of
arguments (`--name`, `-letters`, other text); `popt(line).args` are the places of the arguments
that are not options. A kill is left to Implant.

**HashContext.** `Update` with pieces of any length and `Final`, for both
algorithms; the bytes of the length field are two cells, one for each word. `validate_fragment`
finalizes a copy of the context between any two pieces, until `FragmentReturns` drops it.
`Padded` is RFC 1321 and FIPS 180-2, for reference.

Operators whose comment begins with "Mutant", or that a comment ending in
"(Mutant first: ...)" announces, are not part of a model: each is the definition below it with
a plausible mistake, kept to show that a property would notice.

## Runs

Images for TLC have small sectors of 8 or 9 cells (type, size, six or seven of application
data; 24 characters for the parser), one sector of system area, one skipped sector, reads of
one sector and two to four fragments of one or two characters each. Everything the
constants decide in the code happens at this size: volumes with no, short and wide
fragments, application data at the end of a block and, with short reads, split at every
place, several blocks per fragment, reads that pass over a fragment. What these sizes
leave out are more fragments and more blocks of the same kinds.

| Run | Shows | Bounds |
|---|---|---|
| `mediacheck_reads` | the invariant that is proved, progress, termination on all read patterns | volumes of 4 and 7 sectors: whole, cut, damaged, partly unreadable, with, without and with uninitialised fragment sums; counts overstated by 2 |
| `pybinding` | what the program learns of its callback; that this is alive while a check calls it | volumes of 5 and 7 sectors, damaged, cut, unreadable, without certificate; two calls, two references, so that the module can release both |
| `mediacheck_small` | **violation**: small volumes are condemned | 4 sectors |
| `implant` | certificates, kills, failing, torn and short system calls, nothing else changed | volumes of 0 to 10 sectors, blank, in use, implanted, without volume, partly unreadable, cut, also before the application data; each on a device without faults, with failing writes, with short writes, with both; short reads on the smallest; `errno` 0 and 9 |
| `implant_boot` | **violation**: with a boot record first, content is overwritten | 11 sectors |
| `parsepvd` | the search finds what it should; the parser agrees with `AppData` on whole fields and misreads no torn certificate; both end | all descriptor sequences of up to 3 with a stop, each sector readable or not; all sequences of up to 3 fields, all orders of the five, repeated ones; both certificates torn, erased, shifted and with one character changed, each at every place |
| `volumescan_noimage` | **violation**: the search does not end without descriptors | a file of 7 cells |
| `roundtrip` | PASS is never wrong and condemnation explained, with two implanters, kills, failing and torn writes, damage | 4 sectors with wide and 3 with narrow fragments, one unreadable cell, one damage before or in the descriptor; MD5 with and without force against SHA-256 with force |
| `checktool` | the manual page's promise (refinement), no correct medium condemned, no bad fragment passed over, progress, terminal, Esc | 2 keys, both platforms; volumes of 0, 1, 5 and 7 sectors with wide fragments of two characters each, damaged at both sides of each fragment's end, cut, unreadable, without fragment sums, without certificate |
| `implanttool` | exit status 0, the same meaning on Windows, force | all command lines of up to 3 of 11 arguments; a blank and an implanted volume, and one that ends before its application data; failing writes; `errno` 0 and 9 |
| `hashcontext` | both contexts, also where fragment sums are taken | all messages over {0x80, 0} up to 14 bytes in pieces of 0, 1, 3, 7 and 13, blocks of 4, words of 96 values (12 bytes) |
| `hashcontext_sha256` | **violation**: not FIPS 180-2 | the same |

What the violation runs found in the code, each with its quoted line in
`PROJECT.json` under `findings`:

1. Volumes with fragments shorter than a read (fewer than 336 sectors, 672 KiB,
   beside the skipped ones) fail the check after a successful implant
   (`libcheckisomd5.c:110`). The compiled programs do so.
2. `nbyte *= SECTOR_SIZE` (`utilities.c:64`) misplaces the application data if
   a descriptor precedes the primary one.
3. The search does not look for the end of the file (`utilities.c:54`): a file
   without descriptors hangs all tools. The compiled programs do so.
4. `SHA256_Final()` writes a wrong upper length word (`sha256.c:127`).
   The compiled code gives another digest than `sha256sum` for "abc".

Behaviours that the models contain and that no property above condemns, for a reader to know of:

* the answers of the first and the last call of the callback are ignored
  (`libcheckisomd5.c:60`, `:143`), although `libcheckisomd5.h:16` says that a non-zero value aborts the check:
  `MediaCheck!NonZeroAborts` states that sentence, which the code does not keep;
* after short reads an implanter may pass a 21st fragment end; its sum makes 63 characters in a buffer of 61
  bytes (`libimplantisomd5.c:128`, `strncat()` at `utilities.c:270`). `FragmentSumsFit` excepts short reads;
* if the file ends before its first descriptor, or a read of a descriptor is short, the byte tested is what
  the buffer held before, memory as it was allocated at first (`utilities.c:58`): the file may then be taken to have
  a primary descriptor;
* uninitialised fragment sums may condemn a volume implanted before there were
  fragment sums (`utilities.c:149`, `libcheckisomd5.c:117`);
* an implanter of a partly unreadable image reports success and leaves a certificate of
  what precedes the first unreadable cell (`libimplantisomd5.c:120`), which then passes;
* if the file ends before the application data, an implanter returns `-errno`, the value of an earlier
  error: that is success, with the image untouched, if `errno` was 0 (`libimplantisomd5.c:79`);
* a write that stopped early is success too (`libimplantisomd5.c:196`). The part of a
  certificate that is left may condemn an undamaged medium, and cannot pass a damaged one;
* without force, what a short read of the application data left out is compared as the stack
  held it (`libimplantisomd5.c:83`), so an image may be refused, or one in use taken;
* of two implanters at once, one may hash the other's certificate as content, so that after
  two successes the image is condemned (`libimplantisosha.c:119`);
* `matches_number()` stores the number also where it rejects it (`utilities.c:106`), and `RHLISOSTATUS` and
  `FRAGMENT COUNT` may end with the area, where `SKIPSECTORS` may not;
* on Unix, an Esc read by stdio together with an earlier key stays unseen until another key is
  pressed (`checkisomd5.c:63`);
* `--gauge` never prints a leading 0, and prints negative numbers for a volume
  shorter than the skipped sectors (`checkisomd5.c:73`);
* the Python binding releases a reference to the callback that it does not have
  (`pyisomd5sum.c:69`): each check with a callback takes one reference from the
  program, and after as many checks as it has references the object is freed while in use;
* an exception of the callback makes `pythonCB()` abort, one raised by the truth of its answer does not;
  either stays set, so that a `SystemError` comes of the check when it returns (`pyisomd5sum.c:38`);
* on Windows an option after the file is ignored, letters put together (`-fS`) are rejected, and `-`
  ends the options; popt takes the first two and passes over the third (`simple_popt.h`). Without the condition
  `IsConventional`, `WindowsAsUnix` is violated.

These decide the conditions of the properties. `SuccessMeansImplanted` and
`NoFalseCertificate` speak of the content up to the first unreadable cell, and except
writes that stop early and, for the fragment sums, short reads. `UndamagedIsNotCondemned`
excepts overlapping implanters, short reads and writes, and narrow fragments; `SuccessIsFound`
damage and writes that stop early; `PassedIsUndamaged` nothing. `ZeroMeansImplanted` names the success
without a certificate that an `errno` of 0 makes, and is stated for devices whose reads and writes are
whole (`DevicesAreWhole`). `CallbackLives` promises that the callback is alive while a check runs
only if the program has as many references to it as it made such checks before, and between checks only if it has more.

## Fairness

The programs are sequential and their system calls return, so each program is
weakly fair as a whole (`WF_vars(Next)` in MediaCheck, VolumeScan and ParsePvd, `WF` of
`Step` and `Main` elsewhere): some step is taken as long as one
is possible. In RoundTrip the processes are so together: the scheduler runs one of
those that can run, and as none waits for another and each has finitely many steps to take,
all come to their end. PyBinding and ImplantTool state safety only. No choice among outcomes is assumed fair. The crash, the damage and the user have no
fairness. A callback is assumed to return.

## Proofs

TLAPS proves the safety properties of every module, for all values of
the constants that the assumptions admit; the list is in `PROJECT.json` under `theorems`.
TLC evaluates the assumptions in every run: `LayoutAssumption` (what `utilities.h` fixes about its
constants), and of media that they are finite, have descriptors that end the search (otherwise
the tools hang, run `volumescan_noimage`), and that what is parsed are numbers, with no more fragments than
the volume has bytes (otherwise the loop divides by 0, `libcheckisomd5.c:110`). What a theorem needs beyond them is a named
hypothesis of it, and an `ASSUME` of the MC module or a comment beside the hypothesis says on
which media of the runs it is true and where the code fails without it.

**Search and parser** (`ParsePvdProofs`). `ScanFinds` and `ScanOffset`: while the search goes on it
is at the k-th descriptor and has passed none that stops it (`InSearch`); the product `(16 + k) *
SECTOR_SIZE` is followed in the width of the variable. `ParseTypeCorrect` has no hypothesis:
whatever the text, nothing is read past the buffer or copied past an array, because the NUL
`parsepvd()` stores at the end stops every loop. `ParsesWholeFields`, on which MediaCheck and
Implant rest, keeps that after each round the tasks done and the values stored are those
that `AppData` finds among the fields passed so far (`FieldsRead`). `TornIsRefused` keeps that a
task is done only with its own value, behind which the torn text still had the semicolon (`TornRead`).
Hypotheses: the media have the descriptors' sectors whole, each readable or
not as a whole (`MediaHaveSectors`); their offsets fit an `int64_t` (`OffsetsFit`); certificates
are as the implanters write them, the hash before the skipped sectors (`CertificatesAreWhole`); and
what Naturals says of `SECTOR_SIZE ^ k` (`PowersOfSectorSize`), which the prover does not know.

**Media check** (`MediaCheckProofs`). `Invariance` is the inductive invariant `Inv`. PASS is decided by
comparing digests; for it to say something about the medium the content hashed must be all that
can be read of the volume. So `Inv` also says that the loop's `offset` is the file offset and counts
what was hashed (`InTheVolume`), that all before it can be read, that the loop is
left only where `ReadableSize` is reached (`ReadToTheEnd`), and that what was hashed is a blanked prefix
(`HashedIsBlankedPrefix`). That last part rests on a lemma about `clear_appdata()` alone,
`ClearAppDataBlanks`: whatever the offset and length of a block, exactly the cells
of the application data are blanked. `TypeCorrect`, `HashesBlankedPrefix` and `PassIsGenuine` follow,
for every read pattern.
`CorrectPasses` and `BadFragmentStops` need that every read is whole: then a read begins at a multiple of
the buffer's size and `previous_fragment` is the number of fragment ends passed (`InStep`). An end is
therefore compared with the sum that was stored for it, and all sums of ends passed are right (`SumsSeen`).
Hypotheses: certificates have the
numbers the implanters write, with fragments at least as wide as a read (`CertificatesAreStandard`; run
`mediacheck_small` is what happens otherwise), a sum for every end (`CertificatesAreWhole`), or the same
to say in their sums and their digest (`CertificatesAgree`).
`ProgressIsMonotone` needs only that no certificate skips a negative number of sectors (`SkipsAreCounts`).

**Check tools** (`CheckToolProofs`). Every step of a tool is one of MediaCheck or leaves its variables alone
(`ToolSteps`), so the lemmas above hold of the tools. `ToolInv` adds that an Esc in a queue was typed,
what each answer of the check says of the medium and the user (`CheckKnows`), and what `main()` knows
at each place (`MainKnows`). `StepsAsPromised` is the refinement: the initial states map to those of
CheckPromise, each step to a step or a stutter. `PromiseIsKept` concludes
`KeepsPromise`, whose fairness says only that a tool ends: that it does is its premise, and TLC
checks it. `GaugeFull` and `GaugeGrows` rest on the percentage printed being that of the bytes told
last (`GaugeShows`); `EscApproached` on where a key may be.

**Implanters** (`ImplantProofs`). `Invariance`: until the certificate is written the application data is
blank and everything else as it was on the medium (`FromMedium`, `AppDataIsBlank`), what is hashed is the
beginning of the image (`HashedIsBeginning`), and, without short reads, the sums are those
of the fragment ends passed, no more than the number of the last fragment (`SumsOfEnds`).
So they fit their buffer (`SumsAlwaysFit`, for whole reads). `SuccessIsImplanted`, `NeverFalseCertificate` and `UsedDataIsKept` follow. Their hypothesis
`MediaAreWellFormed` says that the search's offset is that of the descriptor it found (run
`implant_boot` is what happens otherwise) and that no file ends within the application data.
`TypeCorrect` asks in addition that the set `Cell` has the fields of all certificates of its contents
(`CellsAreClosed`), as the hereditarily finite sets do.

**Round trip** (`RoundTripProofs`). The lemmas of the parts carry over: the module has instances of
ImplantProofs (`AP`, `BP`) and MediaCheckProofs (`CP`), whose lemmas can be cited once their assumptions are
proved of the instance (`AAssumed`, `BAssumed`, `CAssumed`). An instance has copies of all operators, which
are first shown to be those of RoundTrip (`ASameVolume` and so on) and their steps to be the same (`AStepIs`).
MediaCheck knows an image that does not change. So the checker is taken to check the image that it parsed the
descriptor of (`seen`): what implanters change meanwhile is blanked before it is hashed (`CheckerSees`).
The invariant `Inv` says of the image that it is well formed whatever was damaged, that its fields are such as
implanters write, and that no digest on it is of content damaged since, while the damage is still there
(`Marked`); that each implanter has hashed the beginning of this image (`ImplantProofs!Working`); and that the
invariant of the media check holds of what the checker saw, which was `Marked` too (`CheckerWorks`). A PASS with damage
would be a digest of content with that damage, and there is none: `DamagedDoesNotPass`, with kills, failing and short calls.
`ImplantedIsFound` adds that a certificate of an implant that succeeded can be parsed (`ImplantIsFound`).
`UndamagedPasses` adds that an implanter that was never at work with the other works as if it were alone, so that the
certificate is that of the image (`Alone`), and the checker finds all sums right (`Judges`).
Hypotheses: in the media the search's offset is that of the descriptor and no file ends within the application data; damage
spares the type and the size of the descriptor (`MediaAreWellFormed`); fields that
are there have values the checker can use (`CertificatesAreStandard`); for `ImplantedIsFound` and `UndamagedPasses`, the
application data has room for six fields (`FieldsFit`); for `UndamagedPasses`, certificates that are there to begin with are
those of their images (`CertificatesAreGenuine`) and uninitialised memory is told apart from sums
(`UninitializedIsNoSum`); and `CellsAreClosed`. `MCRoundTrip` states as an `ASSUME` what they say of the media of its run.

**Implant tools** (`ImplantProofs`). `WindowsIsAsUnix` has no hypothesis. Its invariant is that
`poptGetNextOpt()` has passed some number of options and set the flags of just these (`ParserInv`); where
it stops, `popt()` has found the same flags and operands (`ParsersAgree`), if the line is conventional.
`ZeroIsImplanted` and `UsedDataIsForced` combine `Inv` with what the flags on the line say of the
request (`AskedOnTheLine`), for devices that read and write whole (`DevicesAreWhole`), though writes may fail,
and for every `errno`: an exit status of 0 without a certificate is shown to be possible only for a file that ends
before its application data, which is then as it was.

**Hash contexts** (`HashContextProofs`). `Inv` relates what a context keeps to the message alone: the blocks are the
whole blocks of the message, the buffer begins with what is left over, the two words count its length, and
after `Final` the blocks are those of the message with its padding; so are those of a finalized copy, which changes
nothing of the context. It is inductive for every cut of the message into
pieces and every size of block and word. `MessageIsTold` shows that the padding, wrong as SHA-256's is
(run `hashcontext_sha256`), can be undone.

**Python binding** (`PyBindingProofs`), for any number of calls. Of a check the proofs use that it ends once with a
status and aborts only on an answer. `CallbackIsAlive`: with each check that has a callback one reference is lost and no more,
and while it runs its arguments hold one (`ReferencesGiven`); so what the program drops during a check frees the callback under it
only if checks before had taken more than the program has left. `AnswersAreTold`: a pending exception and the status tell what the callback did (`AnswersTold`).

Left to TLC:

* Liveness: `Terminates`, `ParseTerminates`, `AllReturn`, `TerminalRestored`. The prover has no
  rules for fairness and `ENABLED`.
* What recursive definitions compute is not needed by any theorem. Where a proof goes along
  data, it takes a least counterexample (`CertificateLemmas!LeastNumber`), for which the library's induction
  theorems need not be instantiated.

## Not modelled

* The compression functions of the digests: arithmetic on 32-bit words, idealised as the content hashed.
* The characters within a tag, negative numbers, and numbers that overflow `strtol()`; the wording of all output.
* `lseek()` failing for an offset out of range (`utilities.c:47`, but for VolumeScan; `libimplantisomd5.c:191`), and the return
  of `writeAppData()` for too long a certificate (`libimplantisomd5.c:44`), which the fields never are. A `supported` above 99 from Python, which
  `snprintf()` cuts (`libimplantisomd5.c:167`).
* In PyBinding, which error of the implanter a program gets: each is -1 there, and no write fails.
* `select()` failing, which would make the tool wait in `getchar()` (`checkisomd5.c:63`). A standard input that is closed is
  as one without keys. A signal that ends a check tool, which leaves the terminal as it is.
* Media that change while a check reads them, other than by an implanter.
* `win32_compat.h`: macros and wrappers that map one call to one other, without a state or a decision.
* The test drivers and scripts, which call the libraries one after the other; build files and documentation.

## Plan

In order:

1. An abstract media check (a medium is read, then judged) that MediaCheck implements, proved step by step.
2. `TerminalRestored` as a safety property of the tools' exits, so that it can be proved.
