# Formal models of CorridorKey-OFX

TLA+ models of the running system of this repository, TLC configurations that
check them on small instances, and proofs that TLAPS checks for every value of
the constants. File and line references are to the repository root.

## 1. The system

CorridorKey is a keying plugin for OpenFX hosts. The plugin (C++, in the
process of the host) converts a frame and its alpha hint into *frame blobs* in
a job directory of its own, launches a Python *sidecar*, asks it for an
inference over a line protocol on stdin and stdout, reads the output blobs back
and writes them into the host's image, or draws a status frame that says what
went wrong. The sidecar also downloads and installs the model packages. Every
call of the plugin launches a sidecar and ends it; a stdio host that keeps one
sidecar for many requests is served by the same loop, and only there do the
cache and the concurrent download matter.

| component | state it keeps | operations | hard behaviour | what makes it correct |
|---|---|---|---|---|
| **server loop** `server.py` | worker thread, two locks, captured descriptor 1, "busy" gate, exit code | read a line, answer, start and join the download worker, redirect output around a backend | two threads on one pipe; polling the liveness of a thread; end of input while a download runs | one answer per request, no torn or swallowed line, a download is alone, an orderly end, every request answered |
| **dispatch** `protocol.py` | set of cancelled jobs | decode, dispatch, cancel, stub inference, downgrade when memory runs out | a cancel races the start and the end of the job | an accepted cancel takes effect, and only on its own job |
| **inference cache** `cache.py` | entries, an LRU order, the newest key per frame | lookup, store, copy blobs to the asking job | entries name files the host removes; a payload is kept while the models change | the frames of an answer are exactly those a fresh inference would give; both indexes agree; LRU eviction |
| **model manager** `model_manager.py` | `.part` and finished files, the marker of test packages, download state, install target, all on disk | download with resume and one retry, cancel, install, status, choice of a model for a backend | kill between any two file operations; the source changes; leftovers; other sidecars and the bootstrap script in the same root, without a lock | no mixed install, no lost model, no leftover that spoils a good download, retrying succeeds, an install that runs alone repairs anything |
| **source gate** `model_source_gate.py` | none | verdict on a manifest | must hold on every path to the target | nothing blocked is installed |
| **sidecar client** `SidecarClient.cpp` | request counter, cancel and deadline state | request, cancellable request, shutdown, probe with one retry | cancel races the answer; late answers; timeouts | answers belong to their requests, a cancelled job delivers nothing, one retry at most |
| **sidecar process** `SidecarProcess.cpp` | pid, three pipes | start, write, read, wait, terminate | a child that ignores the end of its stdin or SIGTERM; death between check and use | no child and no descriptor outlives the call, every wait ends |
| **render action** `OfxRender.cpp` | job directory, output image | write inputs, call, read back, write rows, status frame | the host aborts at any point | the image is never half a frame; the job directory is gone for good; the host gets its thread back |
| **image core** `src/core` | none | rectangles, pixel formats, image views, alpha hints | images upside down, padded, shifted or too small; empty windows | no byte outside of the window is written, every byte in it is, and shows what the panel says |
| **wire codec** `SidecarProtocol.h` | none | option tokens, request contract, JSON strings, job paths | two programs with lists, codecs and temporary directories of their own | whatever the plugin sends is accepted, what comes back is what was sent |
| **backends** `backends/`, `runtime_config.py` | none between requests; the environment | warmup and inference: checks, choice and validation of a model, checkpoint, adapter, outputs | the model root changes between any two reads; a manifest is read twice; out of memory | an answer says the truth about the model, the weights used are those announced |
| **packaging** `packaging/` | the output directory, its distribution manifest; the installed bundle, the user's data | build a distribution, uninstall it | the old output is removed first and any later step may fail; interrupted removals are tried again | a distribution manifest is true, the uninstaller removes all and only what it was asked to |
| **bootstrap script** `scripts/download_corridorkey_models.py` | the model root | install models for development | it shares the root with sidecars | as the model manager |
| describe/parameters, logging, redaction, support bundle, other scripts | none that the others read | | | not modelled (section 7) |

How they interact: host to render action by function call and the abort
callback; render action to client by one C function per call; client to server
by two pipes and signals; server to worker thread by shared sets, locks and
descriptor 1; cache and renders by files in job directories; model manager and
its later self, other sidecars, the script and the backends by files in the
model root; packager and uninstaller with the rest by the files of the bundle.

## 2. Modules

| module | models | abstracts |
|---|---|---|
| `SidecarServer` | main loop and download worker of `server.py`, cancel registry of `protocol.py`; the host sends anything, closes stdin, or goes away | a request is its command, job and validity; pipes only grow |
| `SidecarServerInv` | the inductive invariant of `SidecarServer` | |
| `SidecarServerProofs` | its proofs, and the proof that it implements `Answering` | |
| `Answering` | what the server promises a host that reads its answers: the abstract specification `SidecarServer` implements (`KeepsPromise`) | threads, locks and buffers; a request is "download" or "serial" |
| `StubInference` | the stub inference and its downgrade in `protocol.py`, the job directories the host makes and removes, and what there is to say of the models | what is computed; how the models are is one value, which may change at any time |
| `FreshInference` | a sidecar without a cache: the abstract specification `InferenceCache` implements (`CacheIsTransparent`) | entries, files of earlier jobs; `told` is what may be remembered of the models |
| `InferenceCache` | `handle_line_with_cache` and `cache.py` in front of `StubInference` | hashes are injective; a blob is what it was computed from and at which quality |
| `InferenceCacheProofs` | its invariants and proofs | |
| `ModelStore` | `download_model`, `install_offline`, `status`, the state file, the marker of test packages and what it admits and limits | a file is the sequence of its chunks, a chunk its version and position; a package has a file over the limit or not |
| `Installed` | what the model manager promises those who use a model: the abstract specification `ModelStore` implements (`ReplacesModels`) | files, markers and gates; a model is there or not, and allowed or not |
| `ModelStoreProofs` | its proofs | |
| `ModelRoot` | the install half of `model_manager.py` and the bootstrap script, as several processes in one root | a file holds a version, nothing, or something torn; sources are validated before an install begins |
| `TorchBackend` | `torch_backend.py`, `base.py`, `select_backend_model` and the environment: one request of a backend over `ModelRoot` | what an adapter computes |
| `TorchBackendProofs` | proofs about both | |
| `Distribution` | `build_bundle.py`: calls into one output directory, and the manifest that lists what is in it, runtime packages included | a file holds the number of the call that wrote it |
| `Installation` | the bundle on another machine: installed, used, and removed by `uninstall_corridorkey_ofx.py` | a directory is the set of its entries |
| `InstallationProofs` | proofs about both | |
| `SidecarClient` | client and child process, and the sidecar as they see it | no clock: a wait with a timeout ends when it can or at any time; a command stands for its request id, since a client sends each command once |
| `OfxRender` | composes `SidecarClient` with the render action, the status render and the warmup button | the image is a sequence of rows |
| `Rendering` | what one action is to its host: the abstract specification `OfxRender` implements (`RendersOneFrame`) | the client, the sidecar and its process; rows |
| `OfxRenderInv` | the inductive invariant of `OfxRender` | |
| `OfxRenderProofs` | its proofs | |
| `FrameWindow` | rectangles, pixel formats, addresses, alpha hints of `src/core` | a pixel of an image is its position |
| `FrameBlob` | the files frames travel in, as both sides write and read them | a float is what it was computed from |
| `InferContract` | an infer request as the plugin builds it and the sidecar validates it | the request hash is injective |
| `RenderFrame` | one call of `render()` with its refusals, modes, lines and panel, byte by byte of the output image | the sidecar answers at once, with blobs one of which may be spoilt |
| `RenderFrameProofs` | lemmas about images, blobs and requests; the invariants of a call and their proofs | |
| `SidecarWire` | one request and its answer as JSON text, the temporary directories of both programs | a text is a sequence of kinds of characters |
| `SidecarWireProofs` | lemmas about texts and directories, the invariant of an exchange and its proofs | |
| `MC*` | the instances TLC checks | |

In `SidecarServer` an action is what one thread does between two points at
which the other can see or disturb it: a lock operation, a read or write of a
shared set, a write to the text buffer, a flush, a redirection of descriptor 1.
`pc[t]` names the next of these. In `InferenceCache` copying a hit and
computing are actions of their own, so that directories vanish between lookup
and copy. In `ModelStore` an action is one file operation; a kill (`Crash`) can
come before each. `ModelStore` follows one process through downloads and
restarts; `ModelRoot` takes the installs of many, and opens, writes, lists and
unlinks are steps of their own there, because others can be between them.
`TorchBackend` adds the reading side: one action per manifest read, per file
located and per file hashed. (Under the fixture runtime a package's manifest and
files are read in one action.) In `SidecarClient` the program counter follows
`request`/`requestCancellable`, then `shutdown()`, then `terminate()`, which
`~SidecarProcess` runs once more; `Throw` is where an exception goes.
`OfxRender` and `RenderFrame` look at the same call from two sides:
the first interleaves it with the sidecar and keeps the image coarse, the second
takes the sidecar's answer in one step and keeps every byte of the image. In
`RenderFrame` an action is a decision of `render()` or one line of the image,
since the host is asked about an abort between lines. `SidecarWire` has an
action for sending, answering and reading. `PROJECT.json` maps every definition
to its lines.

## 3. Runs and what they show

| run | instance | states | shows |
|---|---|---|---|
| `server_safety` | 3 requests: downloads of 2 jobs, their cancels, a backend, shutdown, malformed lines | 1.5 million | the server implements `Answering`: one answer each, in turn, refused only because of a download; nothing swallowed, clean pipe, a download alone, cancels honoured and scoped, exit code 0 only if everything was answered |
| `server_live` | 2 requests, 6 commands, fairness | 21 thousand | every request answered, end of input ends the server |
| `server_lostcancel` | *violated* | - | a cancel accepted before the worker starts polling is lost |
| `cache` | 4 requests over 2 frames, 2 inputs, 2 directories, 2 qualities of which one may run out of memory; 2 entries; models that come and go | 1.7 million | both indexes agree, least recently used goes first; the server implements `FreshInference`: every request gets the frame, or fails, as if there were no cache, and only what a hit says of the models may be out of date |
| `store` | a test package with its marker and a large package, both gates, 2 files, 2 chunks, 2 faults, fairness | 1.6 million | the model manager implements `Installed` across kills, errors, cancels and re-publication: a model is only replaced, by a whole allowed one, and answers say so; no leftover spoils a healthy download; asking again installs the model, unless a marker limits its size |
| `store_active` | *violated* | - | a running download is reported as interrupted |
| `backend` | 3 packages (one a download), 2 versions, 2 installing processes, 2 installs, 5 environments, 4 requests | 3.1 million | an answer is true of the best package, weights are those announced, only a writer makes a warmup end without an answer, an install alone repairs anything |
| `distribution` | 2 calls of the packager with 14 kinds of inputs, then 27 machines | 741 thousand | a distribution manifest is true of files, models and runtime packages, the uninstaller keeps its word |
| `render` | 2 blobs, 2 rows, fairness without the job's deadline | 13 thousand | the action implements `Rendering`: what is drawn was delivered, what breaks ends in a whole status frame; the removed directory stays removed, nothing is left behind, success means delivered, one retry, the host gets its thread back |
| `frame` | 2,079 calls: 2 x 2 images of six shapes, windows inside, across and outside of them, all modes, hints and parameters | 165,615 | nothing outside of the window is written, a reported success is one whole frame, guide status and last error are true, declared opacity holds, requests are accepted |
| `wire` | every environment that sets up to two of four variables to one of eleven values, 8 commands, 80 lines of others | 159 thousand | requests arrive, paths come back, errors name their request |
| `render_recovery` | *violated* | - | a crash between check and write is not recovered |

Every property of a passing run has a mutant of the code model that breaks it
(`PROJECT.json`, "mutants"; the mutated operators stand before the ones they
replace and are used nowhere else).

**Bounds.** `MaxRequests` is three where a download, what disturbs it and one
more request are needed: the server keeps no memory across downloads but the
cancel set and the worker reference, both of which a third request can hit. An
instance names the requests the host may send (`Requests`), any of them at any
time.
`MaxPolls = 1` gives a poll before and after a chunk. Two cache entries and
six keys force evictions, and the fourth request can come back to an evicted
key; two directories make a hit copy between jobs. Inputs are symmetric, and so
are the two things there are to say of the models, which the code never looks at
(`Alike`); after the last answer nothing more happens (`Unfinished`). In `store`
two chunks are the least that can be mixed within a file and two files the least
that can be mixed in a package; version 1 is a test package, published with its marker,
version 2 has a file over the limit that the marker sets and is blocked where
only test packages are let in; a source may turn from one into the other at any
time, file by file; every behaviour begins with version 1 at the source
(`FirstSpec`), which both gates let in; `MaxFaults = 2` allows a fault in the
handling of what another left, and the invariants are proved for any number. In `backend` there
is a green package for both runtimes, a blue one for one of them, and a download
that only the fixture runtime sees; two installs, the least that can be in each
other's way, may begin before or during a request (`MaxUnder`), the version "s"
is what the script installs, and writers are symmetric. In `distribution` two
calls let the second find what any first one left. Two
rows are the least image that can be mixed. `SidecarClient` needs no bound: a
client sends each command once and a probe launches at most twice. In `frame`
2 x 2 pixels are the least image in which a line can be confused with a column
and one line be missing; the shapes are padded rows, negative row bytes, rows
too short, a shifted image, an unsupported format and missing data, and
`MaxPixels = 6` lets a window exceed what the sidecar accepts. In `wire` a
directory name has at most one special character, since characters are encoded
one by one.

**Fairness.** `SidecarServer.FairSpec`: the interpreter schedules both threads,
readers drain the pipes, a backend call and a network read return (both have
time limits); the host owes nothing. `ModelStore.FairSpec`: a begun download or
installation goes on, a dead sidecar is started again and the user keeps
asking (strongly fair, because a begun download disables asking). `OfxRender`:
the rendering thread runs and clocks advance; the sidecar owes nothing, not
even to die, and the deadline of a job, which grows with the window up to
minutes, may stay away for ever. `PluginReturns` says accordingly that the only
wait that may last is the one for the answer of a job nobody has aborted.

**Deadlock** is checked except in `InferenceCache`, where the bounded number of
requests ends; in `OfxRender`, `RenderFrame` and `SidecarWire`, which model
one call of the plugin or one exchange; and in `Installation`, where the builds
that are left may be none.

**What the code does where no document says otherwise.** `PathsComeBack` and
`RequestsArrive` state the conditions under which an inference can work, not
that it always does. The sidecar writes characters beyond ASCII as `\uXXXX`,
which the plugin's reader turns into question marks (`SidecarProtocol.h:691`):
under a temporary directory with such a name every inference fails with "frame
blob path escaped the render job directory". Where `TMPDIR` is not set, the
C++ library looks at `TMP`, `TEMP`, `TEMPDIR` and the Python library at `TEMP`,
`TMP`: if these name different directories, every inference is refused. And a
temporary directory that does not exist makes `renderTempRoot` throw before
`renderInferOutputMode` catches anything (`OfxRender.cpp:1325`): the host gets
`kOfxStatErrUnknown` and no status frame.

A hit in the cache returns the payload that was stored (`cache.py:142`), and
with it `model_status` and its like, which were added before it was stored
(`protocol.py:1118`, `server.py:436`): if a model was installed or removed since,
a hit says what was so before, where a computed answer would not. The frames are
not concerned, since only the stub backend is cached. `CacheIsTransparent` says
that nothing else can be told, and that what is said is what was said when the
same was asked for.

The marker that a test package brings is written into the download root
(`model_manager.py:695`) and goes only with that directory, after a success.
When the download fails and the source is then replaced by a package with a file
of more than 1 MB, its downloads all end in a refusal (`model_manager.py:307`,
`749`) until one of a smaller package there succeeds, or the directory is removed by
hand. `RetryInstalls` says that this, a source that stays inconsistent, and one
that is not allowed, are the only ways in which asking again does not help. The
gate `fixture_only` is made by tests only; `ModelStore` has both.

A cancel that comes after the last chunk is answered with `download_status`
"cancelled" (`protocol.py:1027`) and the model is installed all the same.
`CancelInTimeHonoured` speaks of those that come while the download polls.

`KeepsPromise` lets a request be refused as busy after the final answer of the
download it is refused for: liveness of the worker is looked at once per request
(`server.py:343`), and the worker lives on while it logs.

`StatusIsTrue` speaks of the *preferred* package because `select_backend_model`
stops at it: a package that an interrupted install has left damaged hides every
good one that comes after it in the order of the selection
(`model_manager.py:632`), until it is installed again. An adapter that is
blocked answers `model_status` "missing" although a model was selected
(`base.py:27-56`). `WeightsAreAnnounced` needs that `local_path` is one of the
`expected_files`, which nothing checks: a checkpoint outside of them is used
without a checksum. The fixture runtime also searches `.downloads`.

The packager's own checks come in part after it has removed the earlier output
(`build_bundle.py:1095`): two packages with one model id and version, as a
download next to its installation, an archive that is not there, or
`--packaged-runtime-resources` that point into the output directory itself end
the call with nothing left of what was there. It copies models without looking at
their checksums. `ManifestTellsTruth` excepts what an interrupted *removal*
leaves, which takes the distribution manifest last. And the manifest names the
place of a runtime package, `runtime_manifest`, after the model id and version in
the package's own manifest (`build_bundle.py:378-389`, `1047`), while a packaged
runtime is copied with the directories it has (`build_bundle.py:443-457`): of one
that was put together by hand, with a package in a directory of another name,
the place named may not be there. The packager itself never makes such a
runtime. `ManifestTellsTruth` excepts just these packages from being where the
manifest says, and nothing else (`Misplaced`). In
`distribution` a removal is interrupted anywhere: one that has taken
`Info.plist` or `server.py` but not the directory is refused from then on as not
ours (`uninstall_corridorkey_ofx.py:110`). Models that a packaged runtime brings,
or its sidecar installs inside the bundle, go with the bundle; what the
uninstaller preserves (`packaging/uninstall.md:4`) is the user data root.

## 4. Findings

* `server_lostcancel`: the worker clears its job's cancel mark when it starts
  (`protocol.py:988`); a cancel accepted in between is lost.
* `store_active`: a single file that takes longer than 30 seconds is reported
  as an interrupted download while it runs (`model_manager.py:361`).
* `render_recovery`: a sidecar that dies between `isRunning()` and
  `writeLine()` is reported with a text that the classification of failures
  does not know (`SidecarClient.cpp:133`), so the probe does not retry.

## 5. Proofs

All proofs are for every value of the constants, from the named assumptions of
the modules only.

* `SidecarServerProofs`: `Invariance` proves `Spec => []IInv` by one lemma per
  action. `IInv` is needed because no property of interest is inductive by
  itself: that a request is answered once needs to know who holds it
  (`HoldInv`), which needs the gate (`GateInv`: while a worker lives the main
  thread is never in a backend) and the lock (`LockInv`: the text buffer is the
  holder's line). `CancelInv` relates the marks to the running download,
  `AccountInv` says a request that was read is answered or held. From it:
  `TypeCorrect`, `AnsweredOnce`, `ResponsesReachThePipe`, `DownloadIsAlone`,
  `CancelStopsDownload`, `NoForeignCancel`, `ExitIsClean`.

  `Refinement` proves that `SidecarServer` implements
  `Answering`. The mapping takes what was asked from the requests sent and the
  lines from the pipe (`Asked`, `Lines`). Initial states map to initial states;
  a request that is sent is `Ask`, a flush that puts a line on the pipe is
  `Serve`, `Refuse` or `Chatter`, and all other steps stutter.
  `PromiseInv` says what makes that so: the worker serves downloads only, the
  main thread none, and refuses on account of the worker's request, which is
  itself never refused. `CaptureInv` says that descriptor 1 leads elsewhere
  while a backend runs, unless that failed, from which `CleanPipe` follows.
* `InferenceCacheProofs`: `CacheInv` (both indexes, and ticks that order
  entries as their last uses do) gives `IndexesAlwaysAgree` and
  `EvictsLeastRecentlyUsed`; `FilesInv` (a blob file holds what its name says,
  at the quality its environment can compute; an entry claims that quality; the
  key of a request that is being handled is still that of its directory) gives
  `AnswersAreExact` and `Transparency`: `InferenceCache` implements
  `FreshInference`. In the mapping a request is asked from its lookup to its
  answer, a blob is what it holds, and `told` is what the entries' payloads say of
the models. A lookup is `Ask`; a hit whose files could
  be copied and a computation are both `Infer`, by `Recall` and by `Compute`;
  a copy that fails, and a file that is lost, are steps nobody sees. That a hit is what `Infer` gives needs
  that no cached quality is one that runs out of memory (`CachedIsComputed`), and
  that a new entry says of the models what its answer does.
* `OfxRenderProofs`: `RenderInv` says what the program counter of the call says
  of the child (`terminate()` reaches its end only over a reaped child or a
  SIGKILL), that the pipes hold only what this call can have asked, that an
  answer of an inference is in the pipe only after its blobs, and that the rows
  before the current one hold the frame. The safety properties alone are not
  inductive: that the job directory stays removed needs that no sidecar lives
  outside a call, which needs what `terminate()` has done at each step. From it: `TypeCorrect`,
  `NeverMixed`, `StaysRemoved`, `LeavesNothing`, `SuccessDelivers`,
  `ShutdownTaken`, `RetryOnceWhenStopped`.

  `Refinement` proves that `OfxRender` implements `Rendering`, where a call into
  the sidecar is begun and returns, and nothing else of it is left but that it
  may complete the outputs while it lasts. All steps of the client stutter, those
  of the sidecar do or are `Infer`; that none comes after the call needs what
  `terminate()` leaves of the child (`ProcessInv`). This is what entitles
  `RenderFrame`, which looks at the bytes of the image, to take the answer of the
  sidecar in one step.
* `ModelStoreProofs`: `StoreInv` adds to the properties what the program
  counter says of memory and disk: what is being installed is allowed and, after
  a download, validated (`LoadedInv`), how far the target is copied (`CopyInv`),
  and that a record "downloading" without a running download was abandoned
  (`RecordInv`). What is allowed is a matter of the gate, which never changes
  (`GateIsFixed`), but whether a manifest passes it is one of the marker that is
  beside it: `LoadedInv` says that what passed with the marker of the download
  root, or of the package, is what is being installed, and a target with its
  marker is one the status commands take for ready (`VerifiedIsReady`,
  `TargetLimitKept`). From it: `NeverMixed`, `Survival`, `NoPhantom`, `GateIsKept`,
  for any number of files, chunks, versions and faults. `HealthyDownload` needs
  `HealthyInv`: while nothing disturbs a download, the files before this one are
  what the manifest says, and a `.part` file begun after `retry_corrupt` is a
  beginning of what it says. That is false of the first try, which may resume
  what another version left; that the second try is not to be refused is the
  point.

  `Replacement` proves that `ModelStore` implements `Installed`. In the mapping
  the model is the version of the target while `status` calls it ready. The
  first removal is `Remove`, the last chunk is `Put`, no chunk before it shows:
  for that `CallInv` says that the file being copied is short and those after it
  are empty. A call that ends before `Begin` is `Refuse`, and only there can it
  be cancelled, blocked or fail a checksum.
* `TorchBackendProofs`: three invariants. `RootInv`: an install that runs alone
  has done what its program counter says, and nobody else is in its package
  (`InstallsAlone`). `ReadInv`: what was read of a package is still so, or a
  writer has touched it since (`NoEscape`). `ChoiceInv`: the candidates found so
  far are all the eligible ones among the untouched packages already read, and
  the files validated are those before the next one (`StatusTrue`,
  `WeightsAnnounced`). The properties alone say nothing of a
  request in progress. They hold for any number of packages, files, writers and
  installs, and any order of versions.
* `RenderFrameProofs`: `FrameInv` adds to the properties where a call can be
  with which parameters (`PlaceInv`) and that what is drawn of a hint comes from
  the hint the panel speaks of (`HintInv`); without these a step out of an
  unreachable place breaks each property. From it: `TypeCorrect`,
  `WritesOnlyTheWindow`, `GuideIsHonest`, `PanelIsCurrent`, `DeclaredOpaque`,
  for any window, image, row bytes and parameters.

  `RequestsAreAccepted` follows the request of a call through both programs:
  the blobs `OfxRender.cpp` writes are of the size `frame_blob.py` asks for
  (`BlobAccepted`), and every option token, strength and path the plugin can
  send is one the sidecar takes (`ContractValid`).

  `FrameIsWhole` is about every byte. `WholeInv` says that the lines above the
  next one hold the frame, each pixel what its mode shows of the pixel of the
  source, the hint and the output in the same place, and that a frame that is
  keyed was read back unspoilt. Three families of lemmas carry it.
  `IntersectContains` and `PixelsApart` say where the window lies in an image
  and that the bytes of two pixels never overlap, top down or bottom up, by
  linear arithmetic on addresses; so a line that is written spoils no line that
  was (`OneOwner`). `LineAndColumn`, `ValuePlace` and `KeyedFromItsPlace` say
  that the reader of a blob finds each value where the writer put it.
  `ExactBlobShape` and `SpoiltOutputRefused` say that a blob cut short,
  lengthened or of another size is refused by the reader.
* `SidecarWireProofs`: what a text becomes in the hands of both programs is said
  character by character (`EscapedText`, `LoadedText`, `DumpedText`,
  `PathBack`), so nothing recursive is in the way; which directory a process
  takes for temporary is the first that exists in the order of its library
  (`FirstExists`, `FirstOfFound`), and `OneDirectory` says when both take the
  same one. `WireInv` says at each step of an exchange what line is on its way
  and what the answer to it is. From it: `WireTypes`, `InferencesArrive`,
  `PathsReturn`, `AnswersNameTheirRequest`, for any environment, directory names
  of any characters and length, and any line of another client.
  `ForeignLinesAssumption` gives such a line a text that is an object only if it
  is one the decoder reads.
* `InstallationProofs`: `BuildInv` says that while the packager removes what is
  owned the paths before this one are empty, and past that all that is there
  was written by the steps of this very call, none of which raised.
  `ManifestTellsTruth` alone is not inductive: it says nothing of a directory
  whose manifest is not written yet. `UninstallInv` says which of the three
  places an uninstallation has done with, and that of the user's data only what
  it has come to is gone. That the packages listed are those that are there, each
  where it is said to be or misplaced by a packaged runtime, is
  `PackagesAreListed`. From them: `ManifestIsTrue`, `UninstallIsTrue`, for
  any inputs, number of calls and machines.

The type invariants of `SidecarServer`, `InferenceCache`, `OfxRender`,
`RenderFrame`, `ModelStore`, `TorchBackend`, `SidecarWire` and `Installation` are
proved and so in no run; `BuildInv` holds the types of `Distribution`.

Only model-checked: the liveness properties `EveryRequestAnswered`,
`EndOfInputEndsServer`, `RetryInstalls` and `PluginReturns`, which this prover
cannot treat. Every other property of a passing run is a theorem.

## 6. Plan

Done: server, cache, store, client, image and wire with their proofs; then the
abstract specification of the server and its refinement, the proofs of the
store, shared model roots, the choice of a model and the backends, packaging;
then the proofs of the whole frame, the wire codec, packaging and the healthy
download, and the abstract specifications of the cache, of an installed model and of
a render with their refinements.
What is left, in order:

1. Two downloads that share one staging directory: `ModelStore` with `ModelRoot`
   for its last step.
2. `PixelFormats`: half float conversion and the timeout computed from the
   window (`OfxRender.cpp:193`), against reference definitions over bounded
   inputs; rectangles with 32-bit widths.
3. `PluginButtons`: doctor, support bundle and download buttons and the
   status parameters they leave behind.

## 7. Not modelled, and why

Test fault hooks (`server.py:171-311`) and stub forcing: only under test
environment variables. Texts, logging, redaction, the grammar of JSON around
strings: no modelled state depends on them. The encoding of the sidecar's stdin,
taken to be UTF-8. Colour and half float conversion of pixels: `RenderFrame`
keeps where a value comes from, not the value. Failures of the host's property
suite, and the debug copies of blobs. What adapters compute:
numerical code. The Windows half of `SidecarProcess.cpp`: the same escalation
with `TerminateProcess`; its temporary directory comes from one system call.
Descriptors inherited by the child, stderr: no effect on the modelled state.
Describe and parameter declarations, the support bundle, the fetch of the SDK,
the doctor and the fixture scripts: sequential, no state the rest reads. Path
and URL checks, the fields of a manifest and their limits: predicates on one
manifest, which the models take as given. A manifest cut off within a character
beyond ASCII, which would be read with a `UnicodeDecodeError`: no manifest here
has such characters. The bootstrap script's conversion of weights for MLX. The set of cancel marks
(`protocol.py:183`) is never emptied of jobs that have ended; job ids are not
used twice. Several renders at a time:
the plugin declares `kOfxImageEffectRenderUnsafe` (`OfxDescribe.cpp:20`) and job
directories are unique.
