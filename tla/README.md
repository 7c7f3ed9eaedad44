# Specifications of mochi-go

TLA+ models of the Mochi–Go bridge, model-checked with TLC and, in part, proved
with TLAPS. `PROJECT.json` lists the runs, the mutants that show each property can
fail, the source lines behind every definition, the hazards, and the theorems.

Run `tlc -config X.cfg M` in this directory for a run of module `M`, and
`tlapm M.tla` for the proofs of a module whose name ends in `Proofs`.

## 1. The system

The bridge lets a Mochi program `import go` a module: it fetches and verifies the
module, reads its API, maps types, renders a cgo wrapper, builds it into a C
archive, and, in the other direction, publishes Mochi code as a Go module.

| Part | State | Operations | Talks to | What makes it correct |
|---|---|---|---|---|
| `goroutine`: handle pool | mutex, counter, live map per pool; the process's cgo handle table | Acquire, Resolve, Release, Live | C callers of any thread | the cap holds, no handle leaks or is deleted twice, Resolve is faithful |
| `goroutine`: emitted shims | one pool, the channels it names | `_new _send _recv _close _call`, release | C callers of any thread | only ended identifiers panic, nobody is stranded, handles of closed channels go |
| `moduleproxy`: cache | four files per version, `.tmp` files | StoreInfo, StoreMod, StoreZip, Has, VerifyZip | other processes through the directory | readers see whole bodies; digest and zip agree |
| `moduleproxy`: client, escape | none | List, Info, Mod, Zip, Latest; escape, unescape | HTTP proxy, cache | escaping is two-way; limits do not truncate silently |
| `sumdb` | none | tree roots and inclusion proofs, notes, keys, lookups | HTTP log | a proof verifies for the log's record and for nothing else |
| `build` | cache of artefacts shared by processes, work directory per driver | Build, PrepareWorkspace, Cleanup | go toolchain, `wrapper` | a hit returns whole archives of the same inputs |
| `publish`, `cosign` | workspace root, git repository, remote | Publish, Sign | git, Sigstore | the remote never shows a tag without its commit; results are true |
| `lockfile` | none (a file) | Render, Parse, CheckDrift | `build`, `moduleproxy` | round trip; drift is reported iff there is any |
| `semver` | none | Parse, Compare, Sort, Max | `moduleproxy`, the import resolver | a total order, which Sort and Max follow |
| `typemap` | the cache of a Mapper | Map, from a Go type to a Mochi type | `wrapper` | termination on recursive types; the answer does not depend on earlier calls |
| `wrapper`, `emit` | the lists of one emission | Emit over a surface, Emit over its result | `typemap`, each other | each function is bound or noted, once |
| `apisurface`, `cmd/go-ingest` | none | Ingest a package, Load a document | `go/packages`, everything below | what is loaded is what the type checker had |
| `tinygo`, `vanity` | none | CheckPackage, CheckPublish; Resolve a vanity path | a surface; HTTP (`vanity`) | every banned import and type is reported, nothing else |
| `monomorphise` | none | ParseSpecs, Resolve, RenderInstance | a surface, the manifest | an instance has the generic function's types, and is rendered one way |
| `library`, `errors`, `build/workspace.go` | none | rendering | files | deterministic text |

The hard behaviour is where callers or processes meet: handles shared by C threads
(`goroutine`), two directories shared by processes that may be killed
(`moduleproxy/cache.go`, `build`), and the git commands of a publish, each of which
may fail or have its answer lost. The rest is sequential: its hazards are numeric
edges (tree indices, versions), round trips, and the passes over a surface document
that work on types as texts where the types are meant.

## 2. The modules

| Module | Models | Kind |
|---|---|---|
| `HandlePoolSpec` | what a pool promises | abstract: bounded, write-once maps |
| `HandlePool` | `goroutine/goroutine.go` HandlePool | detailed; implements `HandlePoolSpec` |
| `HandlePoolProofs` | | theorems about `HandlePool` |
| `ChannelShim` | the Go code `goroutine/goroutine.go` renders | detailed |
| `ChannelShimProofs` | | theorems about `ChannelShim` |
| `ModuleCacheSpec` | what the comment on CacheLayout promises | abstract: registers |
| `ModuleCache` | `moduleproxy/cache.go` | detailed; implements `ModuleCacheSpec` |
| `BuildCache` | `build/build.go` Build | detailed |
| `BuildCacheProofs` | | theorems about `BuildCache` |
| `Publish` | `publish/publish.go` Publish with `cosign/cosign.go` Sign | detailed, the two composed |
| `PublishProofs` | | theorems about `Publish` |
| `SumdbTree` | `sumdb/tree.go` MerkleRoot, VerifyInclusion | algorithm against a reference |
| `SumdbTreeProofs` | | theorems about `SumdbTree` |
| `Lockfile` | `lockfile/lockfile.go` Encode, Decode, CheckDrift | algorithms over documents that are edited |
| `LockfileProofs` | | theorems about `Lockfile` |
| `TypeMapper` | `typemap/mapper.go` Map | algorithm, its call stack explicit |
| `Wrapper` | `wrapper` and `emit` over `TypeMapper` | the three composed, against a reference |
| `WrapperProofs` | | theorems about `Wrapper` and `TypeMapper` |
| `TypeExpr` | `apisurface/typeexpr.go` ParseType, String | algorithms over tokens |
| `Surface` | `apisurface` Ingest, Encode, Load; `cmd/go-ingest` | extends `TypeExpr` |
| `Embedded` | `tinygo` CheckPackage, `vanity` CheckPublish | extends `Surface` |
| `Monomorphise` | `monomorphise` ParseSpecs, Resolve, RenderInstance | extends `Surface` |
| `ApiPipeline` | the four of them in the order of the bridge's phases | composition, against references |
| `Semver` | `semver/version.go` Parse, Compare, Sort, Max | algorithms over bytes |
| `Versions` | `moduleproxy` List, fetch, escape, store, over `Semver` | composition |
| `ModuleProxyProofs` | | theorems about `ModuleCache`, `Versions` and `Semver` |
| `MC...` | | instances for TLC |

A definition whose comment starts with *Faulty* is no part of a specification. It
is a plausible bug: a mutant puts it in the place of the definition below it, and
the property named in `PROJECT.json` then fails.

### HandlePool

State per pool: `holder` (the mutex), `next`, `live`; of the process: the cgo
handle table. Each method is cut where other goroutines can get in between: at
Lock, at Unlock, at `cgo.NewHandle`, `Handle.Value` and `Handle.Delete`. Resolve
and Release use the handle they looked up *after* the unlock; that is what most
properties are about. `ImplementsSpec` maps a pool to the bounded map of
`HandlePoolSpec`: a call takes effect at its step under the lock.

### ChannelShim

The generated program: the pool functions of RenderRuntime and the channel and
callback functions of RenderChannelShim and RenderCallbackShim. Threads call them
with any identifier that was handed out, for a channel or for a callback as its
type says. The pool's critical sections are single steps here; the lookup, the use
of the handle after the unlock, and the channel operation are three. A send on a
full or a receive on an empty channel blocks in its own `pc`; a close lets
receivers drain the buffer and then get ok = false, and makes senders panic. A `_new`
whose capacity `make` refuses (`MaxMake`) panics too. A panic in any exported function
ends the process: `crash` records it and no thread takes another step.

### ModuleCache

One version's artifacts `info`, `mod`, `zip`, `ziphash`. WriteFile is its three
observable steps: the temporary file appears, is filled, is renamed. A body stands
for its digest, since h1 is a function of it. `torn` is history: whether StoreZips
overlapped or one stopped between zip and digest, with none alone since.

### BuildCache

A Build is: start (workspace written, key computed), lookup by manifest, stat and
copy per wrapper, or compile per wrapper and then open, write per file and the
manifest. A stat may fail for a file that is there, and is a miss. copyFile truncates and writes in place, so `writers` and `blend` record
who is inside a file, and `Finish` gives what the file may hold afterwards. `clash`
is history: keys that two drivers populated at once, that were populated over an
older entry, or whose manifest was removed.

### Publish

A tree is a function from file names to texts. materialiseFiles opens (and so empties)
and writes one file after the other, in parts, over what the root has, so a killed call
leaves a cut-off file and two calls in one root overwrite each other's until one of them
is refused by `git remote add`. `writes` follows each call's files, and which of them
another call touched before its `git add`. Each command of the Runner is an action that
may fail; a push may also reach the remote and fail all the same. git is modelled by what the commands need of it: a
remote named origin can be added once, a commit needs a change, a tag is new, a
push is a fast-forward. Sign is called with a PublishResult and the same DryRun,
as `SignRequest.DryRun` (cosign.go) describes.

### SumdbTree

A hash is a term, so hashes of different things differ: what SHA-256 is assumed to
do. `Levels` and `Path` are the reference: the tree built level by level, a lone
last node going up as it is.

### Lockfile

A document is its sequence of lines, a line a key and a value. Texts are abstract
values, except that a source's path counts the escapes `%q` has written into it,
since parseString undoes none. `live` is what the project resolves to. `Lock` renders
it; the other actions are what people, merges and other tools do to `live` and `doc`
between two calls of the package, and are external. CheckDrift is judged by
`CleanIffLocked`, which compares entries by module and version whatever the order.

### TypeMapper and Wrapper

Map's recursion is a stack of frames, one for each call under way with the parts it
has mapped so far, so a recursion that does not end is a state (`crash`) and not an
error of the checker. Types are tuples, the surface a function from names to
declarations; `Types` holds the types of the surfaces with their parts. `Wrapper` adds
the emission: `queue` is the functions still to visit, `slot` what is mapped of the one
under way, `funcs` and `skipped` the Result of wrapper.Emit, `externs` and `dropped`
that of emit.Emit. A name is the sequence of its words between underscores, so that the
export symbol, names joined with underscores, is their concatenation, and `X_Y` of
package `a` meets `Y` of package `a_X`. `Meaning`, without cache and
stack, is the reference for Map: at level n, what a type means whose structure is used
up in n levels, and *endless* for the others. The properties take two levels more than
the stack has frames.

### TypeExpr, Surface, Embedded, Monomorphise, ApiPipeline

A type is a tree, its text a sequence of tokens. `Surface` follows a package from
the type checker's objects to the document go-ingest writes and from the document to
what Load answers; `typeString` and `String` are two printers and `ParseType` the one
parser, as in the code. The gates and the renderer of instances work on the texts of
the document, cutting prefixes and replacing names, and are judged by the types the
texts came from: `Meant`, `Offends` and `Reading` in the properties look at trees
alone. A qualified name is a word of two texts, its path and its name, and where the
code looks at bytes of it so do the models: `BannedType` asks for a prefix of path, dot
and name, and `InPath` finds a type parameter's name between two boundaries of a path. A
document may also come from elsewhere (`Foreign`): then only `RoundTrip`
speaks of it.

### Semver, Versions

A text is the sequence of its bytes and a number is what Atoi makes of digits, with
`MaxInt` as the largest int, beyond which a numeric identifier is compared as text.
`Versions` is a caller of List, of Sort and of Max, and the fetch of a version into
the cache under its escaped name, on a file system that may ignore case. Its
specification is `ClientSpec`, so that one module can speak of it and of the cache's.

## 3. The runs

| Run | Bounds | What it shows |
|---|---|---|
| `handle_pool` | 2 goroutines, a capped and an uncapped pool | ownership of handles, faithful Resolve, refusals, refinement; every call returns |
| `channel_shim` | 3 threads, 1 identifier, capacities up to 2 and one that `make` refuses | panics only on ended identifiers and that capacity, handles deleted once, nobody stranded, a close wakes |
| `module_cache` | 2 processes, 2 bodies and a bad one | registers of checked bodies; zip and digest agree or heal |
| `build_cache` | 2 drivers, 2 wrappers, 1 key | the manifest announces whole files only; a hit is whole |
| `build_extra_env` | the same, 2 environments | *violation*: a hit ignores ExtraEnv |
| `publish` | 3 calls of Publish by 2 publishers, 2 roots, 3 releases | one publish per root; tags on branches; true results, down to the texts of the files; signatures match tags |
| `sumdb_tree` | all answers for up to 5 records, all true proofs for up to 13 | soundness and completeness of inclusion proofs; MerkleRoot |
| `lockfile` | 5 edits, 2 modules, 2 versions | a clean report means that live and lock agree; what is locked is read back, and what is merged behind any edited document |
| `wrapper` | 9,240 surfaces of 4 or 5 functions, 8 frames | Map answers what a type means, the own one unless an earlier package hides it, or it has no end; each function is bound or noted once, and which names and symbols are shared |
| `api_pipeline` | one of 43 types at each of 16 places of a declaration; generic functions; packages that are themselves banned; 36,000 foreign texts | the loaded surface is the type checker's, gates and instances are right about types |
| `render_twice` | generic functions of two parameters, rendered twice | *violation*: two texts of one instance |
| `versions` | lists of none to 3 of 31 texts, repeated or not, ints up to 99; pairs of 25 requests | Max is a highest version and Sort agrees; artifacts of names that differ in case stay apart |

Why the bounds are enough. *HandlePool*: a step touches one pool and at most one
other call's handle, so the races are races of two calls; the second pool is there
because the handle table is shared. *ChannelShim*: no step relates two identifiers,
and three threads give a closer, a blocked peer and a second closer.
*ModuleCache*: a reader and a writer, or two writers, over an old and a new body;
artifacts of two versions never meet. *BuildCache*: drivers of different keys do
not interact; two wrappers give an entry of four files, so that a lookup can find
the first whole and the second missing. With one environment all drivers of a key
write the same bytes and no file mixes two contents; `build_extra_env` has two.
*Publish*: two publishers race for a root, for its files, for the branch and for a tag;
the releases share a file with two texts and differ in files, in tag, and in branch; a
third call meets what a failed one left behind, and the second root is the fresh
workspace of a retry. *SumdbTree*: 13 records have every shape of an uneven level
(2, 3, 5, 6, 7, 9, 10, 11, 13); the exhaustive sizes include proofs of every length
up to one more than is right. *Lockfile*: the drift of an entry depends on the entries
of its own module, and two versions give a module that is locked twice, live or
merged; five edits import, lock, and change each side. *Wrapper*: the declarations
have every constructor on a path that ends and on a cycle, the second function's
request meets the cache the first one left, and 8 levels settle what every type of
every surface means (4 do not), so that `MappingsMean` and `AccountMeans` apply to the
run; in some surfaces two packages have functions of one name, or have one name, or
split the same words otherwise between package and function. *ApiPipeline*: ingestion, the loader and the gates treat the places of a declaration
one by one and a type by its root and its parts, so one type at one place shows what
they do with it; the foreign texts are all sequences of up to four tokens and all
trees of two levels. *Versions*: Max and Sort compare in pairs and transitivity
needs three; with 99 as the largest int, three digits are the numbers beyond it.

Deadlock is not checked in any run: callers may stop calling, identifiers and
releases are bounded, a panic of the rendered runtime ends its process, and
`SumdbTree`, `Lockfile`, `Wrapper`, `ApiPipeline` and `Versions` end with their results
or their edits. That nobody is stuck is what
`EveryCallReturns`, `BlockedIsReachable` and `CloseWakes` say instead.

## 4. Fairness

`HandlePool`'s FairSpec is weakly fair in every step a goroutine takes inside a
method, and strongly fair in taking the mutex: Go schedules every runnable
goroutine, and sync.Mutex's starvation mode hands the lock to a waiter after a
bounded wait. Nothing makes a caller call.

`ChannelShim`'s FairSpec is weakly fair in every step a thread takes inside an
exported function, for the same reason, and in no call. A blocked sender or
receiver has no enabled step, so fairness does not pretend that a peer comes:
only a close does, which is what `CloseWakes` claims.

`Wrapper` shows a recursion without an end as a state, `crash`, so it needs no
fairness. The other models claim no liveness: killed processes and failing disks or
networks leave nothing that must happen, and the sequential algorithms end at a state
that their properties speak of.

## 5. Proofs

Each theorem below holds for every value of the constants that satisfies the named
assumptions, all of which TLC evaluates in the runs. Each rests on an inductive
invariant; what it says beyond the property is why the property alone is not
inductive.

`HandlePoolProofs`. At most one goroutine is between Lock and Unlock of a pool and is
the mutex's holder (`MutualExclusion`); a pool binds identifiers only up to its
counter and an Acquire's drawn identifier is not bound yet (`IdentifiersFresh`);
every live handle has one owner, a pool entry, an Acquire that has minted it, or a
Release that has removed its entry (`HandlesOwned`); and each local variable of a
method under way is related to the tables. The cap needs exclusion because the test
and the store are two steps, and a faithful Resolve needs that handles are never
reused. From it follow `HandlesAreOwned`, `ResolveIsFaithful`,
`PanicsOnlyAfterRelease`, `CapIsRespected`, `RefusesOnlyWhenFull` and the refinement
`RefinesSpec`.

`ChannelShimProofs`. `HandleInv` says who will delete each handle that has left the
pool: exactly one thread, at `relDelete`; and that a channel not closed is still
bound, since only `_close` releases a channel and does so after it closed it. From it
follow `PanicsNeedEnd`, `HandlesAreReleased` and `BlockedAreReachable`.

`ModuleProxyProofs`, the cache. `OfferedInv`: what a call is about to write was offered for its
artifact, so that each artifact implements the register (`RegisterIsImplemented`).
`ZipFirst`: whoever is at the digest has its zip on disk, while one body was stored
(`DigestVouches`). `PairInv`: a StoreZip that runs on its own leaves a pair that
agrees, whatever was there before (`PairHeals`).

`BuildCacheProofs`. `KeyInv` speaks of one key at a time. Whoever is inside a file is
a driver populating that key and at that file (`Linked`). A key that was not populated
twice has at most one populating driver and no manifest until it is done, and the
files that driver has left behind are good (`Alone`, `Owns`), so a manifest announces
whole files (`AnnouncedIsWhole`). `HitInv` follows a lookup over the files it has
copied, while the manifest it saw can only go with the proviso (`HitsAreWhole`).

`PublishProofs`. `PubInv` relates each publisher at each of its commands to its root,
its commit and the remote, and needs what the others leave alone: a file on disk stays a
file, a branch only goes forward, a tag stays, and a root has one owner from `git remote
add` on (`RootsHaveOneOwner`). Up to its `git add` a publisher's files have its
release's texts but for those still to write, the open one and those another call has
touched, which `writes` tells; from then on the index and the commit have them. From it follow `TagsAreOnBranches`, `ResultsAreRemote` and
`SigsMatchTags`.

`SumdbTreeProofs`. At some level h of the tree, VerifyInclusion's variables are a node
of that level, and the answer is right exactly if the hash in hand is that node's and
the rest of the proof is the path from it (`ClimbInv`). Two facts carry it. The nodes
of level h are the roots of consecutive ranges of 2^(h-1) records, the last one
shorter (`Covers`), and MerkleRoot cuts those ranges where the levels pair them
(`SplitAt`): so the top of the levels is MerkleRoot. And a hash of children is one
only of these children. From it follow `ProofsAreSound` and `ProofsAreComplete`, for
trees of every size.

`ModuleProxyProofs`, the client, for every largest int, all lists a proxy may answer and all requests.
`CompareIsTotalOrder`: a numeric identifier beyond int is a text to Compare and lies
above all that fit, so transitivity survives; CompareStrings orders all texts, with
some of them level (`StringsOrdered`). Max goes through the list, so what it holds after
n texts is below none of them; that none precedes it by the reference either
(`MaxIsTheHighest`) rests on Decimal and Value being inverse for the numbers within
int (`DecimalOfValue`) and on the first place at which two keys differ being the first
at which comparePre finds a difference (`PlacesBelow`). The invariant says that the list
in hand has the texts that were published, each as often, since List and Sort only
rearrange them (`RearrangedSame`), and that what Max answered is above or level with all
of it. For `StoredIsAsked` it says that each
artifact fetched has one at its path and that whatever is at a path is what a proxy
serves there: an escaped name has no upper-case letter for the file system to fold, and
UnescapePath undoes the escaping of a name without the mark (`Unescaped`), so requests
that share a path share the artifact.

`LockfileProofs`, for all packages, digests and lists of capabilities, and documents of
any length. Decode is a fold over lines, and its state after a document is the whole of
what later lines depend on (`ReadAppend`). `IInv` says that a module is imported once,
and that reading the document to its end leaves whole packages, one of them perhaps
open (`Whole`): a header after any line finishes the open one, and a merged block or a
hand's line leaves a package whole, so `DecodedIsTyped`. Reading a written block gives
the package back, its optional fields that have no line being those `Zero` has too
(`ReadBlock`); with live packages of different modules Encode's sort has one outcome
(`ArrangementExists`, `SortedIs`), and `WrittenIsReadBack` is an induction over the
blocks. That a block behind a document, or a line that says nothing, leaves the rest as
it was (`BlockIsRead`, `OtherLineIsRead`) rests on the same state. `NoDriftIsLocked`
needs no more of the document than its type: the entry
CheckDrift compares is one of its module (`ByModIs`), the count map compares bags
(`EqualIsSameBag`), and without second entries it is the only one.

`WrapperProofs`, for surfaces of any number of types and functions, recursive types
among them. The levels of `Meaning` grow: a meaning reached at one level stays
(`MeaningGrows`), so a type means one thing or stays endless (`MeansOnce`). Two lemmas
on one step of the recursion, with a case for every shape of type, carry the rest: if
Map is done with the parts of a type, what it answers is what the type means
(`Complete`), also when a part that fails cut the visit short; and if the part it asks
for next is endless, so is the type (`Stuck`). `MapInv` then says that each frame's
parts are mapped to what they mean and each frame is the part the one below asked for
(`StackRight`), and that the cache holds meanings, whatever was mapped before
(`CacheRight`). When the stack overflows, each of its types is the part the one below
it waits for, so a type with k frames above it is still endless at level k
(`OverflowEndless`) and the outermost one at the level of the last frame. That makes it
a type without a meaning provided the next level settles nothing new (`Settled`, the
premise of `MappingsMean`). It does not whenever there are no more types than frames,
since a level that settles no type ends the settling (`FewTypesSettle`): that is
`MappingsAreRight`, and a Go stack holds some millions of frames. A type named without
its package means what it does in the first package that declares it (`OwnMeaning`).
`EmitInv` says which functions the queue, `funcs` and `skipped` hold, each once and in
the order of the surface, and that one is in `funcs` exactly if its slots mean baseline
scalars (`EmitRight`), and the same of `externs` and `dropped` over `funcs`
(`BindRight`); at the end these are `AccountMeans`, and with no more types than frames
its corollary `NothingIsLost`. Two functions have one symbol exactly if one's package has
the name of the other's with some first words of the other's function, which is a fact
about two ways of cutting one sequence (`SymbolsApart`).

The library's induction theorems take an operator, which the provers cannot
instantiate; `SumdbTreeProofs`, `ModuleProxyProofs`, `LockfileProofs` and `WrapperProofs` do induction
for sets of numbers instead, from the least element of such a set (`Least`), which is how
they show that recursive functions are what their recursions say.

Only model-checked: liveness (`EveryCallReturns`, `CloseWakes`), which needs fairness
and ENABLED; and `ApiPipeline`, whose printers, parser and references are RECURSIVE
operators over types. Sorting is not computed but stated: an arrangement in
which nothing comes after what it is before, which is what sort.Slice promises.

## 6. What the code does otherwise than it says

`PROJECT.json` quotes the lines on both sides. Two have a run whose property is
violated:

- ExtraEnv is no part of the cache key (`build_extra_env`).
- Parameters whose names have one length are substituted in the order of a Go map, so
  two renderings of one instance may differ (`render_twice`).

The others appear as the exceptions that properties name, or were met while reading.

- `Resolve` may panic when it races a Release.
- `_recv` after `_close` panics and buffered elements are lost.
- A Publish over a used root commits stale files, and once `git remote add` has run
  there, no later Publish gets past it. Before that, two calls in one root overwrite each
  other's files, and a tag may carry another release's go.mod.
- `Driver.Cleanup` removes a caller's directory whose base name starts with
  `mochi-go-`.
- Decode refuses, or takes for the last package's, the lines of another table.
- A locked entry of a version nobody imports is not reported while another version
  of its module is live.
- A source path with escapes comes back with its escapes, and grows when rewritten.
- A type named without its package is looked up in all packages in path order, so a
  function is mapped with an earlier package's type of that name, if there is one.
- Map recurses without end on a struct whose exported fields lead back to it.
- Arrays and maps of handles count as copies, so records may hold handles.
- A function with two results besides the error is wrapped by Go code that does not
  compile.
- Functions of one name in two packages get one Mochi name, and one export symbol
  too if the packages have one name; so do `X_Y` of package `a` and `Y` of package `a_X`.
- A type parameter T is also replaced in `testing.T` and in the path `x/T-1`; methods of generic types cannot
  be instantiated.
- `<-chan int` for T in `chan T` gives `chan <-chan int`, a send channel.
- An own type named like a predeclared one is read as the predeclared one.
- go-ingest prints types that ParseType does not read, and one of them makes the whole
  document unreadable; `func() func() int` is printed with parentheses.
- The TinyGo gate checks the parameters and results of functions and methods only, takes
  the first closing bracket for the end of a map's key, and a type of a package whose
  path starts with `reflect.` for one of `reflect` (its list is one of prefixes).
- A numeric pre-release identifier beyond int is above all that fit, whatever its
  length; CompareStrings puts what is no version above every version.
- EscapePath lets a path with the escape mark `!` through, so that two names may have
  one file.
- Read, not modelled: HandlePool creates its cgo handle while it holds the lock
  (goroutine.go:101), though lines 66-69 describe the short section otherwise.

## 7. Not modelled

- `build/workspace.go`, `library` and `errors`: a list kept sorted, a renderer and
  sentinel errors. They keep no state between calls, fail only on invalid input, and
  what they are for is the wording of a text.
- Texts that are rendered: go.mod, go.work, wrappers, externs, instances beyond their
  types, the shims' Go source. The behaviour of the shims is `ChannelShim`.
- `sumdb` notes, keys and the lookup that joins them to the tree: parsing, Ed25519,
  and one HTTP request without state; their values reach `SumdbTree` as a root.
- `moduleproxy`: JSON, URLs, size limits; h1 digests, which stand for their bodies; how
  a file system folds letters beyond ASCII, which no module path may have.
- `vanity` Resolve (one HTTP request and a scan of HTML), `typemap` MapFunc (called by
  nothing), the flags of `cmd/go-ingest`, `go/packages`.
- `build` Cleanup and default directories; `publish` validation that only refuses;
  `cosign`'s message; HTTP, SHA-256, Ed25519, file permissions, the Go tools.

## 8. Plan

What would be worth adding next:

1. `SumdbNote`: verifier keys, notes and the flow from lookup to note, tree head and
   proof, composed with `SumdbTree`.
2. A workspace of several modules: export symbols and library names across the
   modules of one build.
3. Proofs: that ParseType reads what the printers write, over recursive functions in
   place of RECURSIVE operators, as `Meaning` is one.
