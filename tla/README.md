# A TLA+ model of gatekeeper-addons

This directory holds TLA+ modules that model the programs of this repository,
TLC configurations that check them on small instances, and theorems that TLAPS
proves for instances of any size. `PROJECT.json` says which lines of the code
each definition stands for, which runs check which properties, and which
mutation of the model each property catches.

## 1. The system

DOOP collects the violations that Gatekeeper's audits find in many Kubernetes
clusters.

```
Gatekeeper --status--> doop-analyzer --PUT--> Swift container --GET--> doop-api --> /v2/violations
(one per cluster)      (one per cluster)      (one object per cluster)          --> /metrics
```

Two further services are asked by Gatekeeper policies while they are evaluated:
`doop-image-checker` (headers of a container image, from a registry) and
`helm-manifest-parser` (contents of a Helm release Secret).

### Components

| Component | State | Operations | Hard behaviour | What makes it correct |
| --- | --- | --- | --- | --- |
| doop-api, report cache (`doop-api/downloader.go`) | `objects`: attributes and decoded report of each object; one mutex | `GetReports`, called by each request and each scrape | lists before it locks; downloads under the lock what may have changed since the listing; fails half-way; starts empty after a restart | answers as fresh as the listing; to its callers one atomic look at reports that only get newer; the cache settles on what is stored; nobody waits for ever |
| doop-api, aggregation (`aggregate.go`, `filter.go`, `internal/doop/report.go`) | the report under construction | visit cluster, template, constraint, group; sort | random visiting order; merging on four levels with filters on five | exactly the violations asked for, each once, under their own keys; nothing mergeable stays apart |
| doop-api, answers (`api.go`, the slices behind `aggregate.go`) | slices that the cache and all requests share; what is left to write | append, sort, encode, write in chunks | Go appends in place where there is room; requests and uploads overlap; a connection breaks | the cache stays as it was loaded; each client gets its own answer, whole or a beginning of it |
| doop-api, metrics (`metrics.go`) | counters of one scrape | `Collect` | label sets must be unique and have the right length; aggregation splits by more than the labels | every violation and every group counted once; a scrape never fails |
| doop-analyzer, rounds (`main.go`, `report.go`, `kubernetes.go`, `swift.go`) | the report being compiled, the ticker, the report in Swift | list templates, list constraints, process, upload, wait | the cluster changes between the calls; each error ends the process; signals; slow rounds | only whole reports reach Swift, never an older state after a newer one, in the end the true one |
| doop-analyzer, rules (`process.go`, `internal/doop/violation.go`) | groups of one constraint | processing rules, merging rules, grouping | rules see what earlier rules wrote; maps and slices are shared; groups are found by comparing patterns | no violation lost, doubled, misplaced or altered; one group for each pattern; instances that can be completed again |
| doop-image-checker (`main.go`, `cache.go`) | cache of headers with a limit of 30 minutes; one mutex | `GET /v1/headers`, from a registry or a response config | concurrent misses; late answers that overwrite newer ones; time stamps that are cached; several responses for one image | no answer older than the limit and one request's latency; the cache settles on the truth |
| helm-manifest-parser (`main.go`) | requests in flight, a semaphore | `POST /v3`, health check | four requests at a time; bodies cut off at 4 MiB; shutdown | never more requests in memory than places; everyone is answered |
| `internal/helmv3`, `internal/util` | none | parse, normalize, generate | keys that become the same; cut bodies; owner info of another release | an answer speaks of the whole body; generating reverses parsing |
| doop-analyzer, configuration (`config.go`); helm-manifest-generator; `internal/kubernetes`; vendored code | none | | | see section 7 |

Interactions: the analyzers and doop-api share nothing but the container. In
doop-api a request handler calls `GetReports`, then `AggregateReports`, sorts
and writes; a scrape calls `GetReports`, then `AggregateReports` with an empty
filter, then counts. Both may run at the same time and share the cache, also
after the mutex has been released.

The hazards that follow from this are listed in `PROJECT.json`, each at its
line, with the properties that watch over it.

## 2. The modules

| Module | Models | State and actions |
| --- | --- | --- |
| `ObjectStore` | the Swift container (external) | `stored[n]` is the version of the object of cluster `n`; `Upload`, `Delete` |
| `Downloader` (extends `ObjectStore`) | `GetReports` | one program counter per goroutine; an action for each step between which another goroutine or an upload can get in |
| `ReportSource` | what `GetReports` promises, as one atomic answer | the report to answer with for each cluster; `Ask`, `Refresh`, `Answer`, `Break` |
| `Violations` | rules and `DifferenceTo` on one violation | operators only |
| `Grouping` (extends `Violations`) | `processReportForConstraint` | `groups` is `rc.ViolationGroups`; one action per turn of the loop |
| `Texts` | the object identity in front of a message, the placeholders of rules | operators only |
| `TextRules` (extends `Grouping`, `Texts`) | what the analyzer's README says of these texts | |
| `Aggregate` | `AggregateReports`, filters, `Sort` | `templates` is `target.Templates`; one action per visited cluster, one for the sorting |
| `Metrics` (extends `Aggregate`) | `Collect` | the values sent so far under each label set; one action per constraint name |
| `Answers` | concurrent requests in the memory of doop-api, and `chunkingWriter` | `heap` has the arrays, a slice is an address and a length; one action per append, sort, encoding and write |
| `Gatekeeper` | templates and audits of one cluster (external) | `template`, `audit`; an event changes one template |
| `Analyzer` (extends `Gatekeeper`) | `taskRun`, `sendReport`, `GatherReport` | a program counter, the ticker's channel, the report being compiled |
| `ReportPublisher` (extends `Gatekeeper`) | what an analyzer promises: rounds that publish a whole report or nothing | `Begin`, `Publish`, `Abandon` |
| `Doop` | `ReportPublisher`, the container and `Downloader` composed, for one cluster | the actions of both sides, joined by `stored` |
| `ImageChecker` | the handler, `headerCapturer` and the cache | one program counter per request; `Tick` is the clock, `Rescan` the registry |
| `HelmParser` | the server, its semaphore and its limits | one program counter per request, the number of elements in the channel |
| `HelmRelease` | `ParseRelease`, `NormalizeRecursively`, `GenerateMockRelease` | operators on trees of values, functions from paths to nodes; random map order is the set of the possible outcomes |
| `HelmService` (extends both) | the server with that parser | |
| `MCGrouping`, `MCAggregate`, `MCMetrics`, `MCAnswers`, `MCImageChecker`, `MCHelmService` | | the small instances |
| `DownloaderProofs`, `DoopProofs`, `GroupingProofs`, `AggregateProofs` (with `Metrics`), `AnswersProofs`, `AnalyzerProofs`, `ImageCheckerProofs`, `HelmServiceProofs` | | proofs |

Definitions that carry "Mutant" in their comment are wrong on purpose: each
shows that a property notices the mistake.

### How they correspond to the code

**Downloader.** Size, Etag and modification time of an object are one number,
its *version*, which also stands for its bytes; versions are handed out in the
order of the uploads. `info[n]` is what the cache holds as the attributes of
the object, `payload[n]` is the version of the report that it holds; the code
keeps the two in one `objectState`, and that they can come apart is the point
of the model. The goroutine's steps are `ListObjects` (line 36), `Lock` (41),
`UseCached` (51, 73), `BeginUpdate` (51-59), `Download` (60), `Decode` (64-73)
and `ReturnReports` (76); `ListFails`, `DownloadFails` and `DecodeFails` are
the early returns, where the deferred unlock runs and nothing else is undone.
The loop takes the objects in any order. `Restart` empties the cache and ends
all calls. `failed` is a history variable, used by properties only.

**ReportSource.** One report per cluster that only newer ones replace. A caller
asks and is answered from one moment. The refinement maps `payload` to the
source, the listing to what was stored when the caller asked, and everything
between listing and return to "asked": that the loop looks like one moment is
due to the mutex, which spans it.

**Grouping.** The rules are two functions `process` and `merge` on violations,
arbitrary in the module and in the proofs. `Violations!ExecuteRules` builds
them from rules in the runs: a rule has the texts that its regular expressions
match, and the replacement that it computes for each. That a rule can match on
an attribute that another rule has made up, and that such an attribute is lost
in the end, is modelled; so is that it cannot create object identity keys.
`violations` keeps the raw list that the code drops at the end.

**Texts.** The two places of the analyzer that take texts apart, on sequences of
tokens: a brace, `>>`, a blank, a digit or `$` is a token, any other token stands
for other characters. `Extracted` is the regular expression of `report.go:54`
with what is done about its match, `Expanded` the replacement of placeholders in
`process.go`. `TextRules` compares both with what the analyzer's README says of
them: the run `grouping` for short texts, the theorems for any objects,
messages, captures and targets that `TextsAssumption` describes.

**Aggregate.** Texts are numbers in the order of `strings.Compare`, 0 is the
empty string. Kind, namespace, name and message of a violation are one text.
Where Go compares metadata as a struct the model compares records. The visitor
functions are operators from a list to the list after the visit. `Reports` are
any typed reports in which no constraint is without groups and no group without
instances, as the analyzer makes them (`doop-analyzer/process.go`). `Sorted` inserts
one element after the other, which is what `slices.SortFunc` does with short
lists; for longer ones Go leaves the order of equal elements open, and no
property but the violated `CanonicalOrder` depends on it.

**Metrics.** `grouped` and `raw` are functions from label sets to values.
A label set that is sent again makes the scrape fail ("duplicate"), a wrong
number of labels is a panic, as in the Prometheus client.

**Answers.** Of each report one violation group is left, which all clusters
have. A slice is nil, or an array and a length; the capacity is what the array
has. `append` writes in place if the capacity suffices and otherwise allocates,
with any capacity up to a bound, as the runtime is free to choose. `StartGroup`
is the visit that clones, `MergeIntoGroup` the one that appends. `Load`
puts a newly decoded report into the cache. `Sort` leaves any correct order, in
place. A write error can come before any chunk.

**Analyzer.** What Gatekeeper found for the constraints of a template is the
number of the audit, or deletion, that left it so. The templates are read in
any order. Each call to the API server or to Swift is one action; it may fail,
and then the process ends, as `must.Return` and `must.Succeed` do, and `Boot`
starts it anew. An upload may take effect without being answered. The ticker's
channel holds one tick. Templates without a CRD are passed over.

**ReportPublisher** and **Doop.** A published report has exactly the templates
that were created when the round began, each as it was at some time of the
round. `Doop` instantiates the publisher with the contents of the stored object
as its report, and `Downloader` with the same object as what it lists. Its
analyzer uploads for ever, so a version is a number that nobody remembers,
taken from several that stand for the same report.

**ImageChecker.** Time is counted in ticks, as ages: of cache entries, of what
the registry said, of time stamps. `Miss` drops an entry that is too old and
parses the reference; `Pull` follows the index to the manifest and keeps the
headers of the last one; `Fill` writes the entry whatever others have put there.
The mutex is held within `Miss` and `Fill` only, as in `cache.go`.

**HelmParser.** `Acquire` is the send into the semaphore's channel, `Return`
the deferred receive. The body is read up to the limit and marked as cut
beyond it. `Interrupt` is the signal, after which nothing new is accepted.

**HelmRelease.** A value is a tree: a function that has, for each path of keys
and indices that leads to something, what is there. A node is tagged with the
Go type that holds it, since the code treats `map[any]any` and `map[string]any`
unlike. `NormalizeRecursively` writes every path anew; where keys are written
alike (`Rivals`), the one that Go happens to visit last wins, with all below it.
The layers of encoding around a release are whole, damaged or cut; a cut gzip
stream lacks its trailer. `mapstructure` and `encoding/json` are modelled as
far as they are used. `Decode` finds a field under its own name or, if there is
none, under any that `strings.EqualFold` takes for it, the first that Go visits:
`Spellings` are the places where it may look for one field, `Readings` for those of
an item, and what `ParseRelease` and `GenerateMockRelease` may return is a set with
an outcome for each. `EqualFold` is a constant, a small relation in the run and
any relation in the proofs. `ServiceAssumption` says what is sent: documents are trees
in which only maps and lists have something below them, and values are JSON.

## 3. The runs

| Run | Question | Bounds | Size |
| --- | --- | --- | --- |
| `downloader` | is an answer fresh, does the cache implement `ReportSource`, does each call return, does the cache settle? also the inductive invariant | 2 clusters, 2 callers of which one scrapes, 2 uploads, 1 fault | 92,000 states |
| `downloader_stale` | violation: an answer that is older than the listing | 2 clusters, 2 callers, 2 uploads, 1 fault | |
| `grouping` | is each violation listed once, rightly, in the group of its pattern, and can it be completed? are object identities and placeholders found? | lists of up to 4 violations of 6, colliding rules; messages of up to 4 tokens behind any small JSON object, targets of up to 3 pieces | 14,000 states |
| `api` | does the answer hold what was asked for, merged? are the counts right, are label sets unique? | 2 clusters, reports of up to 2 constraints and 2 groups, 5 filters, one label | 344,000 states |
| `aggregate_order` | violation: the order depends on the visits | same | |
| `metrics_no_labels` | violation: panic without labels | same, no label | |
| `metrics_garbled` | violation: a garbled time stamp looks young | same | |
| `answers` | do requests that share slices get in each other's way, or in the cache's? are answers whole, complete and sorted? also the inductive invariant | 2 clusters, 2 requests, one new report, lists of up to 2 instances, up to 1 spare cell, chunks of 2 | 1,130,000 states |
| `analyzer` | does it implement `ReportPublisher`, does the truth reach Swift in the end? | 2 templates, 4 events, 2 faults | 99,000 states |
| `doop` | is a reader ever told an older state, and in the end the truth? also the inductive invariant | 1 cluster, 1 scraper, 1 template, 2 events, 1 fault in all, 6 versions of each report | 278,000 states |
| `image_checker` | how old can an answer be, does the cache settle? | 2 requests, one image behind an index, one malformed reference, limit of 2 ticks, latency 1, 5 configurations | 256,000 states |
| `helm_service` | does the semaphore bound memory, is everyone answered, is every answer right? | 3 clients, 2 places, about 300 releases, fields in other spellings | 56,000 states |

Why the bounds suffice. The races of `GetReports` are between a caller, one
other caller that refreshes the same object, and the uploads between listing
and download: two callers and two versions have all of them, a second cluster
lets a call fail with its loop half done. Two faults never combine to more than
one in the cache, since each is confined to one object. (For any number the
theorems speak.) A group is found by comparing one violation with what is there:
with three violations a group can be met again after another one was started, a
fourth lets two groups alternate. Merging is between two reports; two
constraints and two groups in each let each level both match and differ. A slice
is shared by the cache and two requests; one spare cell makes an append happen
in place, two instances fill a chunk, three and four take a chunk and a rest,
or two. In the analyzer, two templates have a listing before and after any
event, and two faults let a restarted process fail again. In `Doop` the parts
have their races already; one cluster and one scraper show how the halves
meet, and six versions per report are more than one caller, the cache and the
container remember at once. In the image checker two requests can miss together
and answer in either order, and the limit is twice the latency, so that an entry
outlives several answers. With three clients and two places one always waits.

`CHECK_DEADLOCK FALSE` stands where the system stops: an answer is sorted, a
scrape is over, a server has shut down. Symmetry is used in `answers` only,
which checks no liveness: nothing in the code compares one request with another.

### Fairness

*Downloader.* `WF(Proceed)`: a goroutine that can run does, and every call to
Swift ends. `SF(Lock)`: a `sync.Mutex` turns to its starvation mode after a
millisecond and hands itself to the longest waiter; weak fairness would allow a
caller to find it taken each time it looks. Only Prometheus is assumed to call
again and again. Nothing is assumed of uploads, failures and restarts.

*Analyzer.* Kubernetes restarts a pod that ended, each call ends, the clock
goes on, and the select takes one of its ready branches. `SendReport` and
`CallFails` share one fairness condition, so that nothing is assumed about which
happens; that failures end is due to `MaxFaults`.

*Doop.* That of `Downloader`, and rounds that begin and end for ever, which is
what `Analyzer` satisfies as `RoundsGoOn`.

*ImageChecker.* Time goes on, and the registry answers or fails each request.
Nothing is assumed of how often an image is asked for.

*HelmParser.* `WF(Handle)`: a client sends its body or hangs up, and then the
handler runs to its end. `SF(Acquire)`: goroutines that wait to send into a
channel are served in the order of arrival.

## 4. What the runs found

Four properties that state what the code's comments and documents say are
violated; `PROJECT.json` quotes both sides.

* A failed download makes the cache believe that it has the new version
  (`downloader_stale`). `AnswerFresh` states, and the proof shows, that this is
  the only way in which an answer can be stale; `TruthIsTold` in `Doop` shows
  that the analyzer's next upload heals it, which has a new time of
  modification even if nothing else has changed.
* The answer's order is not canonical (`aggregate_order`).
* Without object identity labels, the default, a scrape panics
  (`metrics_no_labels`).
* A garbled time stamp counts as no age at all (`metrics_garbled`).

A fifth disagreement is shown by a property that holds. `doop_grouped_violations`
counts "violation groups, grouped by constraint, source cluster and selected object
identity labels", say `doop-api/README.md:50` and the help text of the metric
(`metrics.go:54`). The code has no cluster there (`metrics.go:56` and `147`), and
`GroupsCountedOnce` states what it does: a group that two clusters share, which the
run `api` has, is counted once, and for no cluster.

Less than a finding, but stated by the models: an instance whose own field is
empty reads as if it agreed with the pattern (`InstancesAreComplete` excepts
it), and of keys such as `1` and `"1"` in one YAML mapping one survives at random
(`AnswersWholeBody` says which leaves may be missing). A placeholder `$10` is
`$1` and a zero (`PlaceholdersAreReplaced` leaves out such numbers), and a message of
several lines keeps its object identity in front (`IdentityIsExtracted` speaks of
one line). A ConfigMap whose section is spelled `Data` is owner info as well; where
there are `Data` and `DATA` and no `data`, either may be taken (`OwnerInfoIsRepeated` allows
both), and the generator need not take the one that the parser took
(`GeneratorReversesParser` speaks of items that can be read in one way only).

## 5. What is proved

The proofs are about all values of the constants; the assumptions are the named
ASSUMEs of the modules, which say that bounds are natural numbers, that the
model values for "nobody" and "nothing" are no members of their sets, that rules
map violations to violations, that reports are typed and have no empty groups
(the analyzer makes no other), that objects, separators, messages and pieces of
targets have the shape that their names promise (`TextsAssumption`), and that the
bodies sent to the Helm parser hold trees and that `parse` is `Helm3Parse`
(`ServiceAssumption`).

**DownloaderProofs.** `TypeCorrect`; `Invariant`; from it `AnswersAreFresh` and
`PayloadsOnlyAdvance`. Freshness is not inductive: that a cached report may be
used for a listing depends on what the recorded attributes promise, and they
are recorded before the report is there. `IInv` therefore says, besides types:

* `MutexInv`: only the holder is inside the critical section;
* `StoredIsNewest`: nobody knows a version newer than the stored one;
* `FetchInv`: what is being fetched has its attributes recorded, and its bytes
  are no older than the listing and the cache (the mutex spans both);
* `CacheFresh`: recorded attributes belong to the cached report or an older one,
  or their fetch failed, or it is going on;
* `VisitedFresh`: the answer is fresh as far as the loop has come;
* `CollectedFromCache`: what the loop has collected is still what the cache
  has. The refinement needs it: the answer is of the moment of the return.

`CacheIsAReportSource` is the refinement: every step of `Downloader` is a step
of `ReportSource` or leaves it alone. A download that fails is `Break`, the
decoding is `Refresh`, the return is `Answer`.

**DoopProofs.** `NoAnswerTakesBack` states `AnswersAdvance` of the composition:
over crashes of either program, failed rounds and failed downloads, nobody is
told an older state of a template than somebody was told before. `IInv` has

* `KnownBeforeRound`: what is stored, downloaded, cached or shown was true when
  the present round began; since a round reads everything anew, what it
  publishes is no older than any of these;
* `InOrder`: what was shown is no newer than the cache, that no newer than what is
  downloaded, and that no newer than what is stored. Each pair has a conjunct
  of its own: a report without a template says nothing about it, so that the
  order is not transitive;
* `MutexInv` and `CollectedFromCache`, as above: while an answer is put together
  the cache stays as it is, so that "shown before the cache" stays true when
  the answer is shown.

**GroupingProofs.** `DistinctPatterns` and `GroupsListAllViolations` together
with the types are inductive: `PatternsAreDistinct`, `NoViolationIsLost`. The
second gives, for each group, the increasing sequence of turns that it lists;
the lemma `Extended` shows that a turn extends it by one exactly if it has the
pattern of the group. `NothingIsOmittedThatDiffers` follows from both.

The same module has `Identity` and `Placeholders`, which state `IdentityIsExtracted`
and `PlaceholdersAreReplaced` for texts of any length. The regular expression takes
the first `>>` after a brace, and the object has none inside, so the group that it
captures is the object (`GroupIsTheObject`). The expansion is a recursive function
of the place in the target. That there is one is proved from the end of the text
backwards (`ChainExists`), and `PiecesExpanded` takes the pieces of a target one by
one: the expansion is always what the pieces so far stand for, and then that of the
rest. `PieceTaken` needs a piece of text not to go on with the digits of the
placeholder before it, which `TextsAssumption` asks for.

**AggregateProofs.** All that the run `api` checks, for any clusters, reports,
filters and labels, as theorems of `MetricsSpec`, whose aggregation is that of
`Aggregate`. Three invariants, each inductive given those before it:

* `AnswerInv`: types, no empty lists, no two elements of a list that should
  have been merged, and the identities of the visited clusters that match. From
  it `AnswerTyped`, `ClustersIdentified` and `AnswerMerged`. Merging on one level
  keeps the levels below apart only because the reports of one level are told
  apart by exactly the fields that the search compares.
* `CountsInv`: under each key the answer has each violation as often as the
  cluster that it names has sent it, if that cluster was visited and the filters
  let it through, and otherwise never. Hence `AnswerExact`. The key leaves
  the audit timestamp out, as the visit of a constraint does.
* `MetricsInv`: what has been sent is the tally of the constraints counted so
  far. Hence `MetricsTyped` and `LabelsDiffer`: labels name kind and constraint,
  and each constraint of a template is counted once. With `AnswerExact`, a
  completed scrape yields `ViolationsCounted` (places in the answer with
  given labels are as many as those in the report of the cluster they name) and
  `GroupsCounted` (groups of the answer and keys that were sent correspond one
  to one).

How that is proved though lists are arbitrary: `SetInduction` is induction with
a set in the place of a predicate; `FoldRuns` makes of a fold its sequence of
intermediate results; and sums over nested lists are the sizes of sets of
places, compared by bijections (`SizeOfBijection`, `TotalRaised`, `EqualFibres`).
Each visitor has one lemma about what it makes of a list (`VisitGroup`,
`VisitConstraint`, `VisitTemplate`) and one about its counts. Sorting rearranges
each list (`OrderPermutes`), which changes no count.

**AnswersProofs.** For any number of clusters and requests, any lists and any
growth of slices, `CacheStaysUnaltered` and `ClientsGetTheTruth`. The former is
not inductive: an append in place may write into any array that its slice points
to. `MemoryInv` adds `PrivateInv` (the array of a group that is being built is
in nobody else's hands, which the clone at `aggregate.go:119` establishes),
`GivenInv` (what a request has yet to visit is as it was given) and, in
`TypeOK`, that every slice in use lies within what was written into its array.
`StepKeepsMemory` says what a step has to respect; `OwnStep` and `QuietStep`
apply it to steps of one request. `AnswerInv` then says what each answer has at
each time: the instances of the clusters visited so far, each as often as it
was given; once sorted it is in order; and what is sent and what is left to
write are together the answer. Append (`OccurrencesJoined`) adds up the counts of
two clusters, whose instances differ by the cluster they name; sorting
(`OccurrencesPermuted`) leaves all counts alone.

**AnalyzerProofs.** `UploadsOnlyAdvance` and `AnalyzerIsAReportPublisher`. `IInv`
relates three times: what Swift has is no newer than what the round began with,
and what has been read lies between that and the present.

**ImageCheckerProofs.** `AnswersStayRecent`: with `TrueWithin(i, h, n)`, "these
headers were true of `i` within the last `n` ticks", an entry's headers are true
within its age and the latency of a request, however misses overtake each
other. Each step either keeps that bound or, with the clock, moves both sides.

**HelmServiceProofs.** `ChannelCounts`: the channel holds one element for each
request in flight; hence `MemoryIsBounded`. `ReplyInv`: what is parsed is what
the client has sent, and an answer with a release is one of the parser's
results for it. The rest is about these results, for any trees of any depth:

* `WholeBodies`. A result exists only for a body that is not cut. Each node of a
  normalized tree comes from one of its document (`NormalizeKeepsNodes`), and a
  node with no rivals on the way there is kept (`NormalizeCovers`).
* `OwnerInfoRepeats`. The first item that stops the search is the first ConfigMap
  of that name, or there is none (`OwnerInfoFound`). That the data is repeated
  needs more than it seems: a null `data` section must have nothing below it
  after normalizing either. No two nodes that are kept are written to the same
  place (`WrittenOnce`, by the shortest two that would be), so nothing comes
  to lie below a node that was not above it before (`NothingBelowNull`). It holds
  for the reading of the items by which the parser came to its result; where
  each field has its own name there is no other (`OwnReading`).
* `GeneratorReverses`, for releases whose items can be read in one way
  (`ReadInOneWay`). A normalized tree has no rivals and stays as it is by way
  of YAML (`NormalizePlain`, `ThroughYamlAndBack`); the owner info that is added is
  found again, empty, and by itself (`AppendedOwnerInfo`). So a release that was
  parsed comes back complete (`MockParsed`), and completing it again changes
  nothing (`CompleteIsRegenerable`).

The only assumption on texts is that `"owner-of-"` with a name behind it is not
empty; the prover knows nothing of the characters of a string.

### Only model-checked

Every safety property that a passing run checks is a theorem. There remain:

* All liveness (`CallReturns`, `Converges`, `EventuallyReported`, `RoundsGoOn`,
  `TruthIsTold`, `SettlesOnTruth`, `EveryRequestAnswered`): it needs ENABLED
  and fairness, which are beyond the prover.
* The four violations, which are counterexamples.
* That `AnswersAreTrue` is about one group of violations that all clusters have,
  and `ReportsExactlyTheAsked` about whole reports in memory that nobody shares:
  the two models are not composed.

## 6. Plan

Done, in this order: the cache, because it is where concurrency, failure and
restart meet; the grouping; the aggregation and the metrics; the analyzer; the
abstract source and publisher of reports, their refinements and the composition;
the shared slices; the image checker; the Helm parser; the texts of the analyzer;
proofs of the composition, of aggregation and metrics, of the shared slices, of
the texts, and of what the Helm parser answers with.

What could follow: the validation of rules, which `process-once` does and `run`
does not (`main.go:119`); several clusters and analyzers in `Doop`.

## 7. Not modelled

* `doop-analyzer/config.go`: reads a file and checks that texts are not empty.
  Every error ends the process before it has done anything.
* The regular expressions of rules, which come from the configuration: a rule has
  the set of texts that they match. In `Grouping` its replacements are given;
  `Texts` models how they are computed.
* The parsing of queries (`filter.go:21-40`), gzip, HTTP status codes other than
  those named, JSON and YAML syntax, the names of metrics and labels.
* What a mock release has but no parser reads: its chart, dates and identifiers;
  reading and writing of `helm-manifest-generator`.
* The set-up of clients and servers from configuration and environment,
  `internal/kubernetes`, and vendored code; Swift, Kubernetes, Gatekeeper, the
  registry and Prometheus appear as far as the code depends on them.
* Numbers beyond 2^53: `json.Unmarshal` into `any` (`parser.go:41`) rounds them, so the
  values that `AnswersWholeBody` calls those that were sent are those after decoding.
* The comment `# Source: ...` that the generator writes in front of a document
  (`generator.go:107`), into which the names of the release and the item go
  unescaped: the round trip is about names without line breaks.
* Label values with a NUL character, at which `metrics.go` would split them again:
  joining and splitting is lossless in the model, but for the empty list.
* The 30 seconds after which `go-bits` ends a shutdown and the handlers that still run:
  in `HelmParser` they run to their end, and `EveryRequestAnswered` speaks of them.
* A registry that answers for a manifest without a digest header: the image checker
  (`main.go:152`) would keep the headers of an earlier response, `Pull` takes each
  manifest's response to have one.
* Wording and logging.

Network and service failures appear as failing calls. Two analyzers that write
the same object at once are outside the model: the repository has no deployment
that would do so.
