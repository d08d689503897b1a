# A TLA+ model of the fair S-LoRA server

The repository serves many LoRA adapters of one language model and shares the
machine fairly between its clients (one adapter = one client) with the Virtual
Token Counter (VTC) scheduler. This directory models the server: who is queued,
who is batched, what is charged to whom, what happens when a client goes away,
how an answer gets back, whether the memory promised to a batch is there, and
whether the attention and LoRA kernels give each token its own request's past
and its own adapter. Text, layout and floating-point arithmetic are outside it.

Paths below are relative to `src/slora/server/` unless they start with `src/`.

## 1. The system

Processes: the HTTP server (`api_server.py`, `httpserver/manager.py`), the
router (`router/manager.py`), one model RPC server per rank
(`router/model_infer/`), and detokenization (`detokenization/manager.py`). They
talk over ZMQ PUSH/PULL pipes (first in first out, one per direction): HTTP
server -> router (requests, aborts), router -> detokenization (tokens, finished
flags, aborts), detokenization -> HTTP server (text, aborts). The router calls
the model RPC server and awaits its answers.

| component | state | operations | interacts with |
|---|---|---|---|
| HTTP server | `req_id_to_out_inf`: one slot (text, metadata, finished, event) per request | `generate`, `abort`, `handle_loop`, the endpoints around them | sends to the router, is woken by detokenization |
| detokenization | `req_id_to_out` | `handle_loop` | router, HTTP server |
| router loops | `running_batch`, `has_wait_tokens`, the mini batch under way | `loop_for_fwd`/`_step`/`_prefill_batch`/`_decode_batch`/`_merge_batch`/`_handle_finish_req`, `loop_for_netio_req`/`add_req`/`abort` | the queue, the model, detokenization |
| VTC queue (`fairness/fair_queue.py`) | counters, a queue per client, the client that last emptied the queue | `append`, `generate_new_batch`, `update_counter`, `next_batch` | called by both router loops |
| admission estimate (`router/req_queue.py`) | `cache_len_list`, `adapters`, `adapter_size`, rebuilt at every admission | `_init_cache_list`, `_can_add_new_req` | inherited by every queue |
| other queues: first come first served, `abort_req_queue`, `cluster_req_queue`, `peft_req_queue`, `pets_req_queue` | one list of waiting requests; time stamps and estimates in a parallel list for `--enable-abort`; latency tables for pets | `append`, `generate_new_batch` | alternatives to the VTC queue |
| fairness metrics (`fairness/fairness_metrics.py`) | event lists per client, a dump file | `record_*`, the service figures, `save_events` | fed by the router |
| model RPC server | `cache: batch_id -> InferBatch`, adapters loaded | `add_batch`, `prefill_batch`, `decode_batch`, `filter_batch`, `merge_batch`, `remove_batch`, `load_adapters`, `offload_adapters`, `merge_adapter` | the memory allocator, the layers |
| adapter pool (`infer_adapter.py`) | `idx_map`, `a_loc`, `a_start`, `a_len`, prefetch tags | load, prefetch, offload | cells of the allocator; read by the LoRA kernels |
| memory allocator (`src/slora/common/mem_allocator.py`) | state and counters of the cells | `alloc*`, `free` | batches and adapters share it |
| attention layers (`src/slora/models/llama*`) | the cells of keys and values, per-forward tensors | prefill, decode, the Triton kernels | rows of cells of `InferBatch` |
| LoRA layers (`src/slora/models/peft`, `bmm`, `src/slora/csrc`) | two deltas per forward | choice of the engine, shrink and expand kernels | the adapter pool |

What is hard, and makes the code worth checking:

* The two coroutines of the router share `running_batch`, the queue and the
  counters, and switch at every `await`: arrivals and aborts land between
  admission, prefill, merge and clean-up.
* The charges of the fair queue are late: a prompt when it is admitted, a token
  when its decode step starts, for a client that may by then have nothing
  queued, while others come, leave and return.
* Admission is decided once, from an estimate, for a batch that then runs for
  many steps, is merged with others and loses requests early.
* A single slot per request carries answers that may arrive faster than they
  are read; aborts and refusals cross answers on three pipes and each process
  deletes its own entry.
* The other queues cut their lists by lengths, slices and comprehensions while
  aborted requests stay inside them.
* The memory that adapters and key-value cache share is accounted twice: by the
  queue, from ranks and lengths, and by the allocator.
* Kernels compute rows, columns and masks from lengths that are added up apart
  from the cells, for batches whose requests have unlike lengths and adapters of
  unlike rank, with blocks that divide neither.

What makes each part correct: a request is never lost or duplicated; a batch
always fits; nobody who waits is overtaken for longer than a bound; no client is
starved; aborts take effect; a look at the queue with nothing running finds work
if anybody waits; an answer arrives in order and once, and every generator
returns; the figures the server reports about its fairness are those of the
service it gave; every cell the allocator gives out is given once; every token
is computed from its own request's past and its own adapter.

## 2. Modules

```
Workload            what the router can be handed: requests, sizes, limits
  Admission         the admission estimate of ReqQueue
    AdmissionCheck  the estimate against two other definitions of it
    FairQueue       the VTC queue: counters, costs, queues
      VtcRouter     the router process: two loops over that queue
        VtcGap      the fairness bound and its inductive invariant
          VtcGapHistory     the same with history variables, for TLC
        VtcContract         refinement to ServingContract
        FairnessMetrics     the measuring side, composed with the router
        ServedRouter        the router composed with the model server
    PetsBatching    the dynamic programs of the pets queue
      ListQueues    the five schedulers that keep one list
        ListRouter  the router process over them
ServingContract     what a request scheduler promises, whatever its policy
AnswerPipeline      HTTP server and detokenization, and the pipes between them
AnswerContract      what a client may rely on (refined by AnswerPipeline)
MemoryPool          the cells and what the allocator's methods select
  MemoryAllocator   the allocator and a user that calls it in any order
  ModelServer       batches and adapters of the model RPC server (with Workload)
    ServedRouter
  AdapterPool       the arrays that index the loaded adapters
Launches            kernel launches on a stream, programs in any order
  AttentionKernels  the Triton kernels of attention, one operator each
    AttentionLayer  prefill and decode steps of one layer
  LoraKernels       the kernels that add the adapters
    LoraLayer       the choice of the engine and the layers of a forward
SequentialParts     AdmissionCheck, MemoryAllocator, AdapterPool,
                    AttentionLayer and LoraLayer side by side
Admission_proofs    minima, finite sets and sums over them; the estimate
  VtcRouter_proofs        the router, its contract, the estimate's safety
    Fairness_proofs       the bound, the accounts, the dump
    ServedRouter_proofs   router and server
  ListRouter_proofs       the five list schedulers, pets' cuts
  SequentialParts_proofs  allocator, adapter arrays, estimate against its
                          definitions, LoRA kernels
    Attention_proofs      attention kernels
AnswerPipeline_proofs     tables, pipes and the answer contract
MC*                 constants for TLC
```

`Workload` turns the length checks of `HttpServerManager.generate` and the
command-line assertions of `main` into assumptions on the requests that reach
the router (an accepted request satisfies `HttpAccepts`). A request is an
opaque identifier and the fields the scheduler only reads are constant
functions of it.

`Admission` states `_can_add_new_req` without the sort: the k-th entry of the
sorted list needs `left * k` cells plus what the first k have run, and among
entries with equal `left` the last dominates, so it suffices to count, for each
entry, those with at least as much left.

`FairQueue` has one operator per method of the queue, used as a part of an
action. `older` keeps the insertion order of the Python dict
`queued_requests_by_client`, because `min` breaks ties by it and a client
re-enters the dict at its end. Counters are exact: under the quadratic
definition they are kept multiplied by `QUADRATIC_DIVISOR` (the code divides
and uses floats).

`VtcRouter` is the router process. `pc` names the awaits of `loop_for_fwd`
(`AwaitPoints`: the only places where an arrival or an abort can be handled)
and the two loops inside a step that are unrolled, one action per iteration
(`admit`, `charge`), during which nothing else runs. `running` is
`running_batch` and `mini` is `new_batch`/`new_mini_batch`. Each action is the
code from one of these points to the next:

| action | code |
|---|---|
| `AddReq`, `Abort` | `loop_for_netio_req` at an await: `ReceiveReq` is `add_req`, `ReceiveAbort` is `abort` and the forwarding of the `AbortReq` |
| `DecodeStep`, `StartAdmission` | the tests at the head of `_step` |
| `Admit`, `DropAborted`, `AdmissionOver` | the loop of `generate_new_batch` |
| `StartPrefill`, `NothingAdmitted` | what `_step` does with its result |
| `FinishFirstPrefill`, `FinishMiniPrefill` | `_prefill_batch` after the model's answer, `PrefillCleanedUp` after `_handle_finish_req` |
| `Merge` | `_merge_batch` and `Batch.merge` |
| `Charge` | `update_counter`, one request at a time |
| `FinishDecode`, `DecodeCleanedUp` | `_decode_batch` after the answer, `_handle_finish_req` and `_filter_runing_batch` |

A request finishes at its length limit or when aborted, and may finish at any
token (end token, stop sequence): `MayFinish`.

`ServingContract` is the abstract specification: per client first come first
served, at most `Capacity` in service, at most one answer each, dropped only
after a cancellation. `VtcContract` maps the router onto it.

`ListQueues` has one operator per class: `Fcfs` (`ReqQueue`, scheduler "slora"),
`AbortQueue` ("abort"), `Cluster` ("cluster"), `Peft` ("peft") and `Pets`
("pets"). `generate_new_batch` runs without an await, so each is a function from
the state to a record: who is taken, the list left, who is given up, with the
time stamps and estimates the abort queue keeps beside the list. Time is the
order of arrivals and `Expire`, which moves the boundary of those that came 5.5
s ago. `PetsBatching` holds the two dynamic programs (`IntraTaskBatching`,
`InterTaskBatching`, both by `Split`) and the latency tables of `profiler.py`.
`ListRouter` is the router over them, chosen once at the start (`policy`): as
`VtcRouter`, with admission in one step, and with the merging of an adapter into
the base weights (`merged`, peft), the report of refused requests
(`--enable-abort`) and client aborts at every await.

`AnswerPipeline` has the three processes and three pipes. `slot` is
`req_id_to_out_inf`, `known` and `shown` are detokenization's table, `gen` is
where the coroutine of a request is: waiting for the event or five seconds,
yielded to its endpoint, or gone. An endpoint collects (`generate`), streams
(`generate_stream`, with a background abort when the client is gone) or is the
chat endpoint, whose coroutine fails (section 5). The router appears as its pipes
see it. `KeepsContract` is the refinement to `AnswerContract`; `lost` is a
history variable of what the slot overwrote.

`MemoryPool` is `MemoryAllocator` as operators: `mem_state` is the set of free
cells and `can_use_mem_size` the counter that `alloc` trusts; the selections by
cumulative sums are stated as the cells they pick. `alloc_strip` and `alloc_grid`
have no caller today; `MemoryAllocator` calls all of them in any order.

`ModelServer` has an operator per exposed method of the model RPC server.
`a_loc` maps a loaded adapter to its cells (`idx_map`, `a_start`, `a_len` and
`a_loc` of `InferAdapter` in one), `cache` maps a batch id to the requests, the
row of cells (`nopad_b_loc`, without the column of the next token), the lengths
and the width of an `InferBatch`. `ServedRouter` conjoins them with the actions
of `VtcRouter` that await them, one server (`--tp 1`), unordered batches, no
prefetch. Each call is one step with the router's next: the server is only
called by `loop_for_fwd`, which awaits it, and arrivals and aborts, which can
be handled meanwhile, do not touch it.

| action | calls of the server |
|---|---|
| `ServedStartPrefill` | `load_adapters` |
| `ServedPrefill`, `PrefillFails` | `add_batch`, `prefill_batch` |
| `ServedPrefillCleanup` | `filter_batch` or `remove_batch`; `offload_adapters` only when the first batch is gone |
| `ServedMerge` | `merge_batch` |
| `ServedDecode`, `DecodeFails` | `decode_batch` |
| `ServedDecodeCleanup` | `offload_adapters`, then `filter_batch` or `remove_batch` |

An exception of `alloc` ends the task of `loop_for_fwd` (nothing catches it and
nothing awaits the task): `alive` becomes FALSE and only `Netio` goes on. A
prefill or decode that fails has already taken its batch out of `cache`.

`AdapterPool` opens the map `a_loc` of `ModelServer`: the arrays as the LoRA
kernels read them, loads with and without prefetch, the 1-bit prefetch tags, and
`offload_adapters` with the block-wise copy kernel that compacts `a_loc`. `Copied`
is the set of arrays its programs, which run at the same time, can leave: where
two of them store to one place either may be the last.

`Launches` is a stream: launches one after another, the programs of the current
one in any order, each one step that stores into `memory`. Numbers are symbolic:
a row of q is its token, head and rotations, a score the two rows it multiplies,
an output entry the terms added up in it and the scores each is normalised by,
so that a wrong row, mask, rescaling or scale is a different value.
`AttentionKernels` and `LoraKernels` give, per kernel and program id, what the
program writes. `AttentionLayer` launches them as `_get_qkv`, `_post_cache_kv`
and the two attentions do, for llama and llama2 (grouped keys) and both Triton
versions, over a prefill and decode steps whose lengths, start offsets and width
are updated as `model_rpc.py` does. `LoraLayer` chooses bgmv, lora_prefill or
the batched products of `--bmm` as `forward` does and launches them for q, k, v
and o over two layers with the deltas that all layers share.

`VtcGap` states the bound: a waiting client is never behind any other client's
counter by more than `GapBound`, one largest prompt and one full batch of the
longest outputs. `FairnessMetrics` adds the sums of the two event lists of the
class of that name, follows the router's actions, and dumps them as
`save_events` does, through a temporary file that is renamed, with a write that
fails and a kill at any moment. `Saves` says when: before every sleep, and after
every `save_every` iterations of `loop_for_fwd` (`counter_count`, 100 in the
code) with a batch running. `saved` is a history variable, how far each request
was when the file was last replaced.

## 3. Runs

| run | question | states |
|---|---|---|
| `VtcRouter` | four requests of two clients, tiered cost, one long prompt, adapters of rank 1, a pool of 17 cells that holds two requests but not every two: no request lost or duplicated, the batch always fits, an abort that found its request stops it, an idle router's look at the queue admits somebody unless nobody waits (`LookFindsWork`), the contract | 4.2 M |
| `VtcGap` | the fairness bound and the inductive invariant, under the quadratic cost | 0.5 M |
| `FairnessMetrics` | three requests, linear cost: measured service = counter - lifts - in flight, at every moment; the dump, made before each sleep and every second iteration, holds one moment in full wherever the process is killed, and a recent one; every request that fits is served as long as the loop is up | 698 k |
| `ListRouter` | the five list schedulers, four requests of two adapters, arrivals, one abort and time-outs at every await: nothing lost or duplicated, batches fit, each request judged by its own time stamp, neither stage of pets is beaten by another cut, everybody served unless one of two named blockades holds | 1.36 M |
| `Answers` | one collected answer, one streamed answer of three tokens, one chat: nothing is lost but by overwriting a slot, no table entry leaks, every generator returns, the client's contract | 106 k |
| `ServedRouter` | four requests of three clients, adapters of ranks 3, 1 and 2, 28 cells and none beyond the tokens, so that a load, a prefill and a decode can each find too few: until then no cell leaks or has two users, adapters are there when needed and the server's batches are the router's; and whatever is about to be allocated fits but for the adapters of departed requests | 4.7 M |
| `SequentialParts` | five parts that share no state, a behaviour about one of them (below) | 66 k |
| `PoolExhausted` (violation) | finding 3 | |
| `LostAbort` (violation) | finding 1 | |
| `StarvedByAdapter` (violation) | finding 2 | |
| `LostText` (violation) | finding 4 | |
| `PeftUnmerged` (violation) | finding 5 | |

Five further configurations show findings 6 to 10. `PROJECT.json` does not list
them; TLC refutes the property each one names, e.g. with
`tlc -config BmmKeys.cfg MCSequentialParts`.

| configuration | module | refuted | finding |
|---|---|---|---|
| `SleepsOnWaiting.cfg` | `MCVtcRouter` | `WorkConserving` | 6 |
| `EndedByDump.cfg` | `MCFairnessMetrics` | `ServedUnlessKilled` | 7 |
| `CopyOverruns.cfg` | `MCSequentialParts` | `ArraysAgree` | 8: a copy block of 3 for adapters of 4 and 8 cells |
| `BmmKeys.cfg` | `MCSequentialParts` | `KeysAreOwn` | 9 |
| `NarrowRank.cfg` | `MCSequentialParts` | `LoraIsOwn` | 10: an adapter of rank 1 beside one of 4, vectors of 2 |

The subjects of `SequentialParts`:

* admission: every mix of running and joining requests; the estimate equals the
  array computation under every admissible sort (`EstimateIsListNeed`), equals
  the true peak (`EstimateIsPeak`), and never grows by generating
  (`EstimateNeverGrows`);
* allocator: every sequence of allocations and frees in seven cells; one owner
  per cell and an exact counter (`OneOwner`), full sizes (`FullSize`);
* adapters: every sequence of loads, prefetches and offloads; the arrays of a
  loaded adapter point at cells that are its own (`ArraysAgree`), and no later
  call moves or overwrites its weights (`WeightsStay`);
* attention: after a forward every output entry is the softmax-weighted sum over
  exactly its own request's tokens up to its own (`AttentionIsOwn`), and no two
  programs of a launch store to the same place or outside what is allocated
  (`StoresStayOwn`);
* lora: after a layer q, k, v and o of every token are the base model's plus its
  own adapter's product, once, scaled by its own scaling (`LoraIsOwn`, which
  takes k in a decode with `--bmm` only where the batch has one scaling: the rest
  is the subject of `BmmKeys`;
  `LoraStoresStayOwn` for the stores).

Deadlock is checked in `VtcRouter`, `VtcGap`, `ListRouter` and the runs that
share their specification. Elsewhere the system may stop: in `ServedRouter` the
forward loop does die and the arrivals run out, in `FairnessMetrics` the process
is killed or the loop ended (so in `EndedByDump`), in `Answers` and `LostText`
every request has been answered, and the subjects of `SequentialParts` and the
three configurations of its parts come to the end of a forward or of their requests.

Bounds. Every behaviour is finite because the set of requests is: nothing else
is cut off, and counters, outputs, pipes and list lengths are bounded by it. Two
clients are enough for returning, overtaking and ties; two requests of one
client for order within a client; `running_max_req_size = 2` for a running
request beside a mini batch, merges and a full batch; `max_wait_tokens = 1` for
both ways into a decode step. In the `VtcRouter` run the pool refuses some pairs
(long prompt, two adapters) and admits others, so `BatchFits` is decided by the
estimate and not by the request limit. In the `VtcGap` run client `a` can be
served for more than the bound before `b` arrives, so a queue that let `b` keep
its old counter breaks it. In the `ServedRouter` run
prompts and outputs have different lengths, so that rows of different lengths
are merged, filtered from either end and narrowed; two requests end at prefill,
one of whose adapters is still in use and the other not. `ListRouter` bounds
client aborts by `max_aborts = 1` (time-outs are not bounded); its constants
scale the code's 30 other requests, threshold of 10 and step of 32 to 1, 2 and
2. Its latency tables were measured for the batch size 2 only, so that size 1
has the latency of 2 and groups of 3 and 4 cost infinity; a size between two
that were measured, whose latency is interpolated, does not occur in the run and
is covered by `PetsIsOptimal`, which holds for any table. `FairnessMetrics` has
`save_every = 2`, so that a dump finds the running batch at its first token and
between later ones; `EndedByDump` needs one request of each client. `Answers`
needs three tokens for one overwritten twice. Seven cells hold the three largest
allocations, leave gaps and make `alloc_strip` count across them.

`AdapterPool` has 16 cells, adapters of 4, 4 and 8 cells and one row of the
cache of four (`RowSizes`, `MaxRows`), so that all three just fit and do not fit
beside the row, with a copy block of 4: one block for some adapters, two for the
other. These are sizes for which the kernel's mask is right (`CopyFits`); with
the block of 3 of `CopyOverruns` it is not (finding 8). The attention kernels
use blocks of 2, 4 and 3 for requests of one to three tokens and growing, so
that tiles end inside and at the end of requests and of the tensor; prompts of 1
and 3, 3 and 1, 2 and 2; two decode steps, one on consecutive cells and one not
(`alloc_contiguous` or `alloc`). The LoRA kernels run on rows of four features,
vectors of two, adapters of ranks 2 and 4 that lie in scattered cells; the
thresholds `LONG` (200 tokens) and `WIDE` (rank 64) are 2 and 4, so that every
engine is chosen for some batch. The ranks 2 and 4 are such as the kernels are
right for (`RanksFit`); `NarrowRank` has one they are not.

The three cost definitions are spread over the runs (`VtcRouter` tiered,
`VtcGap` quadratic, the others linear; all proofs but `AccountsAgree` hold for
every one), with `HIGH_TIER_START` and `QUADRATIC_DIVISOR` scaled down so that
both tiers and both parts of a quadratic charge occur.

Fairness. In the routers only the forward loop is fair: `WF_vars(Forward)` in
`VtcRouter`, the same with the steps of the dump in `MetricsSpec`, and
`[]<><<Forward>>_vars` in `ListRouter`, where `Forward` is always enabled and the
two say the same. The event loop resumes `loop_for_fwd` after each await
(`while True`, nothing cancels the task) and every call of the model returns.
Arrivals, aborts, time-outs, failing writes and kills are under no fairness.
Which request finishes early is a free choice; length limits bound it.
`AnswerPipeline` assumes that the loops of the three processes run, that the
router advances every request it has, that five seconds pass and that an
endpoint asks for the next text; disconnects are under no fairness.

`EveryRequestServed` of `ListRouter` names two states in which it does not hold,
as `Blocked`: under peft, every waiting request with the adapter of the first was
aborted, and under pets, the whole of the shortest macro batch was. Nothing is
admitted then until somebody else comes, and the aborted requests never leave.

## 4. Proofs

Assumed are the named assumptions on constants, which TLC evaluates in every
run: what the HTTP server and the command line enforce (`RequestAssumption`,
`LimitAssumption`, `AnswerAssumption`), parameters that are numbers
(`WaitAssumption`, `ServiceAssumption`, `ThresholdAssumption`, `SizeAssumption`,
`PoolAssumption`, `AdapterAssumption`), `TableAssumption`, that the latency
tables have an integer, negative or not, for every measured batch size and
prompt, `SaveAssumption` (the dump's interval is not 0), and six about the
kernels: `BlockAssumption` (tiles are not empty and the scratchpad, 256 columns
wider than the input, is wider by at least a tile of 128), `CellAssumption` (a
prompt has a token, which the HTTP server enforces, and an allocation has a cell
for each row, none twice and none of an earlier allocation the batch still
holds, which `OneOwner` and `FullSize` say), `HeadAssumption` (in llama2 a key
head serves two query heads, so their number is even), `RankAssumption` (an
adapter of rank r has 4r cells, and the tiles divide the features of a row),
`BatchAssumption` (a batch's adapters are in the pool, which is `AdaptersReady`,
and a widest rank of 64 and more, for which `lora_prefill` is chosen, is whole
blocks of 16: its `tl.arange` compiles for powers of 2 only) and `LocAssumption`
(no cell of the pool belongs to two adapters, which is `ArraysAgree`).

A theorem that needs more names it as a hypothesis, and without it TLC shows
the conclusion false of the code:

| hypothesis | theorems | without it |
|---|---|---|
| `EveryoneFits`: every request fits in the pool beside its own adapter | `LookFinds` | `StarvedByAdapter` |
| `CopyFits`: an adapter has at most one copy block of cells, or whole ones (ranks up to 64, and multiples of 64) | `AdaptersKeepTheirArrays`, `AdaptersKeepTheirCells` | `CopyOverruns` |
| `RanksFit`: every rank is a multiple of the vector and divides the features | `LoraComputesOwn` | `NarrowRank` |
 Clients and limits are arbitrary and `Req` is any
finite set; `AnswerPipeline` does not need it finite, except for
`AnswerTypes`.

### The router and its queue

* `TypeCorrect`: `Spec => []TypeOK`.
* `BatchesCorrect`: `Spec => [](BatchesOK /\ QueueOK)`. The two formulas are
  inductive together: a request leaves the queue for the mini batch only
  because it waits exactly once there (`QueueOK`), and merging keeps the limit
  on requests because admission counted running and mini batch together
  (`BatchesOK`).
* `RouterImplementsContract`: `Spec => ImplementsContract`, each action matched
  with the contract's action it performs or shown invisible, under the
  invariants above.
* `FairGap`: `Spec => []BoundedGap`, the scheduler's fairness theorem for all
  three cost definitions. `BoundedGap` is not inductive: it says nothing of
  clients that do not wait, whose counters still rise. The invariant (`GapInv`)
  gives each client u a `base[u]`, its counter when one of its requests was
  last taken (or the value it was lifted to), and `steps[u]`, the decode rounds
  it was charged for since. No waiting client is below any base
  (`BasesBelowQueue`), because requests are taken from a smallest counter and a
  returning client is lifted to one, or to the counter of the client that
  emptied the queue; a counter is above its base by at most one prompt and
  `steps[u]` rounds (`Anchored`); and every request in a batch has lived
  through the rounds since (`StepsCovered`), so that there can be no more of
  them than the longest output. In that proof base and steps are quantified
  (`Explained`). `VtcGapHistory` computes them as history variables, which lets
  TLC check the invariant, and `HistoryHolds` proves it of them
  (`HistorySpec => []HistoryInv`): the values it computes are among those whose
  existence `Explained` claims.
* `EstimateIsSafe`: `Spec => []BatchFits`, for at least one request: a batch the
  estimate admitted fits in the pool for as long as it runs. `BatchFits` speaks
  of the cells held now, which says nothing of the next step. The invariant
  (`PeaksOK`) says for every t that the cells needed t steps from now, by those
  that live that long, and the adapters of all of them fit. Admission
  establishes it for every t although the estimate looks only at the moments at
  which a request ends (`NeedIsPeak`, `EstimateCovers`: between two such moments
  the need only grows); a decode step makes it the same statement for t + 1
  (`PeakMoves`); a request that leaves only lowers it; and t = 0 bounds what is
  held (`HeldIsPeak`). The estimate is made of sums over finite sets, defined as
  folds; `Admission_proofs` first proves what the proofs need of them (a sum exists,
  does not depend on the order, splits off an element, is monotone, is what a
  recursive computation adds up), for natural numbers and for integers, each by
  a least counterexample, an induction that needs no induction theorem.
* `AbortsStop`: `Spec => AbortedStops`. An abort that found its request marked
  one that waits or runs, and from there it can be dropped, or finished with the
  token whose step was under way.
* `NoneIsLost`: `Spec => []NoRequestLost`. That a request is never in two places
  is `BatchesCorrect`; that it is never in none is inductive (`SomewhereOK`) with
  an order of where each action moves it, and the counting form in which TLC
  checks it follows by lemmas on the positions of a request in its client's
  queue.
* `LookFinds`: if every request fits in the pool beside its own adapter
  (`EveryoneFits`), `Spec => LookFindsWork`: an idle router that calls
  `generate_new_batch` admits somebody unless the queue is empty. The queue always
  has a next client because the insertion order of its dict is a strict total
  order (`OrderOK`), and with nothing running the head of its queue fits alone
  (`IdleAdmits`, by the sums of one element). `EveryoneFits` is what the HTTP
  checks do not establish and `StarvedByAdapter` lacks. The theorem does not say
  that the router never sleeps while somebody waits: it does, for 10 ms after
  each batch that drained (finding 6), and then looks.

### The measurements

* `AccountsAgree`: `MetricsSpec => []MetricsAgree`, for the linear cost the class
  is built for. The two accounts are fed at different moments: the queue charges
  a prompt at admission and a token before its decode step, the metrics record
  both after the model's answer. The invariant (`Account`) is the equation with
  what is between the two moments as its own term, and every action is shown to
  move the same amount on both sides.
* `DumpWhole`: `MetricsSpec => []DumpIsWhole`. `FiguresOf(o)` is what the events
  amount to when each request r has o[r] tokens: the prompts of those that have
  one, and their later tokens. The measured sums are those of the present at
  every await (`RecordsOK`: each answer of the model adds the same to both), so a
  file replaced between two iterations, whether nothing runs or a batch is half
  done, holds those of that moment (`saved`), and nothing else writes to it
  (`DumpOK`). How old it may be is an induction over iterations (`LagOK`): a step
  gives a request at most one token, so that `outputs` is ahead of `saved` by at
  most `counter_count`, or one more inside a step; and the iteration that brings
  `counter_count` back to 0 saves, with a running batch because of the count and
  without one because the router goes to sleep.

### Router and server

* `RouterUnderneath`: `ServedSpec => Spec`. The server only narrows what the
  router may do next, so every theorem about the router holds of the two.
* `AdaptersAreReady`: `ServedSpec => []AdaptersReady`. The adapters of both
  batches are loaded from the load to the end (`AdaptersLoaded`); it needs that
  the mini batch never outlives the running one (`MiniHasRunning`), for
  `offload_adapters` reserves only what the running batch uses.
* `CellsAreAccounted`, `ServerAndRouterAgree`, `ServedTypes`: no cell leaks or has
  two users, and the server's batches are the router's, from one invariant
  (`ServerOK`). `Books` says that free cells, rows and adapters cover the pool
  and that their sizes, added up, are the size of the pool; together the two
  imply that no two overlap, and the sum changes by what a call takes or gives
  back, where disjointness would have to be shown for every pair. `InStep` says
  which batches the server has at each await of `loop_for_fwd`.
* `RoomIsKept`: `ServedSpec => []RoomButForLingering`, from `Books` and `PeaksOK`:
  what the pool is short of at an allocation, the adapters of departed requests
  hold.

### The list schedulers

* `ListTypes`, `NoListLoses`, `ListAbortsStop`, `TimesStayAligned`. All rest on one
  statement about a result of `generate_new_batch`, proved for each of the five
  classes (`GoodBatch`): what it takes was waiting and is not aborted, nobody is
  lost between what it takes, leaves and gives up, the list of time stamps still
  fits the list left, and what it takes together was judged together. The state
  around it is the invariant `ControlOK`, `PlacesOK`, `StartedOK`.
* `ListsAreSafe`: `Spec => []BatchFits` for at least one request, by the same
  peaks as the router's (`FitsOK`). What differs is who was in the cache list at
  the last admission: the cluster queue has more than it takes, refused requests
  and requests judged twice, and the lemma is that a larger list only raises the
  estimate.
* `PetsIsOptimal`: `Spec => []PetsSplitsBest`. That no cut into mini batches
  costs less than the table's last entry, and none into macro batches, is one
  least-counterexample argument for both stages over the length of the prefix
  (`NoneCheaper`: a cheaper cut has a cheaper prefix); that the groups read back
  cost that entry and hold each request once follows the back pointers
  (`GroupsCost`). Costs are integers or `Inf`.

### Answers

* `AnswerInvariant` and from it `OverwritesAlone`, `TablesAreEmptied`,
  `ContractKept` (`Spec => KeepsContract`, the refinement, per action);
  `AnswerTypes` with the sizes of the pipes, for finitely many requests.
  `OrderInv`: the numbers of an answer lie in the order received, held by the
  endpoint, overwritten or in the slot, in the pipe to the HTTP server, in the
  pipe to detokenization, each place entirely after the one before. `CoverInv`:
  for a client that waits none is missing. `LeakInv`: what is in the pipes about
  a request's start and end comes in an order in which nobody enters it again
  after deleting it.

### Allocator, adapter arrays and estimate

* `OwnershipIsExact`, `PoolTypes`: `AllocSpec => []OneOwner` and `[]TypeOK`, for
  a pool and requests of any size. Every method selects free cells and the
  counter changes by the number of selected cells (`PoolInv`).
* `PromisesKept`: `AllocSpec => []FullSize`. The methods select by cumulative sums;
  the proof ranks the free cells (`Rank`: how many are at or below one) and shows
  that ranks take every value once.
* `AdaptersKeepTheirArrays`, `AdaptersKeepTheirCells`: `AdapterSpec =>
  []ArraysAgree` and `AdapterSpec => WeightsStay`, if `CopyFits`, for any pool,
  block of the copy kernel and rows. The invariant (`ArraysInv`) has three
  parts: index and list of the adapters are inverse to each other (`Filed`); the
  slices of `a_start` and `a_len` tile `a_loc`, which has no cell twice
  (`Filling`); the cells of `a_loc`, the rows and the free cells share the pool
  (`Shared`). `ArraysAgree` adds up numbers of cells instead, which follows
  because disjoint sets add up (`PartsAdd`). Loading joins two tilings
  (`TilesJoin`). Offloading is the hard part: the programs of the copy kernel,
  block by block, store every place of the new `a_loc` once and from the right
  old place (`CopyIs`, `CopiedIs`, by `CopyFits`), so that the pieces of those
  that stay are the same lists of cells at other places (`CompactFills`), and
  what `free` gets is the other pieces, counted exactly (`FreedIs`).
* `EstimateIsExact`, `EstimateIsOfList`, `EstimateSinks`: the admission estimate is
  the true peak of the batch, is what the sorted array computation gives for
  every admissible sort, and never rises while nobody joins.

### Kernels

`AttentionStoresAreOwn` and `LoraStoresAreOwn`: `AttentionSpec =>
[]StoresStayOwn` and `LoraSpec => []LoraStoresStayOwn`, for tiles of any size,
any heads, ranks, requests and cells. Both specifications are the parts of
`SequentialParts` that run a layer. The invariants (`AttentionInv`, `LoraInv`)
say that the launches to come are kernels of the engine in use and what the
record of the forward promises them (`InferOK`, `RecordOK`): the rows of the
requests are laid one after another by the running sum of their lengths, the
cells are different, a contiguous window lies in the cells given, and
`max_len_in_batch` bounds every length. From that follow, kernel by kernel,
three facts: tiles do not overlap and a masked tile stays in its request
(`TilesOwn`, `BlockRowsOwn`), requests laid one after another do not overlap
(`PartsPacked`, `RowsApart`), and a tile of the last block that is not masked,
the one of the scratchpad, ends within its padding (`FlashViaTmpOwn`). Decoding
keeps the record: with one token more for each request, `b_start_loc + arange`
is again the running sum (`PartsGrow`).

`LoraComputesOwn`: if `RanksFit`, `LoraSpec => []LoraIsOwn`. Whatever the
engine, the tiles, the mixture of such ranks in a batch and the order of the
programs, every output is its own adapter's product, once, with its own scaling,
for any number of tokens and adapters. A launch is at its turn (`LoraReady`):
the kernels left are a tail of the engine's list. What a program has not stored
yet is what it was when the launch began, so `LoraValues` states of every place
of the deltas and the outputs which program of which launch stores it and, once
that one ran, the terms it holds (`DeltasOwn`, `OutputsOwn`). It is inductive
because a launch's programs store apart (`LoraStoresApart`, the lemma behind
`LoraStoresAreOwn`) and together cover the rows they must. A program's value is
a sum of terms over the cells of an adapter; `CellIs` says that cell k of the
k-th matrix, found by adding up `a_start` and the rank, is the one the adapter
was loaded to, and tile sums are joined by least counterexample. `LoraIsOwn`
takes k of a decode with `--bmm` only where all adapters of the batch have one
scaling, of which the last segment's is then the right one (finding 9).

`AttentionComputesOwn`: `AttentionSpec => []AttentionIsOwn`. For any prompts, cells,
heads and tiles, both models and both generations of kernels, the output of every
token after every prefill and decode is the softmax of its own request's scores over
the tokens up to itself, each once and with its own value, although the next decode
reads what the last one left in the cells. The invariant (`AttentionValues`) says

* where the forward is: the launches left are a tail of its list, and each
  launch comes after those it reads from (`AttentionReady`);
* how addresses and tokens correspond: rows to tokens and `B_Loc` to the cell of
  each token (`InferServes`), different tokens in different cells (`CellsApart`);
* what is stored: every program that ran kept its promise (`Known`: rotated rows,
  copied cells, scores, probabilities, outputs), rows of q and k are as projected
  until rotated (`RawKnown`), cells of earlier forwards hold their rows
  (`HeldKnown`).

A step runs one program, and the proof has two halves. The program keeps its own
promise: the blocks of the prefill kernel and of the fused decode kernel add up
to one softmax because every block they add has an unmasked column (`BlocksAre`,
by least counterexample from `AddBlockIs`), and the decode kernel that loads
past a request's last column multiplies what it finds there by probability 0,
which is harmless because that place holds a row some program wrote
(`OtherKnown`). And it leaves the other promises alone (`PromiseStays`,
`RawStays`, `HeldStays`), because programs of a launch store apart, the lemma
behind `AttentionStoresAreOwn`. Between two forwards every program has run, and
`DecodeKeeps` carries the cells over to the next decode.

Only model-checked is liveness (`ServedWhileUp`, `EveryRequestServed`,
`EveryGeneratorReturns`), which is out of the provers' reach.

## 5. Findings

1. `router/manager.py:176` - `abort` searches `running_batch` and the queue. A
   request of the mini batch is in neither while its adapters load, it is
   prefilled and merged: the abort is lost and the request is generated to its
   end for a client that is gone (`LostAbort`).
2. `fairness/fair_queue.py:120` - admission stops at the first request that
   does not fit. One whose adapter and tokens together exceed the pool passes
   the HTTP checks, which count tokens only, never fits, and starves everyone
   behind its client's counter (`StarvedByAdapter`).
3. `router/manager.py:320` - `_prefill_batch` passes `minibatch=True` for every
   batch, so the adapters of requests that finish at prefill stay loaded, while
   the admission estimate counts only adapters in use. With `--pool-size-lora`
   at its default 0 the pool comes up short, `alloc` raises and the forward loop
   is gone (`PoolExhausted`). Nothing else makes it fail: with those adapters
   out of the way every allocation fits (`RoomButForLingering`).
4. `httpserver/manager.py:108` - the slot of a request holds one text. Of two
   answers that arrive before its generator runs the first is lost, and the
   client is told its answer is complete (`LostText`).
5. `router/manager.py:364` - a mini batch that finishes wholly at prefill
   unmerges the adapter that the running peft batch goes on with, and the batch's
   own end subtracts it a second time (`PeftUnmerged`).
6. `router/manager.py:202` - when the running batch drains, `loop_for_fwd` sleeps
   10 ms before it looks at the queue, whoever waits there (`SleepsOnWaiting`),
   while `src/README.md:9` promises fairness "without artificially causing
   under-utilization". What does hold is `LookFindsWork`: the look after the
   sleep is never in vain.
7. `fairness/fairness_metrics.py:142` - a dump that fails (a full disk) raises out
   of `loop_for_fwd`, a task nobody awaits. The process lives, accepts every
   request and serves none (`EndedByDump`).
8. `router/model_infer/infer_adapter.py:271` - the kernel that compacts `a_loc`
   masks each block by the whole length, so an adapter of more than 256 cells
   that are not a multiple of 256 (rank 96, say) is copied past its end, over the
   beginning of its neighbour's slice if that one's program ran first
   (`CopyOverruns`).
9. `src/slora/models/bmm/lora_bmm_infer.py:310` - in a decode with `--bmm` the loop
   over k multiplies by the `adapter_scaling` that the loop over q left, so every
   adapter's k is scaled as the last one's (`BmmKeys`).
10. `src/slora/csrc/bgmv/bgmv_impl.cuh:186` - the expand kernel loads a whole vector
   if it begins within the rank. An adapter whose rank is no multiple of it,
   beside a wider one, gets products with stale deltas and the next row's weights
   (`NarrowRank`). Only the widest rank of a batch is checked, by the kernels
   there are.

Noticed while reading, and visible in the models where one is named; no run is
spent on them:

* fair queue: the token made by prefill is charged to nobody, n output tokens
  cost n - 1 (`fairness/fair_queue.py:144`); the maximum service difference
  leaves out clients that have received nothing
  (`fairness/fairness_metrics.py:65`); `next_batch` flattens the clients in dict
  order, as its warning says; `--enable-abort` with vtc_fair makes `_step` read
  an attribute that `FairQueue` does not have.
* other queues: the cluster queue counts a refused request in both rounds and
  its second round may exceed the limit on adapters; the peft and pets queues can
  be blocked for good by requests aborted while they waited (`peft_req_queue.py:97`,
  `pets_req_queue.py:171`), the states that `EveryRequestServed` excuses as
  `Blocked`; the pets tables assert lengths of at most 1024.
* HTTP and start-up: `chat_completions` calls `generate` without the adapter and
  fails with a TypeError at the call itself (`ChatFails`); the except branch of
  `start_router_process` uses an unbound `router`; `main` waits for ever on a
  pipe when a child dies silently.
* LoRA: a request without an adapter gets the weights of adapter 0 (a FIX ME in
  `lora_unordered_batch_infer.py:35`); the `all_reduce` of o is commented out there
  (lines 224 and 248), so `--tp` above 1 is not the sum over the ranks; the Triton
  expand looks for a row of B in one cell, which is wrong for ranks that do not
  divide the embedding.
* adapter pool: a 1-bit prefetch tag comes back to life after two rounds; the
  prefetch stream is never synchronised with the default one; `offload_adapters`
  with only `None` to keep and two adapters loaded raises an IndexError;
  `ModelRpcClient.load_adapters` does not await its result over rpyc.
* the int8 cache (`--mode int8kv`) fails at start with a TypeError.

## 6. Plan

Done: sections 2 to 4. Left, in this order:

1. Prefetch: `next_batch` of the queues and `load_adapters(prefetch=True)`
   between the router's steps (the pool side is in `AdapterPool`), composed with
   `ServedRouter`; it multiplies its states and needs smaller requests.
2. More than one rank: the slices of `--tp` in `LoraLayer` and what the missing
   reduction means.
3. The profiling calls of `model_rpc.py` and the start-up handshake.

## 7. Not modelled

* Two requests with one id: `generate` takes an id from the request body if there
  is one and does not look for it in its table. The models give every request its
  own, as the server does when the body has none.
* The order of additions within a product: the tiled and vectorised dot product
  of the bgmv shrink kernel is one `Dot` of a row and a weight.
* Prefetch composed with the router (section 6); `--no-mem-pool` and
  `naive_infer_adapter.py`, requests without an adapter, more than one rank and
  the single-adapter engine: other ways to run the same batches.
* Feed-forward layers, normalisation, embedding and sampling: element-wise
  arithmetic and matrix products on rows that do not meet. The quantised matrix
  kernels are called from their own tests only. The embedding dimension of
  attention, whose entries fare alike, is left out of the kernels.
* The allocator's prefix and suffix variants begin with `assert False`;
  `MemoryManager` is the class of an earlier version that nothing constructs.
* The windows, latencies and the printed report of the metrics; statistics,
  which are only printed; tokenizer and prompt formatting, which are text
  conversion by an external library; simulations, benchmarks and plots, which
  are drivers around the server.
* ZMQ and rpyc are taken as reliable and first in first out, as the code takes
  them; a copy on the prefetch stream counts as done when the call returns.
