# secop-rs: a TLA+ model

secop-rs is a framework for SECoP hardware servers ("SEC nodes"): clients
connect over TCP and read, change and command the parameters of modules, each
of which drives a piece of hardware in a thread of its own.  The modules here
model that server: the threads, the channels between them, and what they owe
each other when requests, events, panics, hang-ups and timeouts interleave.

Paths below are relative to the repository; `server.rs`, `module.rs`,
`client.rs` and `proto.rs` without a directory are those of `core/src`.

## The system

| Component | Code | State it keeps | Operations | What is hard |
|---|---|---|---|---|
| Dispatcher | `core/src/server.rs:156-311` | reply channel of every handler, active sets per module, descriptive data, `global_activate_remaining` | one branch of a `select!` per channel: new handler; request of each kind; reply, event, description, initial updates | the channels are served in no fixed order; one counter for all global activations; answers to handlers that are gone |
| Client connection | `server.rs:82-97, 313-430` | socket, reply channel | accept, parse and forward, answer locally, hang up; a second thread writes | the announcement of a handler races its first request; local answers overtake others; one thread may fail alone |
| Module thread | `core/src/module.rs:257-321` | request channel, cached parameters, poll tickers | initialise, read, change, do, activate, poll | hardware errors, values without a JSON form, events in between replies |
| Derived methods | `derive/src/module.rs:225-560` | the parameter cache | generated `read`, `change`, `command`, `activate_updates`, `init_params`, `poll_*` | cache, event and reply have to agree on every path |
| Restarts | `modules/src/lib.rs:44-60` | the request channel survives | catch the panic, drain, wait for a request, start again | requests lost with the panic; initialisation while clients are active |
| Local client | `core/src/client.rs:96-162` | reply channel | `read`, `change`, `command`, `ping` with a timeout | late replies |
| Line communication | `modules/src/support/comm.rs` (`serial.rs`, `tcp.rs`) | shared buffer, condition variable, `connected`, `stop` | `communicate`, `readline`, `writeline`, `read`; a reader thread that reconnects | wake-ups, stale input, partial lines, reconnection |
| Simulated cryostat | `modules/src/simcryo.rs` | `StateVars` under a lock, parameter cache | parameters, `stop`, a simulator thread | the simulator steps between two reads of one poll |
| Toellner power supply | `modules/src/toellner.rs` | a local client | reads through another module | blocking calls between modules |
| Wire format | `core/src/proto.rs` | none | parse, print | optional parts of a line |
| Data types | `core/src/types.rs`, `derive/src/typeinfo.rs` | none | to and from JSON | ranges, rounding |
| Configuration | `core/src/config.rs` | none | load, check names | case folding |
| Executable | `src/bin/server.rs` | none | command line, logging, signals | |

Interaction: a connection announces itself on the dispatcher's connection
channel and puts requests on its request channel.  The dispatcher forwards them
to the module's request channel, or answers.  Modules put replies, events and
their description on one channel to the dispatcher, which routes them to reply
channels of handlers.  A local client is a handler without a socket.  Nothing is
persisted.  The only shared memory is inside modules (`comm.rs`, `simcryo.rs`).

What makes the components correct: every request is answered, once and in
order; an activation delivers the state and then all changes; events go only to
those who asked; the state of a global activation stays consistent through
failures; a restart does not lose what the node knows; a client is given its own
answers; no wake-up is lost; a poll's values belong together.

## Modules

| Module | Models | Composition |
|---|---|---|
| `Service` | what a node promises its clients: the abstract specification | by itself |
| `Channels` | the messages, and the channels as sequences | base of the next seven |
| `Dispatcher` | the dispatcher thread | EXTENDS Channels |
| `ModuleThread` | a module's thread with its derived methods and restarts | EXTENDS Channels |
| `Connection` | listener and handler threads of TCP clients | EXTENDS Channels |
| `SecNode` | the node: those three, fairness, the properties, the refinement of `Service` | EXTENDS all three, INSTANCE Service |
| `MCSecNode` | constants for the runs | EXTENDS SecNode |
| `NodeLemmas` | lemmas about queues, and about the dispatcher and the module threads in any node | EXTENDS Dispatcher, ModuleThread |
| `SecNodeProofs` | theorems: types, the counter, order of replies, the refinement of `Service` | EXTENDS SecNode, NodeLemmas |
| `SecNodeClientProofs` | theorems: what clients are told | EXTENDS SecNodeProofs |
| `LocalClient` | the operations of a local client | EXTENDS Channels |
| `Toellner` | the thread of a module that reads through another one | EXTENDS LocalClient, ModuleThread |
| `CallingNode`, `MCCallingNode` | a node with such modules, ordinary ones, and users of local clients | EXTENDS Dispatcher, Toellner |
| `CallingNodeProofs` | theorems: types, lag of replies | EXTENDS CallingNode, NodeLemmas |
| `Wire` | parsing and printing of messages, as operators | by itself |
| `Lines`, `MCLines` | the receiving loop of a handler: bytes, chunks, lines, limit | EXTENDS Wire |
| `LinesProofs` | theorems: chunks, the length limit, printing and parsing | EXTENDS Lines |
| `Types` | the data types, their values and JSON, and which values are within their limits | by itself |
| `Conversions` | the conversions of every data type to and from JSON, as recursive operators | EXTENDS Types |
| `Startup` | from the configuration to a running module with two parameters, for any conversions | EXTENDS Types |
| `MCStartup` | gives `Startup` the conversions of the code and constants for the run | EXTENDS Startup, Conversions |
| `StartupProofs` | theorems: the check of the names, initialisation, what active clients hold | EXTENDS Startup |
| `Comm` | client and reader thread of a line-based connection, and its device | by itself |
| `CommProofs` | theorems: wake-ups, own answers | EXTENDS Comm |
| `SimCryo` | module and simulator thread of the cryostat | by itself |
| `SimCryoProofs` | theorems: linked coefficients, idle, stop | EXTENDS SimCryo |

How state corresponds to the code, in the node:

* `connections`, `requests`, `modq[m]`, `replies` are the crossbeam channels of
  `Server::start`.  `outbox[h]` is everything ever put on h's reply channel; what
  its client has seen is a prefix of it.
* `handlers`, `active`, `remaining` are the fields of `Dispatcher` and the
  counter of `run`; `described` is the set of names in the descriptive data.
  `discarded` is a history variable: the handlers for which `send_back` found no
  channel.
* `mstate[m]` is where the loop of `inner_run` is: starting (create to the
  description), running (the loop of `Module::run`), panicked (not yet drained),
  waiting (for a request).  `cache[m]` is `ModParam::data`; `hw[m]` is the value
  in the hardware.
* `conn[h]` is the life of a handler's two threads; `asked[h]` what its client
  asked.
* A request's `id` stands for the line it carries along (`IncomingMsg.0`), with
  which a client tells answers apart.

In `LocalClient`, `taken` counts what was received from the reply channel, and
`Calling(h)` says that the thread is inside `transact`.  In `CallingNode`, `Users[h]`
is the name that the client h of other code was made for: `Client::new` fixes it.  In `Toellner`,
`client[m]` is `ToellnerPS::io`, `serving[m]` the read request whose read waits for
the peer (a poll and the initial read have none), and `iomod` the configured
names.  In `Lines`, `buf` is the buffer of `Handler::handle`, and what it forwards
and answers is kept whole.  In `Startup`, `module.cache` is the struct of
`ModParam`s, `module.hook` what `update_<param>` got last, `module.held` what an
active client was told last, and `todo` the stanzas of `init_params` still to run.
In `Comm`, `buffer`, `connected` and `stop` are the members of `CommShared`; a
text is the number of the request it answers.  In `SimCryo`, `vars` is
`StateVars`, and `plan` holds the reads that the present request or poll still has
to make.

The refinement (`SecNode!AsService`) maps `asked` to the requests that were made,
each with the module it goes to; the ids of a client in `requests`, `modq` and
`replies` to the open requests; and `outbox` to what was told, where an update is
the last word for a read and a part of the answer to an activation.

### Atomicity

* One branch of the dispatcher is one action: the thread touches no shared state
  but channels, and sends on unbounded channels do not block.
* The handling of one request or poll by a module is one action.  What it sends
  goes to one channel that others only append to; the order of events of different
  modules between them is not lost, for nothing relates them.
* The hardware changes between such actions only (`HardwareDrift`).
* A module that calls another one gives up nothing while it waits, but the rest of
  the node goes on: in `Toellner` the start of a read and the return of its call
  are two actions.  `read_status` and `read_target` of that class return constants.
* In `Lines` one read of the socket, with all the lines it completes, is an action:
  the loop touches nothing that others write.
* In `Startup` one stanza of `init_params`, and one request, is an action: a module
  has one thread.
* In `Comm` an action is what happens while the buffer lock is held; waiting
  gives it up, and a woken client takes it again in an action of its own.
* In `SimCryo` each lock of `StateVars` is an action of its own, since the
  simulator runs in between.

### What is abstracted

In the node a module has one parameter and one command; its class says whether the
parameter is a writable or readonly one of the hardware or software-only.
Values are members of a small set, `Representable` those that `to_json` and
`from_json` accept: `Conversions` says which those are for each data type, and `Startup`
has two parameters of any of them.  All errors are one kind of reply.  `Poll` is
any tick of either ticker: which parameters a tick reads matters only with several
parameters, which `SimCryo` has.  Of `SimCryo` the thermal physics, the mode and
the coefficient d are left out; nothing modelled depends on them.

In `Types` real numbers are counted in halves: enough for a fraction, for rounding
half away from zero and for scaled values that no step reaches.  The loss of
precision of `f64` is left out.  Text is a name and its length in bytes.  In
`Lines` a byte knows which line it was sent in and where, so that a line which is
cut or joined wrongly is not a message; `Lines` draws a line out over one to five
bytes.  In `Toellner` the answer of the peer is any value, or text that is no number.

## Runs

Passing runs; all properties are explained where they are defined.

| Run | Shows | Bounds |
|---|---|---|
| `activation` | every activation is preceded by its updates; events come only between Active and Inactive; the counter covers the modules that owe an answer; all that is in flight belongs to one request; types | two clients with two and one requests, two modules, one of which panics any number of times |
| `subscriber` | a client that activated a module by itself holds its cached value, or an event is on its way; it may miss only a value without a JSON form, or the one a restarted module takes silently | one client with three requests, activations of one or all of two modules, one of which panics any number of times, three values, one without a JSON form |
| `failures` | replies stay in order, none twice; who answered is described; the node refines `Service` | one client with two requests, two modules, hardware errors, panics, values without a JSON form |
| `answers` | every request of a client that stays is answered, unless a panic drops it; a global activation ends | one client with any two requests, of every kind; two modules, one of which fails, panics any number of times and starts again; hang-ups, a broken connection; fairness |
| `toellner` | types; replies lag behind calls by no more than the timeouts before, never ahead or twice; no more is unread than calls timed out; the queue of a module that calls others does not stay full | a module that panics, one or two callers, in a chain, in a circle, calling itself or nobody; one call of a user, two polls, two clients of callers; fairness |
| `comm` | a woken client finds a line; no line is missed; a communicate on a quiet line returns its own answer; a lost connection comes back | three calls of any kind, one loss of the connection, any number of setups |
| `simcryo` | linked coefficients agree; a polled idle status means that the setpoint has arrived; stop holds; a ramp ends with the status saying so | three requests, three temperatures, two ramps |
| `lines` | what is processed does not depend on chunks and line endings; the length limit; what is printed parses to the same | all lines over two words, one odd one and one value, one to five bytes long, followed by a read; chunks of one to three bytes, limit of two |
| `startup` | no names are refused without a clash, nor accepted with one if groups are in lower case, in whatever order; initial reads are fresh; the configuration is taken; an active client holds the cached value; what is shown can be written | names in three spellings; two parameters in every role, one of each data type, with values in and out of range; four steps of the running module |

Why these bounds are enough: two clients contend for the single global
activation, and two modules are needed for one to answer while the other has
not; the hazards of a module are about one panic, one drift or one failed access
between two requests, and panics are not bounded at all; the linked coefficients
and the poll of the cryostat need one request and one step of the simulator between
the reads.  Two requests of one client order against each other.  Values are two, and a
third where one has no JSON form: equal or different is all the code asks.  A reply
is late by one call after one timeout: a calling module makes its initial read, a poll and the read of the user
through one client, so that late replies meet later calls, and two clients in the
pool let it restart once.  In the circle each of the two modules takes one client, so
that neither starts again; it was also checked without a user and with three clients,
where one does.  One call of a user is what liveness can afford; the
safety properties, and the inductive invariant of their proofs, were also
checked with two calls and one poll.  A line of three bytes and its ending is longer than a
chunk and than the limit, and five bytes is more than both together.  Two
parameters are enough for the order of initialisation, which compares them in pairs.

Deadlock is not checked where clients stop after their last request; the module
threads and the simulator of a running node never stop.

### Where the code does not do what is said of it

| Run | What happens |
|---|---|
| `dropped_reply` | a request is taken before its handler's announcement; the reply is dropped, though `bench.py:51` asserts one |
| `stuck_activation` | a panic drains a global activation; the counter stays positive, and all later ones are refused as "already activating" |
| `restart_gap` | a module restarts while a client is active for it; its new cache starts from the default of the type, so a first value equal to that is no event: a client that asks for nothing else keeps an old value until the next change |

Other disagreements found while modelling are in the list of hazards of
`PROJECT.json`, each with a note: activations that take effect after a Quit or a
"done instantly" deactivation, modules that are not retried, handlers that are
never forgotten, `readline` with a line in the buffer, a reader that is not
stopped, group names in mixed case (module `ts` and group `Ts` are accepted, though
`config.rs:74` says that lower case decides), half a request that a failed write
leaves behind, and the events that a client of a global
activation misses between its initial update and Active.
The passing properties are stated so that they hold in spite of these: the
properties of outboxes exclude handlers in `discarded`.  `SubscriberUpToDate`, of which
`restart_gap` shows the violation, is what one would wish for; `SubscriberFollows` is
what the code keeps of it: `ActivatedAlone` excludes clients of a global activation, and
`Unannounced` names the values that a client may miss.

### Fairness

* Dispatcher: weak fairness of each of its three channels.  `select!` picks at
  random among the channels that are ready, and a channel that has a message stays
  ready; so it is served in the end with probability one.
* Module threads: weak fairness of starting, of handling requests, of polling, of
  draining and of waking, for the same reason.
* Clients: none.  They need not ask, and may hang up.
* `CallingNode`: the dispatcher as above; weak fairness of the creation, of the
  return of a call (an answer, or the two seconds) and of the restart of calling
  modules; strong fairness of their serving a request: while the thread is inside a
  call for a poll, it serves nothing, but each time it is back `select!` picks at
  random, so that a request which waits is picked in the end.
* `Comm`: weak fairness of the reader thread, which includes that the device
  accepts a connection in the end; this is an assumption on the environment,
  without which the thread tries for ever, as it should.
* `SimCryo`: weak fairness of the simulator and of reads.  The polls have strong
  fairness: a tick stays in its channel, and while the thread is busy with another
  branch a poll is not enabled.

## Proofs

Every theorem holds for every set of handlers and values, every finite set of
modules, every menu of requests and all bounds, unless its row says otherwise.

| Theorem (`Spec => ...`) | What it says of the code | Inductive invariant |
|---|---|---|
| `TypeCorrect` | no channel carries a message its reader has no case for | `TypeOK` |
| `CountCorrect` | the decrement of `global_activate_remaining` (`server.rs:292`) never underflows | `CountInv` |
| `AnsweredInOrder` | a client gets the replies of a module in order, none twice | `MatchInv`, `OrderInv` |
| `Implements` | every step of the node is a step of `Service` or none | `SafeInv`: all of these |
| `DescribedFirst` | who answered is described | `DescribedInv` |
| `EventsBetween` | events only between Active and Inactive | `EventInv` |
| `OneAtATime` | all that is in flight of a global activation is of one request | `OneInv` with `CountInv` |
| `ActivationsComplete` | an Active comes after the updates of all it covers; where values have a JSON form | `CompleteInv` with `OneInv` |
| `SubscribersFollow` | a client that activated a module by itself knows the cached value or an event is on its way, but for values without a JSON form and silent restarts | `UpdateInv` |
| `SubscribersUpToDate` | the same of every active client and every value; under the hypotheses below | `UpdateInv` with `EventInv` |
| `CallingTypeCorrect` | types, in a node whose modules call each other | `TypeOK`, `OwnInv` |
| `LagStaysBounded` | a reply is behind its call by no more than the timeouts before, never ahead or twice | `IInv` of `CallingNodeProofs` |
| `UnreadStaysBounded` | no more messages are unread than calls timed out, one more during a call; each answers a later call than all that were taken | `IInv` |
| `CommTypeCorrect`, `WokenHasLine` | the `unwrap` of `get_line` (`comm.rs:65-72`) never fails | the two together |
| `NoMissedLine` | nobody waits for a line that is there | itself with `TypeOK` |
| `CleanAnswers` | a communicate on a quiet line returns its own answer | `CleanInv` |
| `LimitHolds` | a connection keeps no more than the limit, and processes no line longer than the limit and a chunk; for two lines | `LinesInv` |
| `ChunksDoNotShow` | each line is processed once, in order, as it was sent, and one Quit ends the loop; for two lines | `LinesInv` |
| `PrintedComesBack` | what is printed parses to the same; for two lines and the replies to them | `LinesInv` |
| `VerdictCorrect` | a configuration is refused only if two of its names clash, and, with groups in lower case, whenever they do | `NamesInv` |
| `InitialReads` | the parameters that are only read start with what the writes have left in the hardware | `StagesInv` |
| `Configured` | a module that started has taken every configured value it can set, and none starts without a mandatory one | `StagesInv` |
| `HeldFollowsCache` | an active client holds the cached value if it has a JSON form | `StagesInv` |
| `CryoTypeCorrect` | no step of the simulation leaves the range | `TypeOK` |
| `LinkedCorrect` | linked coefficients agree after every request | `LinkedInv` |
| `IdleMeansThere` | a polled idle status means that the setpoint has arrived | `IdleInv` |
| `StopsAtOnce` | a stop holds the setpoint (an action property) | `HaltedInv` |

The arguments, and why the invariants say more than the properties:

* *The counter.*  `GlobalCount` is proved in a form about sequences.  In every
  module queue there is at most one global activation, among the replies at most
  one global answer of each module, never both, and no more modules have one than
  the counter says.  Only `DispatchActivateAll` adds a request, when the counter is
  0 and nobody owes anything; handling moves the module's debt to the replies;
  routing pays it as the counter goes down; panics and draining only remove debts.
  The lemmas on `None` and `Keeps` say that all else leaves alone what counts.
* *Order.*  `RepliesInOrder` speaks of what clients were sent, but a reply's place
  there is settled by three channels.  `MatchInv` says that what is on its way
  belongs to a request that was made, and is of the kind and module which that
  request asks for; `OrderInv` that for one client and one module the ids ascend
  along reply channel, `replies`, queue, and `requests`, as if they were one
  channel.  A panic cuts out the front of the queue, draining answers it in order,
  so neither breaks the order.
* *The refinement.*  One step lemma for each action of `Service` says which change
  of the mapped state makes it one; each action of the node is one of these changes
  or a stutter.  `SafeInv` is needed where an id leaves a channel: that it is then
  in no other one, and that an answer is to the oldest open request of its module.
* *What clients are told.*  `DescribedInv` extends the property to answers that
  are still among the replies: before each there is the description of its module,
  if it is not taken yet.  `EventInv` links `active` to the last Active or Inactive
  of an outbox.  `OneInv` names the owner of what is in flight, which is the client
  and id of the last global activation let in.  `CompleteInv` counts the modules
  without an update in the owner's outbox: no more than the counter.  `UpdateInv`
  says of each running module what a client that activated it by itself, or is about to
  have done so, will be sent: its last word, or the last one still to come among the
  replies, is the cache's value, if that is none of the values a client may miss.  As
  soon as such a module holds another value, the event that says so is behind all it sent
  before; so nothing need be known of the time of a panic or restart.  A module that
  never panics has been activated by nobody before it runs.
* *Local clients.*  A reply is matched to a call by nothing but its place in the
  channel, so `LagBounded` needs the whole way of a call.  `NameInv` says that a
  client has one owner and calls one module; `MatchInv` and `OrderInv` here are
  those of the node for calls, with the request a blocked caller is serving
  (`ServingInv`) at the head of its queue; since all calls go to one module, their
  ids ascend along the whole way.  `LagInv` then counts: a return takes one message
  or is a timeout, and ids in the reply channel are distinct and ascending, so the
  last message taken is at least that of the number of calls less the timeouts.
  `UnreadBounded` counts the other way: the ids of unread messages are calls after
  the last one that was answered, and of those that are over each timed out.
* *Communication.*  `WokenFindsLine` holds as only the client itself takes lines,
  so the reader can but add to them; `CleanInv` says what a device that answers
  in pieces has still to send, and that the pieces make up one answer.
* *Lines.*  The proof is for one line of any length, any form and either ending,
  followed by any other, in chunks of any size and with any limit: bytes are matched
  to the two lines they come from.  `LinesInv` says where the loop is in the stream:
  the buffer and what is not yet received are one piece of it, which begins behind
  the last line feed that came, and what was processed is what comes before.  The
  lemmas on the operators say which lines a piece of the stream with no, one or two line
  feeds holds, and that the text of a line is the message it was sent as.
  `PrintedComesBack` needs the form of what parses (`Shape`): a specifier of words,
  with a parameter, without or empty as the kind wants it.
* *Names.*  `NamesInv` says what has been found so far: the names seen are those no longer
  to be checked, with what they fold to, and they clash with none of each other.  A
  verdict is then about all of them, in whatever order they were taken.
* *Initialisation.*  `StagesInv` goes along the stanzas of `init_params`: which ones are still to
  run is what the cache, the hooks and the hardware are compared by.  A parameter that is
  configured is set once its stanza is over and never after; one that is only read is
  read behind all writes.  The conversions are constants there, of which nothing is
  assumed: a value may have no JSON form, or come back from it changed.
* *Cryostat.*  Each invariant says of a cached value that it is right unless its
  read is still in `plan`; `IdleInv` also orders the reads of one poll, as the status
  is read before the setpoint and the simulator may step between them.

Hypotheses of theorems.  `ActivationsComplete`: a value without a JSON form has no
update (`derive/src/module.rs:342-349`), as the run `activation` also excludes.
`SubscribersFollow` has none.  Its corollary `SubscribersUpToDate` assumes that no module
panics, that values have a JSON form, and that nobody activates all modules.  Without
the first it is false (the run `restart_gap`), and without the last too: a client of a
global activation becomes active only when the last module has answered, and misses the
events before (`server.rs:292`, among the hazards).

Assumptions on constants are those of the modules; the code gives all of them:
the set of modules is finite; markers and names differ; handlers and modules are
no marker; a `describe` names no module, as `Msg::Describe` has no field for one
(`proto.rs:59`); local clients make only requests that `Client` has; a
folding a folded module name changes nothing; a word of a specifier is not empty
(`proto.rs:35-45`), and what is absent or no JSON is neither a specifier nor a value.

Only model-checked:

* liveness (`EveryRequestAnswered`, `GlobalActivationEnds`, `QueuesEmptied`,
  `Reconnects`, `MoveEnds`), which is out of the prover's reach under fairness;
* `ShownCanBeWritten`: it is about what the conversions of `Conversions` compute, which
  recur over the data types, and needs induction over data;
* `Startup` with these conversions, and `Lines` with every line there is: the theorems
  hold for any conversions and any two lines, the runs show that the code's are among them.

## Not modelled

* Back pressure: channels are unbounded, and writing to a socket never blocks
  the modelled threads.
* `HasComm::do_multi_communicate`, which only panics, and an empty end-of-line
  string, which panics in the reader.
* A module that fails to set up its line-based connection leaves none behind;
  which address or device it tries is not modelled, nor the conversion to UTF-8.
* In `ModuleThread` a write that succeeds is read back as it was written: hardware that
  takes another value than it is given is not modelled, only one that changes later.  In `Startup` it may change the other
  parameter, and `update_<param>`, which modules may let fail, always succeeds.
* In `SimCryo` the configured coefficients are within the limits of `p` and `i`.
* In `Comm` the reader takes the lock as soon as it has read.
* The type `Null`, which is for commands only.
* The description of modules and data types, polling periods, command-line and log
  handling; the table of error classes.
* The thermal physics of the cryostat, its mode and its parameter d.
* `RemoteClient`, whose constructor always fails, and the executable
  (`src/bin/server.rs`), which calls `Server::start` and waits for signals.

## Plan

Done: the node and the service it implements, local clients and modules that call
each other, lines, line communication, the cryostat, data types, configuration and
initialisation; theorems for every safety property that a run checks but one
(`ShownCanBeWritten`).  Next, in this order:

1. `CallingNode` as an implementation of `Service`, with the calls of local clients
   for the requests of connections.
2. `Lines` for any number of lines, which needs an induction over the lines that
   have come in.
