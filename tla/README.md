# twsgluum: a verification project

twsgluum is a set of daemons and tools that sit between Interactive Brokers'
Trader Workstation (TWS) and a network of consumers. Each program is one
thread around a libev loop. This directory holds TLA+ models of the programs'
own logic, TLC configurations that check them on small instances, and TLAPS
proofs for every value of the parameters. Paths are relative to `src/src/`.

Contents: 1 the system, 2 the modules, 3 the runs, 4 the proofs, 5 findings,
6 what is not modelled, 7 the plan.

## 1. The system

### The parts

| part | files | state it keeps | operations |
|---|---|---|---|
| cell pool | `gq.c` | maps of equal cells, a free list, a list of book keepers; the owner's lists | `init_gq` (create, grow), `gq_pop_head`, `gq_push_head`, `gq_push_tail`, `fini_gq` |
| quote queue | `quo.c` | `sbuf`, ticks to be sent; `pbuf`, the last quote per key | `quoq_add`, `quoq_flush_cb` |
| subscription queue | `sub.c` | `sbuf`, the session's subscriptions; `norm`, nick to `uidx`, for the life of the process | `subq_add`, three finders, `subq_flush_cb` |
| positions queue | `pfa.c` | a list of positions | `pfaq_add`, `pfaq_flush_cb` |
| session | `tws.cpp` | connection, next order id | `init_tws`, `fini_tws`, `tws_state`, requests, callbacks |
| quote daemon | `quo-tws.c` | the queues `sq` and `qq`, watchers, `old_st` | the loop's callbacks, subscribing, flushing, announcing |
| positions daemon | `pf-tws.c` | account names, interned symbols, the positions queue, `nex` | the loop's callbacks, walking the accounts |
| order daemon | `ibex.c` | table of pairs, pending bits, default amount | commands to orders, HALT, RESUME |
| forex tool | `ibfx.c` | `cons`, a table from ticker ids to currency pairs | subscribing to the pairs of the command line at each readiness, a line per price |
| order tool | `ox-tws.c` | a session and a timer | the loop alone: it keeps a session up and makes no requests |
| web service | `websvc.c`, and `dccp_cb` in `quo-tws.c` | eight connection slots | serve the definition of an index |
| definitions | `sdef.c`, `sdef-twsxml.cpp`, `sdef-fixml.cpp`, gperf files | a table of namespaces, the list of requests and a place in it | `el_sta`, `el_end`, declarations; writing |
| decimal numbers | `dfp754_d32.c`, `dfp754_d64.c` | none | read, print, scale, quantize, in two encodings |
| the rest | `strops.h`, `tws-sock.c`, `tws-uri.c`, `mc6-sock.c`, `logger.c`, `daemonise.c` | none, or handles | conversions and system calls |

### How they interact

There are no threads and no locks: all interaction is calls and callbacks
inside one round of the loop, and state kept from one round to the next.

* A round is: `prep_cb` before the poll, the poll, then the callbacks of
  everything the poll has found, in an order nobody promises.
* `prep_cb` compares the session's state with a static `old_st`; at the edge
  into readiness it makes the requests, then it sends, then it flushes.
* `reco_cb` (a timer, every 2 s, started once and never stopped; in `ox-tws.c` it
  stops itself and is started anew) sets up a session when there is none. `twsc_cb` watches the session's socket: it peeks,
  hands what there is to the broker's library, which calls `pre_cb` or
  `post_cb` per message, and closes the session when the peer has hung up.
  `sighup_cb` closes it at any time.
* The daemons queue what the callbacks bring (`quoq_add`, `subq_add`,
  `pfaq_add`) and read the queues in a later round, when the session they came
  from may be gone. Ids of requests and tickers are drawn from a counter that
  every session starts anew; pointers and symbols point into memory that
  another callback frees or moves.

### What is hard here

The repository has no tests. The hazards, with the line where each bites and the properties that
would catch it, are in `PROJECT.json`. They fall in seven groups:

1. state of a dead session met by a live one: quotes, subscriptions, request
   ids, a walk over accounts, positions with pointers;
2. two callbacks of the same round in either order: a timer that sets up a new
   session before the old session's readable socket is served, a HUP in between;
3. edges that are seen once: readiness, the start of the timer;
4. linked lists and merged ticks: last pointers, cells kept or given back;
5. connections that take each other's slots and descriptors;
6. limits: a growing pool, a growing array of names, a full table, 16 bits,
   the digits of a number where rounding, masks and declets meet;
7. documents: a table of namespaces that is reordered while it is read, one
   pointer to the request everything is put on.

What makes each part correct:

* cell pool: a cell is in one place, lists are first in first out, all memory
  is accounted for;
* quote queue: no tick is lost, repeated, reordered or given a value of another
  key, and the queue needs one cell per key in the long run;
* subscriptions: an index is made for one nick, and what consumers were told of it
  is not taken back by a reconnect;
* quote daemon: a quote goes out under the index of its instrument, after the
  index was announced, in the session it came in; sessions come back;
* positions daemon: what is published names its own account and instrument;
  all accounts are asked for;
* order daemon: an order is that of its command, a halted daemon does not
  trade, ids differ;
* web service: a descriptor is closed once, an answer goes to who asked;
* session: requests are made when they can be made, and a message ends in the
  hook it is for;
* forex tool: a line names the pair its price is of, each session is asked for
  every pair once;
* order tool: no second session is set up over a live one, and one that was
  lost comes back;
* definitions: the list of requests is what the document says, in whichever of
  the two languages each element is;
* decimal numbers: what is printed is the number that was read, scaled and
  rounded, and the two encodings agree.

## 2. The modules

```
CellPool  <--- refined by --- Gq                     GqProofs
QuoteFeed <--- refined by --- Quo                    QuoProofs
SubSpec   <--- refined by --- QuoTws                 QuoTwsProofs
                (Sub)          EXTENDS Tws, Sub
Intern <-- PfTws              EXTENDS Tws            PfTwsProofs
           Ibex               EXTENDS Tws            IbexProofs
Ibfx, OxTws <-- Tools         EXTEND EvLoop (EXTENDS Tws); Ibfx also Wrapper
                                                     ToolsProofs
Dccp, Sdef, Dfp754 <-- Parts                         PartsProofs
```

**CellPool / Gq** (`gq.h`, `gq.c`). `CellPool` is what a pool promises: lists
are sequences, a cell is on one list or in the owner's hand. `Gq` has the
pointers. `i1st`, `ilst` are `gq_ll_s`, `nxt` is `gq_item_s.next`, `z` is the
size a book keeper notes. `InitGq` and `FillFree` are `init_gq` before and in
its loop, `PopHead` and `PushTail` the inline functions as the owners use them,
`FiniMap` and `FiniGq` the loop and the end of `fini_gq`. An address is a
number, maps come one above the other; the branch of `init_gq` that would
extend a map in place cannot be taken, since the hint it gives is never the
address it gets. `chain` is a history variable: what each list is meant to hold.

**QuoteFeed / Quo** (`quo.c`). `AddPrice`, `MergeSize`, `PushSize` are the
three ways through `quoq_add`; `FlushOne` is one turn of `quoq_flush_cb`. Lists
are sequences, which `Gq` justifies. A key is a ticker id and a market side.
`held` counts the cells taken from the pool. `QuoteFeed` knows nothing of
merging: each price tick and each size tick that is not 0 comes out once, in
order, per key.

**Sub** (`sub.c`). Operators for the operations, used by `QuoTws` as parts of
its actions, and a specification of its own, `SubSpec`, in which any sequence
of operations happens. The daemon is shown to implement it. `Resolve` and
`Stamp` are the writes quo-tws makes through the pointers the finders return.

**Tws** (`tws.cpp`). The session: is there one, is its socket good, the next
order id. `tws_state` follows from these three. The broker's C++ library is
external: when its socket breaks is a choice, and the handshake is folded into
the wait for the first order id, since `tws_state` says "setting up" for both.

**QuoTws** (`quo-tws.c`). `loop` is the place in the round; `ready` the events
still to be served; `polled` the session whose socket the poll looked at, so
that `twsc_cb` meeting another session's socket is a behaviour of the model.
`PrepCb`, `InitSubsFail`, `SubSdef`, `TwsSend`, `FlushDrop`, `FlushPublish`,
`FlushDone` are the steps of `prep_cb`; `TwscHangup`, `TwscData`, `SighupCb`,
`RecoIdle`, `RecoConnect` the other callbacks; `RecvValidId`, `RecvTick`,
`RecvContDtl`, `RecvDone` what `tws_recv` calls back with. `s.idx` of
`__sub_sdef` is not initialised in the code, and is any member of `Junk` here.
`asked` and `tick` are the broker's: the answers due, the ticker ids given out.
A quote is its ticker id with, as history, its instrument and its session.
`mixed`, history too, says that a session was set up from the down state on top
of the subscriptions of the one before. `served` is what websvc answers for an
index.
`TwscData` asks that the socket is the one that was polled: on the socket of a
session that was set up in this very round there is nothing to read yet,
because the first bytes of the handshake go out from the next `prep_cb`, and
`twsc_cb` then takes the empty socket for a hang-up, which is `TwscHangup`.

**Intern / PfTws** (`pf-tws.c`, `pfa.c`). `Intern` is the array of names: a name
is looked up by `memmem`, its NUL included, so that a name that is the end of
another shares its bytes. `PfTws` is the daemon. A pointer to an account name
is the place of the name and whether the memory is still there. `pfaq_add` and
`pfaq_pop` are `pfa.c`; its cells are a pool of module `Gq` with one list. `EndSingle`,
`EndNext`, `EndLast`, `EndJunk` are the branches of `ACUP_END`, the last one
for a pointer that has been freed and reads as something else. `subd` and
`fresh` are history. The broker ends every name of a list of several with a
comma; `pf-tws.c:455-466` counts the names by their commas.

**Ibex** (`ibex.c`). `BeefHalt`, `BeefResume`, `BeefNothing`, `BeefFull`,
`BeefRefuse`, `BeefOrder`, `BeefCrash` are the ways a line can go through
`ex()`, with `intern_instr`, the amounts, `o()` and `tws_order`. Whether a
price is there and can be read is kept, its digits are not. `oids`, `early`,
`halted` are history.

**EvLoop** (the parts of `ibfx.c` and `ox-tws.c` that are the same). The loop,
the watcher on the socket, signals, the timer, as pieces of actions over shared
variables. A round that was begun is finished after a signal (`done`).

**Wrapper** (`tws.cpp`). Which hook each message of the broker's library calls
back, and what the hook is told; a table, since that is what the code is.

**Ibfx** (`ibfx.c`). `ibfx_prep_cb` and `subs` are the steps of `prep_cb`;
what is received goes through `Wrapper` (`Callback`), so that a message for a
hook that is `NULL`, or one the hook ignores, is a step too. `cons` is the table as the code
keeps it, `tick` what the broker knows: it is emptied with the session, `cons`
never is.

**OxTws** (`ox-tws.c`). Its timer is started by `prep_cb` when there is no
session or a broken one, and is stopped by its own callback, which does not look
at the state. `chck_cb` runs in each round. `tws_sock_dies` is the lookup that
fails and frees a pointer that was never set.

**Tools** puts the two side by side: a process runs one of them (`prog`), and
both share the fairness of the loop.

**Sdef** (`sdef.c`, `sdef-twsxml.cpp`, `sdef-fixml.cpp`). The environment opens
and closes elements where the two languages allow them; the actions are the
parser's callbacks. `ns`, `nns`, `sreq`, `cur` are the fields of the context.
The namespace table is kept with its order, because `sdef.c` moves a language it
knows to the front and what was there to the end, and finds elements in what it
then is. The attributes of an element are one value. `Meant_sreq` reads the
finished part of the document anew, knowing nothing of prefixes or pointers; it
is what `sreq` is compared with. `Readable` says which documents can be read: the
others meet one of the faults of section 5. Prefixes are taken to be names of
which none begins another. A `NULL` that is followed ends the program
(`crashed`). `SdefSpec` is the reader on its own, which the proofs are about;
`Parts` has the same actions.

**Dfp754** (`dfp754_d32.c`, `dfp754_d64.c`). `bcd` strings are the numbers they
spell; packing into declets (DPD) or into a binary significand with its two
layouts (BID), and back, is by the arithmetic of the code. Rounding is modelled
with the mask that is narrower than the number, the digits it does not look at
and the loop that does not end (`hung`). `Meant` is the reference: decimal
rounding of the text. `Fault` says of a text which of the known faults it meets.

**Parts** puts `Dccp`, `Sdef` and `Dfp754`, which share no state, in one
specification, of which a behaviour looks at one.

**Dccp** (`dccp_cb`, `dccp_data_cb` and `ev_io_shut` of `quo-tws.c`, `websvc.c`).
`Accept`, `AcceptFails`, `GoingDown` are the three ways through `dccp_cb`; both
begin by clearing the slot that is next (`Cleared`). `DataAnswer` and
`DataClose` are those through `dccp_data_cb`. The system gives the lowest free
descriptor, so that numbers come again; an event that was found by the poll is
served later in the round unless the watcher is stopped. What
`websvc_from_request` leaves uninitialised is any value (`Parsed`).

`LeastIndex` holds the lemma that a non-empty set of numbers has a least member,
which the finders rest on, and what follows from it: induction over a set of
numbers, and that a function defined by recursion obeys its recursion; and what
dividing by a product comes to, for the decimal numbers.

## 3. The runs

| run | shows | bounds |
|---|---|---|
| `gq` | `ChainOK`: following pointers meets exactly the cells put on a list, in order; `BooksCover`: book keepers account for the mapped memory; `PoolSpec`: refinement of `CellPool` | 2 lists, `NNew` 2, addresses to 6 |
| `quo` | `OneCellPerKey`, `CellsBounded`: no key twice on `pbuf`, no cell leaked; `ValuesGenuine`: no value of another key; `FeedSpec`: refinement of `QuoteFeed` | 2 keys, `sbuf` up to 3 |
| `quotws` | `RoutedRight`: a tick goes out under the index of its instrument, in the session it came in; `Announced`, `SubscribedOnce`, `IndexKeepsRequest`; `IndexKeepsNick`: over all sessions an index is announced with one nick, but for the one case named `Ambiguous`; `NeverReassigned`: no entry of the registry changes; `SubSpec` | 3 session names, 2 requests, 3 instruments, 2 queued quotes |
| `quotws_faults` | `RoutedRight` when the library's socket breaks at any time and `s.idx` may be a leftover, one of them a ticker id of this session; the quotes of that id are outside the property until the request is answered (`Leftover`) | 2 session names, 2 instruments, 1 queued quote, 2 subscriptions left behind |
| `quotws_live` | `Reconnects`, `ReadyGetsSubscribed`, `QuotesDrained` | 2 session names |
| `quotws_down` | finding | as above |
| `pftws` | `PublishedRight`, `NamesKept`, `NamesFit`, `ReadyAsked`, `OnceInOrder` | 3 accounts, of which a session lists 1 or 3; 3 names, 2 queued positions |
| `pftws_last` | finding | 1 queued position |
| `ibex` | `OnePlacePerPair`, `HaltedIdle`, `OidsDiffer`; `OrderRight`: an order is in the pair of its command and on its side, but in the two cases of `Turned`, where it is always on the other | 3 pairs, a table of 2, ids to 3 |
| `ibex_ready` | finding | as `ibex` |
| `tools` | `QuotesOfPairs`: a line names the pair its price is of; `PairsSubscribed`: a ready session was asked for each pair, once; `OneSession`: the timer of ox-tws never sets up a second one; `ComesBack` | 2 pairs, 2 session names, ids from 1 or from 2, a table of 4 |
| `parts` | `SlotsOwnFds`: every open connection is in one slot and no slot holds a number that was closed; `AnswersAsked`: answers go to who asked, and hold what was asked for; `EvictsOldest`; `RequestsRight`: the list is what the document says; `PrintsRight`: a number prints as what it stands for; `SameInBoth`: BID and DPD agree | 3 slots, 6 connections; documents of 7 elements; texts of 5 and 2 digits |

The type invariants of the gq, quo and ibex modules are listed with their runs;
those of QuoTws, PfTws and Dccp are the first conjunct of `SubscribedOnce`,
`ReadyAsked` and `SlotsOwnFds`.

Why the bounds are enough:

* **gq.** Six addresses make two maps, of 2 and of 4 cells, so the pool grows
  while the owner holds cells; the four cells that are not book keepers move
  freely over three lists. Lists of length 0, 1 and more with pops and pushes in
  any order are what the pointer code can tell apart.
* **quo.** A key with two prices and two sizes, and a second key lying between.
  Three cells on `sbuf` allow a merge into the first, a queued size, and a cell
  of the other key; `pbuf` is filled and updated by flushes in between. The size
  0 is there because the code takes a 0 for "no size yet".
* **quotws.** Session names are used in turn, so "another session" is told apart
  though there may be any number of them. A request for which the broker finds
  two instruments makes the answer that resolves a subscription and the one that
  makes a new one; the second request has a nick of the user's. `MaxQq` is the
  number of quotes read before a flush; `MaxSub` limits the subscriptions left
  by sessions that were not closed. The run has no `"sock"` fault, which would
  make it too large: `quotws_faults` has it, with one instrument per request.
  There `RoutedRight` holds as long as the queue is not `mixed`; that it cannot
  hold when it is, is `quotws_down`. Nor does it speak of a quote whose ticker id
  is the leftover in the `idx` of a request without an answer: without that
  exception TLC finds the quote going out under the request's index. All other
  leftovers, and that one once the answer has come, are shown to do no harm. The nicks of the requests and of the
  instruments are all different: with one nick for two requests an index stands
  for both, and `RoutedRight` and `Announced` do not hold.
  Two instruments for the first request also make the one case `IndexKeepsNick`
  leaves out: which of them resolves the request is up to the broker, each time.
* **pftws.** With three accounts the walk has a first, a middle and a last.
  One of the names is the end of another one. `MaxSubd` stops a session that
  walks round for ever.
* **ibex.** The table has one place less than there are pairs, so it fills up.
  `Lot` 20 with the amounts 50 and -50 keeps the three cases of an ounce amount
  apart, and those of a command's side.
* **tools.** A session that begins its ids with 2 after one that began with 1
  makes the same ticker id stand for the other pair; the table has room for
  both. Two session names tell the session of the poll from the present one.
* **parts**, the server. Six connections go twice round three slots; descriptors
  are given out again after each close. `Width` 4 stands for 2^16, and one of the
  indices asked for does not fit.
* **parts**, documents. Seven elements hold one request with all its parts, two
  with a contract, or the beginnings of both languages under one root. The eight
  ways to declare the languages put a favourite before and after an unknown
  namespace, with prefix and without, and two favourites in either order;
  `NsMax` 4 leaves one entry free. `RequestsRight` is about documents that can be
  read (`Readable`), so the run leaves the others out (`CONSTRAINT`); section 5
  says what they do.
* **parts**, numbers. The formats are made smaller, 3 and 4 digits in place of 15
  and 7, and the texts are longer than that on both sides of the point, with 0,
  4 and 9 for a digit that is dropped, rounded down and rounded up or carried.
  `Hid32` is the power of two below 10^4 as 2^23 is below 10^7, and `Kept` is
  less than the digits of the wide format. Two operations follow the reading.

Deadlock is checked except for `gq` (a pool ends with `fini_gq`), `ibex` (an
order without a session kills the process) and `parts` (going down; the end of a
document; the last operation).

**Fairness.** In `quotws_live`: `WF_vars(Next)`: the process is scheduled and the
loop goes round; nothing is said about which event is served. `SF_vars(TimerFires)`:
a poll again and again finds the timer expired. The timer repeats every two
seconds, the loop does not starve a watcher that is active, and the poll is
enabled again and again but not for ever, hence strong. Nothing is assumed of the
broker: `Reconnects` needs a session to be set up, not to succeed;
`ReadyGetsSubscribed` allows the session to be lost on the way. `QuotesDrained`
says in its premise that `prep_cb` finds a session again and again, because a
HUP in every round, which the model allows, would prevent that. There are no
faults in this run: a file that cannot be read is not read again in the same
session, and a socket that cannot be made for ever keeps the daemon down.

In `tools`, with all faults: `WF(Works)`, the process runs, but a poll may block
for ever: `Works` is a step from anywhere but the poll; `SF(TimerFires)`, as above;
`SF(Answers)`, an address that is tried again and again answers some time, without
which a program cannot come back. `ComesBack` allows the program to have ended.

## 4. The proofs

`tlapm` checks every theorem to its last leaf; no statement is assumed. The only
assumptions are those on the constants, named `...Assumption` in the module that
declares them; TLC evaluates them in the runs. Those that say more than types:
there are two session names at least wherever what a poll has found is told from
what a new session brings (`QuoTws`, `PfTws`, `EvLoop`; with one name, the model
could not tell them apart, while in the code no session is ever another one); the
ids of a session fit the forex tool's table (`IbfxAssumption`: without that the
code writes beyond its array); an element declares a prefix once
(`SdefAssumption`; XML has it so, and expat refuses other documents).

* **GqProofs**: `Typing`, `Chained`, `BooksRight`, `Refines`, for any lists, any
  `NNew` and however often the pool grows. `ChainOK` is not inductive: a push
  on one list would break another if they shared a cell. The inductive `IInv`
  adds that a cell is in one place (`OnePlace`), that the maps of the book
  keepers do not overlap (`BooksApart`) and that addresses stay in range
  (`Within`). The lemmas `LinkedPop`, `LinkedPushTail`, `LinkedPushHead` state
  what each primitive does to the pointers of one list, `LinkedElsewhere` that
  it does nothing to the others. Refinement maps every step of `Gq` to a step of
  `CellPool` or to a stutter.
* **QuoProofs**: `Typing`, `OneCell`, `Bounded`, `NeverMixed`. `IInv` says that
  queues hold genuine cells only, and that the cells taken are those queued. A
  value is genuine or 0, which stands for none. `KeepsPromise`: the queue
  implements `QuoteFeed`, for any keys and any number of ticks. What waits of a
  key is a column of `sbuf`, which is a recursive function; `Recursion` of
  `LeastIndex` gives its equation, and by `Induction` over the length the lemmas
  say what appending, taking the first and changing one cell do to a column. The
  step that needs an invariant is the merge: a size goes into the first cell of
  its key, and would overtake nothing and be overtaken by nothing only if no cell
  behind that one has a size. That is `FirstFull`: where the first cell of a key
  has no size, none of its cells has.
* **QuoTwsProofs**, the queue alone: `Typing`, `UidxUnique`, `QueueKnown`,
  `UidxKept`, which are about the registry of nicks: a definition overwrites the
  nick of a subscription, but not the entry. Uniqueness is not inductive without the counter; `Registry` says
  that the i-th entry has index i and the counter is their number.
* **QuoTwsProofs**, the daemon: `UsesOperations`, the daemon implements `SubSpec`, for any
  requests, broker, faults and leftovers in `s.idx`; with it `DaemonUidxKept` carries the theorem about the registry to the daemon. `QInv`
  types what the writes take from the rest of the state. `AskedOnce` and
  `IndexOfRequest` are about requests: their invariant `KInv` says that the ids
  of a session's requests are its first ones, in the order of the files
  (`Turns`: until `prep_cb` sees the session ready nothing else draws an id or is
  due), so that an answer's id tells its request (`Due`); then a subscription's
  nick is its request's or that of an instrument found for it (`Kin`), and so is
  what was announced (`Brags`). Resolving a subscription keeps `Kin` because
  answer and subscription have the id, and therefore the request, in common.
* **QuoTwsProofs**, the quotes: `TicksRouted` and `ToldFirst`, for requests whose
  nicks differ (`NicksApart`, which the runs satisfy; with two nicks alike TLC
  finds both violated). `RoutedRight` relates a quote, the subscription its
  ticker id finds and what the web service answers, which are made at different
  times, so `RInv` has a part for each of these: `Running`, where in the loop
  there is a session; `Filling`, how many subscriptions there are at least;
  `Origins` and `Order`, the first ones are those of the requests, in order, and
  the others each of one instrument; `Found`, an answered subscription has a
  ticker id of its instrument; `Drained`, a quote of an earlier session is on the
  queue only until the first flush, when nothing is subscribed yet. What is left
  in an unanswered `idx` may be a ticker id: then the quote found is of the first
  match, and goes out under the index of another request. The property excludes
  just these quotes (`Leftover`), and the theorem assumes nothing of the
  leftovers. `ToldFirst` does: its hypothesis `NoHit` says, of the behaviour,
  that no ticker id is such a leftover. Without it a nick is announced, the
  answer comes, and the nick is another one (TLC shows it). The theorem
  holds in inherited subscriptions too; `Agreed` says that what was announced is
  still what the subscription says.
* **QuoTwsProofs**, what an index stands for: `NickKept`, under the same two
  hypotheses: an index is announced with one nick over all sessions, unless its
  request has a made-up nick and finds several instruments, and then it changes
  only while no subscription of it has been announced. The registry does not give
  this, since the nick that is announced is the subscription's. `Chosen` says
  what that can be: until the answer the nick of the request, which is the
  registry's; after it, the user's or the instrument's. So whatever an index was
  announced with is one of the nicks meant for its registry entry (`Standing`,
  `MeantFor`), in this session or an earlier one, and `OneMeant` shows that there
  is but one unless the request has a choice.
* **PfTwsProofs**: `Fit`, the array of names never outgrows its memory. It rests
  on `RoundedUp`, that the next power of two is not less than the number, and that
  on `Powers`: powers of two are a recursive function, and grow beyond every
  number by induction. `DaemonFits` carries it to the daemon. `Kept`, a symbol
  reads as its name for ever. The invariant
  says that a symbol is the first place where its name lies and that the array
  ends in a NUL; `FirstGrows` and `FirstAtEnd` say that appending a name moves
  no first place. `DaemonKept` carries it to the daemon. `Published`,
  `EachAsked` and `InOrder` are the daemon's own, for any accounts, names and
  faults. `IInv` has a part for each: `Queue`, positions point to an account of
  the present list, because the broker lists the accounts once per session and a
  `prep_cb` that finds the next session up empties the queue before that;
  `Asked`, what `old_st` and the watcher say of a session that is ready; `Walk`,
  how far `nex` is compared with what was subscribed. `Session` says what `polled`
  may be, which takes two session names at least (`PfTwsAssumption`): with one, a
  new session could not be told from the one that was polled.
* **PartsProofs**, the server: `Owned`, `Answered`, `OldestGoes`, for any slots, connections
  and width of an index. `Books` says that descriptors and slots are one to one;
  `Current` that what the poll found is of the connection still in the slot,
  since clearing a slot stops its watcher; `Rotates` that slots from `next` on
  hold connections in the order they were accepted, which an `accept` that fails
  after its slot was cleared does not disturb (`StillRotates`). `LowestIsFree`
  is what the system promises of a new descriptor.
* **PartsProofs**, the numbers: `SamePrinted`, BID and DPD print the same, for
  formats of any number of declets, any texts, scales and quanta. `OneNumber` says
  that the two words of a size are at all times made of one number (`Made64`,
  `Made32`), whatever the faults did to it; reading makes it (`Readings`,
  `Rounded`), scaling and quantising keep it. `Word64` and `Word32` say that each
  encoding gives back what it was made of: what `declets` packs `undeclet` unpacks
  (`Declet`, by the eight cases; `Unpacked`, by induction over the declets), a first
  digit of 8 or 9 behind its mark included, and a significand in fewer bits is the
  one that went in as long as the format has at most one bit more than are stored
  (`Hid32Assumption`, 10^7 <= 2^24 for the code's). A carry out of the first digit
  breaks this for 32 bits, and `RoundUp` shows that nothing else does; 64 bit words
  drop it in both encodings and differ only in a sign, which `RoundDown` excludes.
  Powers of ten, the number some digits spell and cutting digit by digit are
  recursive functions, as above.
* **PartsProofs**, what is printed: `Prints`, the text a word is printed as spells
  the decimal that was meant, unless a known fault was met. `Stands` says that the
  word of each format no fault has met is the one `Words` makes of the decimal in
  `val`, and that this decimal fits the format. Reading gives it (`ReadsMeant`):
  `Splits` takes a text apart into the digits that are read and those that are left
  and shows that `roff` looks at the first of these, wherever the point is;
  `HalfUp` that this digit alone decides the rounding; `RoundUp` that the next
  number comes out if the mask leaves all its digits. `QuantumRight`: cutting one
  digit rounds half up (`CutOne`; of two, the first can carry into the second, so
  that 446 becomes 45 and then 5, which is why more are marked), and `room` finds
  the one number of zeros that brings the significand nearest (`RoomRight`).
  `Written` and `Spells` give the digits back.
  The theorem is as strong as `Fault` is narrow: what `Fault` does not name is right.
* **PartsProofs**, the definitions: `ReadRight`, the list of requests is what the
  document says and no `NULL` is followed, for a table of any size, any
  declarations and documents of any length, if they can be read. The invariant
  `Reads` has three parts. `Shape`: elements are where the languages allow them,
  their prefixes mean their language, and what is open is a path (`Path`) on which
  each is the last of its depth in the document. `TableRight`: once the
  declarations are taken in the table holds each of them, once, and the last
  language in front (`Filled`, by induction over the declarations); so every
  prefix is found without looking into an entry that has none (`Found`), and an
  element is handled by its own language with its own attributes (`Handles`).
  `Sane`: the list is what is meant, and `cur` is its length. That `cur` is where
  an element has to go is not in the code anywhere: it follows from the path, as
  the request an open element is in is the last of all requests (`AtCur`), its
  contract the last of its contracts (`OpenContract`), and what is not open is not
  touched (`Untouched`). `Meant_sreq` is put together by lists of elements in
  turn, a recursive function; `TurnMore` says what one more element makes of it,
  by `Recursion` and `Induction` of `LeastIndex`. The proof found two conditions
  that `Readable` lacked and that eight declarations with a table of four had not
  shown: more declarations than the table holds are dropped, and a declaration
  without a prefix that is not the last language is moved off the front, where
  looking for another prefix may follow its `NULL`. What stands for nothing is taken
  to be none of the values there are (`AbsentAssumption`).
* **IbexProofs**: `Typing`, `OnePlace`, `Right`, `Idle`, `Fresh`, for any pairs,
  table size and amounts of either sign. `Right` says of every order which side it
  is on: that of its command, or, in the two cases `Turned` names, the other. `OrderRight` speaks of an order after it was made, so
  `IInv` keeps the link between HALT and the amount (`Switch`) and that an order
  lives in the round that made it (`OnePerRound`); `Below` bounds the ids drawn.
* **ToolsProofs**: `SetUpOnce`, for the process that runs either tool: the timer
  of ox-tws, whose callback does not look at the state, runs and is found expired
  only while there is no session (`TimerRight`). `LinesOfPairs` and `AllPairs` are
  about ibfx, for any pairs, a pair named twice included, and any first ids. The
  table that is never cleared is right where it matters (`Table`): up to the last
  id drawn in this session it says what the broker knows. `Rounds` says what has
  been asked for by what `prep_cb` saw last. It has to say why a session lost and
  found within one round is noticed: the new one cannot become ready in the round
  that set it up, because what the poll has found is of the old one.

Only model-checked: liveness, all of it, which is out of the prover's reach.

## 5. Findings

Each is a run that TLC must find violated.

* `quotws_down`, `quo-tws.c:651`: setting up a session from the down state keeps
  the old session's subscriptions, and request ids start anew: an answer finds
  the old subscription.
* `pftws_last`, `pf-tws.c:487`: the walk over accounts is a static pointer into
  memory the next session frees; accounts are skipped.
* `ibex_ready`, `ibex.c:548`: a command is made an order in whatever state the
  session is; without one the process dies.

Met on the way, without a run of their own:

* quotes: a size tick that cannot be merged is queued with the first price of
  its key on the queue, while the comment speaks of the last (`quo.c:195`);
  `pbuf` survives a reconnect, so that a size that comes before the first price
  goes out with the price of what the ticker id stood for (`quo.c:210`); without
  a channel the queue is never flushed and grows (`quo-tws.c:270`).
* subscriptions: the index of one that has no answer yet is what lay on the
  stack, and may match the ticker id of another, whose quotes then go out under
  it (`quo-tws.c:411`); where one request finds several instruments, the first
  answer decides which nick its index is announced with, so that after a reconnect
  it may be announced as another instrument (`quo-tws.c:380-384`); setting up a
  session from the down state initialises a watcher that is still active and
  forgets its descriptor (`quo-tws.c:651-675`); two requests with one nick share an index, and what it is
  announced as changes from tick to tick; a handshake that fails is not noticed,
  `init_tws` never returns less than 0 (`quo-tws.c:662`).
* web service: a request that names no index, or one beyond 16 bits, may be
  answered with any definition (`websvc.c:83-90`).
* accounts are counted by their commas: a list that does not end in one loses
  its last name (`pf-tws.c:460`).
* orders: a SHORT of a metal becomes a BUY of one ounce (`ibex.c:438`, the
  amount is negative when it is compared with 10000); after a HALT orders go on
  being placed, of size 0 or of one ounce; a negative `--amount` is accepted, and turns a LONG of
  currencies into a SELL and a SHORT into a BUY (`ibex.c:703`); of metals every
  order is a BUY; a limit price of 0 makes a market
  order (`tws.cpp:936`); ids come twice when something was
  ordered before the broker's first id; EMERGCLOSE has no effect, since no
  reconciled amount is ever set; the pending bits are set and never cleared or
  looked at.
* `ox-tws.c:129` frees what `getaddrinfo` has not set when the lookup fails.
* definitions: a language declared first is not counted in the table, and a
  later declaration that is not known takes its place, though `sdef.c:147` and
  `sdef-private.h:122` have it at index 0; with a single language that has a
  prefix the elements inside are not known and `el_end` follows a `NULL`
  (`sdef.c:263`); attributes without a prefix are not read when the language at the
  front has one; a `NULL` prefix in the table is compared with all the same, so
  that after an unknown namespace a default language and two others end the
  program when the one between them is looked for; declarations beyond 16 are dropped; a prefix is compared by
  its own length, and finds a longer one that begins with it (`sdef.c:106`).
* decimal numbers: the mask of `round_bcd` is narrower than the significand and
  takes its upper digits away (`dfp754_d64.c:368`); rounding 0 downwards does not
  end; a carry out of the first digit leaves the significand; negative
  numbers are rounded the wrong way; with as many whole digits as the format
  has, the fraction is not looked at (`dfp754_d64.c:410`, `dfp754_d32.c:399`);
  `quantize` rounds digit by digit, so that 0.446 to tenths is 0.5
  (`dfp754_d64.c:484-486`).

## 6. What is not modelled

* The writer of definitions (`tws_ser_sdef` and its kin), the nicks made up
  from contracts (`tws_cont_nick`), the gperf tables of names, copying and
  freeing: formatting and memory without state of their own. The attributes of
  an element are one value in `Sdef`.
* `strops.h`: conversions of data that the models keep abstract.
* Sockets, URIs, logging, daemonising: system calls. What the programs see of
  them, a socket or none, is in the models.
* Single files of requests that cannot be read: `InitSubsFail` lets all of them
  fail or none, while `prep_cb` opens each by itself (`quo-tws.c:701-709`).
* The descriptor that is lost when a session is set up from the down state:
  `RecoConnect` says that the watcher is on the new socket, which it is.
* In `Dccp`: the second listening watcher of `main` (there is one accept a round
  at most), and descriptors that the broker's session takes from the same table.
* Prices in `QuoTws`: a quote there is its ticker id; merging is in `Quo`.
* In the modelled daemons: the layout of messages, logging, the signals that
  end the loop. `quo-tws` cuts the index to 16 bits when it publishes; the model
  has the index before the cut. Without a channel nothing is ever flushed
  (`Beef`).
* The broker's library and the broker: external, modelled from how the code
  uses them.

## 7. The plan

Done, in this order because the quote path is the system's main purpose and the
other programs share its loop: `CellPool`, `Gq`; `QuoteFeed`, `Quo`; `Sub`, `Tws`,
`QuoTws`; `Intern`, `PfTws`; `Ibex`; `Dccp`; `EvLoop`, `Wrapper`, `Ibfx`, `OxTws`,
`Tools`; `Sdef`; `Dfp754`; the proofs of section 4.

What could follow:

1. Prices in `QuoTws`: `Quo` as the daemon's queue in place of `qq`, to state
   what `pbuf` does across sessions.
2. The writer of definitions, as the inverse of `Meant_sreq`.
