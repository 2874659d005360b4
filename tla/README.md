# A verification of tknet

tknet connects peers behind NATs. Every node runs the same program. A *BDG
server* registers peers by name; a peer asks it to be connected to another; the
server decides from both NAT types whether one side can reach the other
directly, or whether a third peer with an open NAT, a *seed*, has to relay, and
leads both sides through it. Around this there are a cooperative scheduler for
all protocol steps, a command thread, a process that watches the node's public
address, and the mail and STUN clients it uses.

This directory holds TLA+ modules translated from the C sources, TLC
configurations for small instances, and TLAPS proofs for all instances.
`PROJECT.json` says, for each definition, which lines it stands for; line
numbers below are of the files in `src/`.

## Inventory

| Component | Source | State | Operations | What makes it correct |
|---|---|---|---|---|
| Processing list and step scheduler | netproc.c, list.c, list.h | circular list of processes, the walk's iterators, each process's step, retries, first-time flag, clock; the net condition | start, safe start inside a walk, poll, restart/jump/end of steps, notify, detach, teardown | the list stays one circle, a round reaches everybody, a step's retries bound it, one notify per start |
| Bridge server | bdgstep.c 15-421, bdgfun.c | one sub server process per registered peer, its decision | register, keep alive, find the target, decide, punch, connect, report | what it reports as bridged happened, a dead peer's name comes free |
| Bridge client | bdgstep.c 457-771, bdgfun.c, main.c | one process per node, target name, direct address | register, wait and answer, require, connect, notify | connects only to who it was introduced to, always returns to waiting or ends |
| Relays | relay.c | list of relays with two peers each, their count | merge, forward, end | relays for peers that were sent to this seed, and never for sides of two requests |
| Peer registry and seeds | peerdata.c on treap.c, tree.c | treap of peers by name, list of seeds with relay counts | find, insert, delete, choose a seed | never hands out a deleted peer; the treap is a search tree |
| Threads and commands | main.c, bkgd.c | mutex, loop flag, line buffer and its flag, flags for the running sub process | read a line, run it, start POP3/STUN/SMTP, exit | the flags tell the truth, nothing of a dead stack is polled, exit ends the program |
| NAT check process | nat_checkd.c | step, watched address, failed key, mail state | test the address, mail a new one, look for the mail | the watched address is one that was mailed, and the mail has come |
| Sessions | session.c | one process and pipe per connected address, ifAlive | start, keep alive, receive, send, end | at most one per address, ends when the peer is silent |
| Pipes | pipe.c | named pipes, connections between them | map, direct, flow, delete | data follows the connections, nothing dangles after a deletion |
| Key cache | keyinfo.c | list of keys with type and validity | read, write, try, update, delete | a key that works replaces those that do not |
| NAT type, STUN | nattype.c, stun.c | steps of the tests | four tests in order | the type found is the NAT's |
| Mail processes | popmail.c, smtpmail.c | dialogue steps, mails | log in, list, read, send | a dialogue ends, mails are freed once |
| Base64 | base64.c | none | encode, decode | one is the inverse of the other |
| Sockets, system, log | sock.c, sysi.c | handles | open, read, write; threads, clock, log | (system calls) |

How they interact: `main.c` 317-333 takes the mutex, reads at most one datagram,
and lets the scheduler poll every process once; a process reads that datagram by
address or by kind (`BdgMsgRead`). Steps start further processes while the list
is walked (`ProcessSafeStart`), and end, freeing themselves in their notify.
`BackGround` starts processes on the same list under the mutex. The NAT check
process gives its commands as lines through a pipe to `BackGround`, like the
user's. Bridge nodes interact by UDP only.

What is hard here: a list changed while it is walked; processes that end in
different ways and are freed by their notify; UDP that loses, duplicates and
delays, with messages that do not name the request they belong to; both sides
timing out on their own clocks; peers and the server dying in between; three
threads with one mutex, flags read outside of it, and an exit that breaks out
of a critical section. `PROJECT.json` lists each at its line with the properties
that are about it, or why there is none.

## Modules

| Module | Models |
|---|---|
| `TkList` | list.c and list.h: links, iterators, `tk`, adding, dragging out |
| `NetProc` | netproc.c on `TkList`: every poll of every process |
| `RoundRobin` | what the list promises: a queue, polled from the front |
| `NetProcRing` | the refinement mapping from `NetProc` to `RoundRobin` |
| `TkListProofs`, `NetProcProofs` | theorems on these |
| `BdgMsg` | the bridge messages and the network |
| `BdgServer`, `BdgClient` | the two sides of the bridge protocol; relays, seeds |
| `Bridge` | both composed over the network; users, crashes and restarts; properties |
| `Bkgd` | the three threads, the mutex, the command line, the commands' processes |
| `CheckNAT` | the NAT check process on `Bkgd`, and the main loop that polls it; properties |
| `CheckNATProofs` | theorems on these |
| `BridgeProofs` | theorems on the bridge |
| `Pipe` | pipe.c: the map of pipes and the connections between them, as operators |
| `Session` | session.c between nodes, on `Pipe`: keepalive, modes, commands on pipes; properties |
| `SessionProofs` | theorems on these |
| `NetAddr` | netaddr.h: an IP and a port, and the port behind it |
| `KeyInfo` | keyinfo.c: the cache of keys and what selects, marks and deletes them, as operators |
| `NatType` | nattype.c, stun.c: the STUN tests and the hello to a bridge peer, as a process against a NAT and servers |
| `StartUp` | main.c up to its main loop, on both: from tknet.info to tknet.info; properties |
| `StartUpProofs` | theorems on these |
| `PeerSet` | what the registry promises: a set of names |
| `Treap` | peerdata.c, treap.c, tree.c: what keeps the promise; properties |
| `TreeWalks` | the recursive walks of tree.c over it, for printing and freeing; properties |
| `TreapProofs` | theorems on `Treap` |
| `Lemmas` | facts the proofs share: least and greatest places, loops that end, sequences with one element taken out |
| `MCNetProc`, `MCBridge`, `MCCheckNAT`, `MCSession`, `MCStartUp`, `MCTreap` | instances for TLC |

A definition has the name of the C function it translates where there is one.
Alternatives that end in words such as `...Redo` or `...Untested`, under a
comment "Mutant of", are plausible bugs: each property of a passing run is
violated when one of them replaces the definition it varies.

### TkList, NetProc

`ln` is `next`/`last` of every list node, `head` an iterator (`now`, `last`) as
in the code, `NoNode` the null pointer. `tk`, `ListDragOneOut` and
`AddOneToListTailSafe` are operators on these two, so that every pointer
assignment of list.c is there. One action is one call of `DoProcess` for the
process under the iterator: the state of the step (`FIRST`, `OVERTIME`, `LAST`
or `NORMAL`) from the retries and the timer, the callback with any of its return
values (and, meanwhile, any `ProcessSafeStart` or `ProcessSetCondition`), the
`switch` with its fall-through of `GO_ON` at `LAST_TIME`, notify, detach, and
the move of the iterators. The clock is three values per process: its timer
runs, has expired, or its start lies in the future because the clock was set
back. The table of retries per wait level and net condition is a constant.
Callbacks are not fixed: a process may return anything at any poll, except those
in `GoOnOnly`, which the liveness property is about.

Between polls nothing else is on the list, as the mutex is held for the round;
starts from outside (`main`, `BackGround`) happen between rounds. `Detach` and
the freeing actions are the teardown in main.c 335-341.

### BdgMsg, BdgServer, BdgClient, Bridge

`net` is a set of messages on their way. A write may lose any of its messages;
a read removes the message, or leaves it there up to `MaxDups` times. A message
that no process has a use for is dropped by the reader, which is the same as a
loss. Addresses are nodes: a NAT that lets nothing through is a loss, NATs that
map one peer to several addresses are not modelled.

The server is a function `sub` from names to the sub server and `PeerData` of
that name. All sub servers see a datagram in the same round, so `ServerHears` is
one step for all of them; `SubPolled(n)` is a poll without a message. The seed
list keeps its order, since `SeedPeerSelectOne` depends on it. A client is a
record per node with its step, retries and the fields of `BridgeClientProcPa`
and `BridgeProc` the steps use; `target` is what `*ppTargetNameID` points to,
which is the line buffer (main.c 159), hence `Overwrite`. `HELLO` answers carry
the `RelayID` of an uninitialised struct: any of `JunkRelayIDs`. Relays and
`g_Relays` are per node, with the width of their C types as constants.

`Restart` kills a program and starts it again with the same address and name;
for the server everything is forgotten. History variables (`met`, `decided`,
`bridged`, `directs`) record what properties compare.

### Bkgd, CheckNAT

What a thread does between `MutexLock` and `MutexUnlock` is one step, except the
main loop's round, which is two: the check process first (it was started first,
so it is the oldest on the list), then the others. `exit` breaks out of the
critical section, so `mutex` stays `"bkgd"`. The flag `flow` is read without the
mutex (bkgd.c 268): `BkgdSees` and `BkgdRuns` are two steps. A process on
BackGround's stack ends at any poll with any outcome it can have; a mail that
was sent arrives or does not. `arrived` is a history: the addresses in mails that
have come. The user's `dele` in the POP3 dialogue (bkgd.c 79-91) may take a mail
out again, and not all mails are read, so a look into the mailbox may miss what
has arrived, but sees nothing else. The check process's own timers are left open: any
poll but the first may find its step's time over. `main` checks the loop flag
outside the mutex, and the initial handshake (main.c 306-311, the mutex locked
twice by main and unlocked by BackGround) is modelled as it is written.

### Pipe, Session

A pipe of the code has a list of its directions and one of its references; a
connection is one block with a node in each of two lists, and each half knows
the other's list. `Pipe` keeps all of that (`dirs`, `refs`, `from`, `to`), since
cutting trusts the other half: `CutConnections` goes through one list and drags
each other half out of the list it is said to be in. Only the order of a list
is left out. `PipeFlow` gives the pipes that are reached and with which flag; a
redirecting pipe (`CmdMode`, `ChatMode`) flows on once, and the constant
`UserLinks` leaves out those that redirect into each other, where the code
recurses without end (pipe.c 271).

A `Session` step is what a node does under its mutex: a round of the main loop
with at most one datagram, in which one session may hear it or have its timer
expire (`Round`), with the flush of stdout behind it; a line of `StdinThread`; a
command of `BackGround`. `Round` is `SessionMaintain` as a whole: CMD and CHAT
messages first make connections ("make sure only pipe once"), then the message
flows on; at `LAST_TIME` the session ends if nothing told that the peer is
there, and its pipe is deleted; otherwise it is begun anew. What is prompted
flows like any line: that a session starts (session.c 260), that it ends, once
while its pipe is still there (session.c 184) and once when it is gone, and each
keepalive. The HELLOs that
start sessions come from the bridge: `Connected` starts one side and greets the
other, several times.

Time: a keepalive that was sent arrives, or is lost, before the next tick of a
clock, and of two nodes with a session with each other neither clock gains more
than one tick in `Slack`: `last` and `since` say so for each pair of nodes, so
that what a third node does gives no leave to these two. Real clocks drift far
less than 1 in 3. The bound is needed: with `Slack = 2`, or with one retry (net
condition 0), a period can pass without a keepalive by drift alone, and
`KeptAlive` is violated.

### NetAddr, KeyInfo, NatType, StartUp

A key is its type, the address of its text, its present address, validity and
number; the rest of a line plays no part in the cache, and a bad line is not
inserted. The two addresses differ for a CONFIG key that has found its port
taken: `KeyInfoUse` counts on `addr.port` of the key in the cache, up to three
times, and writes the text (keyinfo.c 672-684; `Counted`). `KeyInfo` has the operators
on the list, in the order of the list. `KeyInfoUpdate` is what its rounds
leave together: of the types a key of which works, `DeleKeyInfoByType` walks
the list once, takes the keys that do not work and unmarks those that do.

`NatType` is one process on the main socket at a time. Its steps read whatever
datagram comes (`air`), also one of an earlier step or server: `heard` is what a
poll reads, `Reads` what the step makes of it, and `Outcome` has the fall-through
of `GO_ON` at `LAST_TIME`. Four kinds of NAT let in what RFC 3489 says, by the
destinations sent to so far (`punched`); a symmetric NAT shows another port to
each destination. A STUN server has two IPs and two ports on each, and a key may
name any of the four; the third step goes to the second IP at
`STUN_DEFAULT_PORT` whatever the key's port is (nattype.c 156), while a reply to
a change request is told by the key's own IP and port (nattype.c 76-77). A plain
server knows no second address and refuses change requests. A reply read with another
cookie than it was asked with gives a garbled address when it is XORed
(stun.c 105-168).

`StartUp` is `main` from `KeyInfoReadFile` to `KeyInfoWriteFile` in the order of
the code: read the file line by line, try the CONFIG keys, test the NAT until
two tests agree, reading mails for more keys when none is left, find a bridge
peer, run, update and write the keys; then the program is started again with
that file. While the main loop runs, keys are changed by `ikey`, `readkey` and
by the check process (its temporary key). The mail dialogue is its outcome: the
server fails, or any part of the mailbox comes through, in order. `BackGround`
and the check process interleave with `main` on the cache without more than the
mutex: one change is one step.

### PeerSet, Treap

`Treap` keeps the three links of a peer: father, the two children, and the
branch list of the tree below, which the walks for printing and freeing use.
Every assignment of `AttachTo`, `BinDisattach` and `TreapRoateUp` is an update
of these, including their early returns. `BinTreeInsert` and `BinTreeFind` recurse
only in their last call, and the rotations of an insertion and a removal are
loops: each is one round (`Deeper`, `RoatesUp`, `Sinks`) that is repeated until
it changes nothing (`Loop`). `Loop` takes as many rounds as there are names; that
none of them needs more is part of the proof. Names are numbers in the order of
`PeerDataTreapNodeCompare`; the root is a `PeerData` of main's with a name of
its own, so names lie on both sides of it. `Register`, `Find` and `Leave` are
what sub servers do. `PeerSet` is the abstract registry; `Treap` implements it
with the peers as the set and the last search's result.

## Runs

| Run | Instance and bounds | Shows |
|---|---|---|
| `list` | three processes of one step without retries, two starts each | list soundness, `RoundRobin` refinement, a round reaches all, repeated polls only after the tail was detached, one notify per start |
| `steps` | two processes, one with two steps that may do anything, one that only waits; two conditions with different retries; one change of condition, one clock set back | retries, and that the waiting process ends (fair loop and clock) |
| `direct` | two registered peers; up to two of: a connect command for any name, a direct command on one peer or on the server node, a duplicate, a restart of the connected peer or of the server, of which one command; two messages at a time | types, no strangers meet, bridged means met, seeds alive, the require step has a name |
| `relay` | two peers that need a relay and a seed, all registered, one request, two messages at a time | nobody meets but each side the seed, bridged means met through the seed |
| `bridge_live` | two peers, one starting from scratch, retries in sub server and notice steps, one name overwritten by either while it is pending, one message at a time | names of ended clients come free, clients and sub servers come back |
| `threads` | two STUN keys, two addresses, every command on a key that is there and one that is not, exit | flags, no dangling process, the watched address was mailed, the noted key is there |
| `sessions` | two nodes, one with a user; up to two connections, three lines, one pipe command, two losses or crashes, four of these together | connections whole, pipes tell sessions, connected once, sessions live while both sides do, and end otherwise |
| `startup` | two starts of the program from one of three files (a full STUN server, a plain one in a mail, one bridge peer and a dead one; two CONFIG keys on ports in a row that are taken; the STUN server at another port than 3478), behind each kind of NAT, a mailbox; one reply lost, two late; two changes of keys per main loop | numbers tell keys, and addresses but those of CONFIG keys, gives up only when all is tried, the peer found is there, a NAT is not taken for more open, working keys are kept, the start-up ends |
| `registry` | one name before the root's and four after it, three priorities | refinement of `PeerSet`, links agree, heap until a peer leaves, levels, order of freeing |
| `cross` | three peers, two of which connect the third | *violated*: bridged means met |
| `exit` | only exit is typed | *violated*: exit ends the main loop |
| `nat_again` | one STUN server, an address-restricted NAT, nothing lost | *violated*: what two tests agree on is what the NAT lets in |

Why the bounds are enough for these questions: the splices of the list differ
for one, two and more elements and for head, tail and middle, which three
processes have; a second start is needed for a process that comes back. Retries
of a step only count down, so zero, one and two show the boundaries. In the
bridge one request involves two peers and at most a seed; two messages at a
time allow reordering, one duplicate makes every message repeatable. Two
relayed requests at the same time, and a restart of the server while a seed
relays, exceed what TLC explores in minutes: that numbers of relays are not
mixed up is proved only (`RelaysJoinOneRequest`), up to the reuse of a number;
the run `relay` has one request. `UintSize` and `UcharSize` are small so that wrapping is
reached; nothing else depends on them. `JunkRelayIDs` is `{0}` in these runs;
the theorems hold for any.

In `sessions` two connections let a session end and start again; a third line
sends what the second has directed; a crash on either side, or the loss of any
message, meets every step of the other side. In `startup` a second run finds
the file of the first; two CONFIG keys a port apart meet when the first counts
on; two late replies are enough for one to be of another
step and another of another server. In `registry` five names give every shape
of tree a rotation distinguishes: with and without a grandfather, an inner
child, a sibling; three priorities give equal ones and any order.

`CHECK_DEADLOCK FALSE` is in the configurations of `CheckNAT` and `StartUp`,
where the program really stops, and of `Session`, where nothing is left to do
when both sides' sessions have ended and the bounds on users and faults are
used up. Everywhere else deadlock is checked.

### Fairness

* `steps`: weak fairness of the main loop's polls and of the clock. The loop in
  main.c 317 has no other wait than the mutex and a short sleep, and the clock
  goes on by itself. The callbacks of the other process owe nothing.
* `bridge_live`: weak fairness of the polls of every sub server and client, for
  the same reason. Nothing is assumed of the network (all messages may be lost),
  of users or of restarts.
* `exit`: weak fairness of the threads, strong fairness of taking the mutex,
  since a thread that wants it competes with others that release it and sleep
  outside of it (main.c 332, 100). A thread that holds the mutex for ever makes
  no one's turn come: that is the counterexample.
* `sessions`: weak fairness of all main loops together: time passes, and what is
  on its way arrives. Users, commands and faults owe nothing.
* `startup`: weak fairness of `main` and of the process it polls; both loop
  without waiting for anything but time. The number of lost and late replies is
  bounded, since with replies that arrive too late for ever the tests
  may disagree for ever.

## What the violations say

* `cross`: `BdgConnectAddrServer` takes any `ESTABLISHED` from the connecting
  side. When a and s both ask for b, b is led by two sub servers; its
  `ESTABLISHED` for one is read by both, and the second prints "successful
  direct connection bridged." for peers that never met.
* `exit`: see the inventory; the main loop passes its test of `g_MainLoopFlag`
  and waits for a mutex that `BackGround` took with it.
* `nat_again`: nattype.c 224 puts `BindingRequestToAnotherServer` behind
  `ChangeIPAndPort`, because it "will punch a hole which will lead a false
  judgement later". The hole is still open when the same server is asked a
  second time, and a third: tests two and three agree that an address-restricted
  NAT is a full cone, and the double check is passed.

More divergences met while modelling have no run.

* `RelayProcNotify` always does `g_Relays --` (relay.c 144), `RelayProcMerge`
  only counts a relay when its second peer comes (relay.c 211). A relay whose
  second peer stays away leaves the total at 2^32 - 1, and 255 in WAITING: the
  server does not choose this seed again.
* `tkNetConnect` copies the name and then keeps the pointer it was given, which
  is into the line buffer (main.c 159, bkgd.c 299): a line typed before the
  request is sent replaces the name asked for. `bridge_live` has this step, but
  no property says which name is asked for.
* `TreapDragOut` always rotates the right child up, whatever the priorities
  (treap.c 99): after a removal the treap need not be a heap. The search does
  not depend on it; `HeapOfThePriorities` is claimed until a peer leaves.
* `SendingNewAddr` deletes its temporary key in the second poll if BackGround
  has not yet looked at the line, against its comment (nat_checkd.c 220): the
  mail is then not sent, and sent again after the POP3 check.
* `NO_NAMEID` does not carry the name, so a late one is reported of another
  name (bdgstep.c 668), and ends a request the server has not seen yet.
* `RelayProcMerge` takes the second HELLO of one peer for its partner's
  (relay.c 173): the relay then has this peer twice, and the other side of the
  request is left waiting.
* Binding counts on the port of a CONFIG key in the cache (keyinfo.c 676) without
  a look at the others: two CONFIG keys may then have one address, which
  `KeyInfoInsert` keeps apart otherwise. `readkey` also takes the old line of
  such a key for a new one, and a line of a mail with the old address is inserted.
  The texts, and so the file, keep both; but when the next run reads the file,
  the second line of one address is not inserted, and its type may lose its key.
* The third step goes to port 3478 of the second IP whatever the key's port is
  (nattype.c 156), and the first change request only looks whether IP and port
  differ from the key's (nattype.c 76-77). With a STUN key at another port, a
  late reply from that hole, read in a later test, makes a port-restricted NAT a
  full cone: `NeverTooOpen` is claimed for the first test, and for all while keys
  are at 3478.

## Proofs

All theorems hold for every set of processes, table of retries, set of keys and
so on that satisfies the named assumptions of the modules; TLC evaluates these
assumptions in the runs.

`NetProcProofs`, over `TkListProofs` (facts about `tk`, adding and dragging out
as operators on links):

* `TypeCorrect`, `ListStaysSound`: the inductive invariant joins the types with
  the shape of the list. "One circle" is stated as: any set that holds the head
  and is closed under `next` is the whole list. This is provable without
  induction over paths: a splice is shown to keep it by moving a closed set
  across the splice. The iterators of the walk (the process under it is on the
  list, `last` of the head is its tail) have to be part of it, since dragging
  out trusts them.
* `BudgetKept`: adds what the current step has used of the retries it was given
  when it was started, which is not the present table's value once the net
  condition has changed.
* `NotifyExactlyOnce`: relates the count of starts not yet notified to being on
  the list.
* `RepeatsBounded`, `RoundsReachAll`: a round's polled processes are those
  behind the iterator; only detaching the tail moves the end of the round.
* `QueueRefined`: the pointer list implements `RoundRobin`, a queue walked from
  its front, step by step. The circle is related to the queue by `Lined`: a
  sequence lists the members once each, from the head on, each followed by its
  `next`. `TkListProofs` shows that adding at the tail appends to this sequence
  and dragging out removes from it; `RingIsLine` shows that following the
  pointers from the head, as the mapping does, gives it. `InLine`, that such a
  sequence exists, is the invariant, on top of `ListSound`. A poll then is a
  visit, of the process in place; the freeing of the list at the end takes
  the first one out, although the head is left where it was.

`CheckNATProofs`:

* `FlagsRight`, `NothingDangles`: inductive together. A process is started only
  when the flag is down, in the same critical section that raises it; its notify
  lowers it in the poll that takes it off the list; exit is only reached with
  the flag down.
* `AddressIsMailed`, `FailedKeyKept`: the strengthening says that `sta_NatStr`
  is the watched address, that "seen" was seen of that address, that the first
  run starts with mailing, and that the key asked with is a STUN key, so that
  deleting the temporary key cannot remove it.

`SessionProofs`, over lemmas on each operator of `Pipe`:

* `PipesStayLinked`, `SessionsTold`: inductive together, per node. A map of
  pipes is sound when its types are right and each connection is in exactly the
  two lists its halves name; the pipes are the fixed ones and one per session;
  a peer has one session. Ending a session deletes a pipe that others may flow
  into: the two cuts leave a map without that pipe, which is sound only because
  both halves of every connection were where they said. Any set of nodes, links
  and faults, any finite set of connections.
* `ConnectedOnce` (`PipesOnce`): from the same invariant. `DirectOnce` takes one
  connection for a pair that has none and leaves every other pair's, cutting
  only takes away, and a round is two of the first and perhaps one deletion;
  "not more than one, or not more than before" is transitive.
* `KeepsAlive` (`KeptAlive`), from two retries and a `Slack` of three on, which
  are the least it holds for, and for any number of nodes: `Keeping` says, as
  long as nothing was lost and nobody crashed, that a HELLO under way has its
  sender's session behind it (`Greets`), that a session alone has not ticked yet
  and its HELLO is under way (`Waits`), and that each of two sessions has heard
  in its period, or has a keepalive coming, or is `Nearly` there (`Hears`).
  `Nearly` is what makes it inductive: it counts the ticks of one side's period
  against the other's retries and against who ticked last, and a tick takes it
  one further or is the one that may not come yet. So no period ends without a
  keepalive, and the property is that no step then ends a session at all.

`TreapProofs`, over `Lemmas`, for any finite set of names and of priorities:

* `Registered`: the inductive invariant. A tree is described without paths:
  some function `iv` gives every node a set of names, which is the node itself
  and the sets of its two children, the smaller ones on the left, disjoint; only
  the root has no father, and the branch list of a node is its children, each
  once (`IsTree`). Links are proved to change one at a time: a graft adds a set
  to those above, a cut takes it away, and a rotation, which is up to three of
  each with early returns that may not be taken, gives two nodes new sets and
  all others their old ones.
* `FindsThePeersRefined`: every step of `Treap` is one of `PeerSet`. Searching
  comes to the node or to the place it would have since the set shrinks with
  each round (`BinTreeFinds`); insertion grafts a leaf there (`LeafJoins`) and
  rotates it up; removal rotates until the node is a leaf, whose set is itself.
* `LinksAlwaysAgree`: from the shape alone, with what a freed peer has.
* `PrioritiesHeaped`: the exception a rising peer is to the heap moves up with
  it and is gone at the top, or below a father that is not above it; the root's
  priority is zero, so that nobody goes above the root (`RiseEnds`).

`StartUpProofs`, over `Lemmas`, for any keys, first files, mailboxes, servers,
peers, NATs, retries and bounds on losses, late replies, runs and commands; the
assumptions are `NatTypeAssumption` and `StartUpAssumption` (servers and peers
are addresses of keys, files and mails are lines of keys):

* `Started`: the inductive invariant `StartInv`. In the first test the holes are
  at the key's address and, from the third step on, at another IP
  (`FirstHoles`); in all tests, as long as every STUN key so far was at 3478,
  holes towards STUN servers are at that port (`DefaultHoles`). A reply that
  counts comes from another IP and port than the key's, or from its IP and
  another port: so what makes a port-restricted or symmetric NAT seem open
  cannot pass it, and what makes an address-restricted one seem a full cone
  cannot pass in the first test. A step of the process is proved to make only of
  a reply what it may; then what is sent keeps the holes and the replies as
  described.
* `Typed`, `NotTooOpen` (`NeverTooOpen`), `Numbered` (`NumbersTellKeys`),
  `GaveUpOnAll`, `Answered`: from it. The cache part says that numbers are
  told apart and below the counter, that addresses are told apart but for CONFIG
  keys, which alone leave the address of their text, that the key in use is on
  the list, marked and of the server that is asked, and that the temporary
  number is not that of another address.
* `Kept` (`KeysKept`): each action keeps the lines of the file among the keys of
  the cache, the program's own address apart (`FileRight`); while the file is
  read they are there or among the lines to come. What one walk over the list
  leaves is shown by following the walk (`Left`, `DeleByTypeLeaves`). The
  theorem has two hypotheses. No first file gives one address two types:
  `KeyInfoInsert` takes the second line for the first key (keyinfo.c 132-157),
  and the type of that line may then have no key left. Files the program has
  written satisfy it, which is part of the proof. And no line but CONFIG ones, of
  a file or a mail, nor the program itself, has an address that a CONFIG key can
  count on to (`Separate`): such a line would be taken for that key.

`BridgeProofs`, for any finite set of peers, any names, NATs, retries, bounds on
losses, duplicates and commands, any initial values of the junk `RelayID`. The
assumptions are those of `BdgMsg`, `BdgServer`, `BdgClient` and `Bridge`.

* `BridgeTypes`, `TargetsNamed`, `SeedsStayAlive`: the invariant types every
  message by its kind (`WireOK`), every sub server by its step (`SubsOK`: one
  that is past its decision has both sides), the seeds (`SeedsOK`: registered,
  open, no name twice) and the clients (`ClientsOK`). `TargetsNamed` rests on
  the wait step having retries left in its first poll, so that `GO_ON` at
  `LAST_TIME` cannot enter the require step before the name was looked at.
* `NoStrangers`: who may meet whom is a relation (`Acq`) of the decisions and
  direct commands made so far, which only grows. The strengthening says where
  acquaintance travels: `HELLO` is only written to an acquaintance, and
  `CONNECT_ADDR` names one to its receiver; a sub server that is leading leads
  two acquaintances; a client that connects, greets or relays does so with
  acquaintances. Late, duplicated and junk messages are all covered: the
  invariant is of every message on its way, whoever sent it and why.
* `BridgedSidesReached`: the invariant `ToldInv` follows what the server said.
  A decision tells one side, or both with a seed, to connect (`Leads`);
  `CONNECT_ADDR` on its way, and a client that connects, name an address their
  node was told (`Told`); `ESTABLISHED` on its way, and a client that sends it,
  belong to a node that has reached such an address (`Reached`). A sub server
  past its first side has that of the first. So "bridged" is only said when each
  side has reached one of those it was told to connect to. More is not true,
  since nothing in a report says which order it answers.
* `BridgedWhenOneTarget`: from it, `BridgedMeansMet` in every state up to which
  nobody has been told to connect to two addresses (`OneTarget`, a state
  predicate, not an assumption on the constants). It holds throughout the runs
  `direct` and `relay`, and the run `cross`, where it fails,
  violates `BridgedMeansMet`.
* `RelaysAsNumbered`, `RelaysJoinOneRequest`: `ToldInv` also says where the
  number of a relay goes: `CONNECT_ADDR` to the sides of its request, `HELLO`
  from them to the seed it was given for (`Numbered`). So no relay has sides of two
  requests (`RelayJoinsOneRequest`), for any number of requests at a time, while
  no number of a seed has been given to two pairs and none is one an unset
  `RelayID` may have (`NumberedOnce`). That its two places are taken by
  different sides is not said, and not true (relay.c 173). Two events break that: `sta_AccRelayID` comes round
  (bdgstep.c 183), or the server is restarted and counts from 1 again.
* `SubsGoBack`, `ClientsGoBack`: the safety halves of `SubReturns` and
  `ClientReturns`. A process outside its wait step has a measure: how many steps
  are before it at most, and the tries its step has left. No message, late or
  repeated or from a stranger, no command and no poll makes it larger; a sub
  server that changes at all makes it smaller. What is left to fairness is that
  polls come and that their clocks run.

Only model-checked:

* the liveness properties (`GoOnEnds`, `NameReleased`, `ClientReturns`,
  `SubReturns`, `HalfEnds`, `StartUpEnds`), as liveness under fairness is
  outside the prover; of `SubReturns` and `ClientReturns` the measure is proved;
* `LevelsAreDepths` and `FreedAfterItsChildren`, which are about walks that
  recurse twice and so about the value of a recursive operator.

## Not modelled

* The POP3 and SMTP dialogues and Base64 inside them. Their starts, outcomes and
  mails are in `Bkgd`, `CheckNAT` and `StartUp`. Inside, what a step makes of a
  reply depends on how TCP cuts the stream, and `ProtoPOP3List` reads what
  earlier replies left behind the end of the string in `RecvBuff` when a reply
  has no lines (popmail.c 125-140): a model would have to follow both character
  by character.
* The forwarding of user data by a relay (`Relay`): sessions are modelled on
  the address they use, a relay's or a peer's.
* The breadth-first and in-order walks and `CopyBranches` of tree.c, and the
  sorting of lists, which demos or tracing use.
* Sockets, threads, clock and log are system calls and appear as what they do
  to the modelled state. Messages of the log, formats of addresses and keys,
  SSL, the build scripts and the demos are left out.
* Uses of freed memory (a notify frees the process that `ProcessDisattach` then
  reads): the detach is modelled as if the node were still there.
* The second walk of a round after the tail was detached (`NetProc`) makes a
  bridge process read the same datagram twice: in `Bridge` that is a duplicated
  message.

## Plan

What is left, in this order.

1. `Relay` as a step: forwarding between two peers, the time a relay lives, and
   two relayed requests at a time on a reduced client, with a restart of the
   server in between.
2. The mail dialogues, with a reply abstracted to whole lines.
