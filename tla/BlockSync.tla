------------------------------ MODULE BlockSync ------------------------------
(***************************************************************************)
(* How a node fetches the blocks that its peers have and it has not: lists *)
(* of ids first, then the blocks, from several peers at once, handed to    *)
(* the chain in the order in which they link.                              *)
(*                                                                         *)
(* conn[p] is the peer_connection of p, sent[p] what p has been asked and  *)
(* has not answered (one TCP stream, so answers come in that order).  The  *)
(* network code runs as cooperative tasks of one thread: a task runs until *)
(* it calls the client, and calls holds the calls that wait for the        *)
(* client's thread, first come first served.  Everything between two such  *)
(* calls is one step.  A call names its task: the handler of a message, a  *)
(* block on its way to the client, or the backlog; todo is what the task   *)
(* does after it.  active, fresh, received and accepted are                *)
(* _active_sync_requests, _new_received_sync_items, _received_sync_items   *)
(* and _most_recent_blocks_accepted; fetch and backlog say that the fetch  *)
(* loop and the backlog task have been triggered.                          *)
(*                                                                         *)
(* known and head are what the client has.  theirs[p] is p's head block,   *)
(* served is the set of peers that have told this node all they have.      *)
(* refused, blamed and missed are history: blocks a peer said it has not,  *)
(* peers dropped for what they sent, with what it was, and blocks that the *)
(* backlog loop left behind when it last ran or that came while its task   *)
(* waited.  gains, ends, asks, adverts and refusals are what is left of    *)
(* the bounds.                                                             *)
(***************************************************************************)
EXTENDS Integers, Sequences, FiniteSets, SequencesExt, FiniteSetsExt

CONSTANTS
  Peers, Blocks,
  Genesis,        \* no block: the null id
  Prev,           \* the block that a block links to
  Invalid,        \* the blocks that do not apply
  Batch,          \* ids in one answer
  MinPrefetch,    \* GRAPHENE_NET_MIN_BLOCK_IDS_TO_PREFETCH
  MaxPerPeer,     \* _maximum_blocks_per_peer_during_syncing
  MaxHandled,     \* _maximum_number_of_blocks_to_handle_at_one_time
  MaxPrefetched,  \* _maximum_number_of_sync_blocks_to_prefetch
  Limits          \* bounds: this node's head block at first, those of the peers
                  \* that take part, the longer chains (peer and block) of
                  \* which one may be taken meanwhile, ends of connections, the
                  \* peers that may ask for ids and those that may advertise a
                  \* block, once each, and blocks that peers do not have

ASSUME Sizes ==
  /\ Batch \in Nat \ {0, 1} /\ {MinPrefetch, MaxPrefetched} \subseteq Nat
  /\ {MaxPerPeer, MaxHandled} \subseteq Nat \ {0}

VARIABLES
  conn, sent, calls, active, fresh, received, accepted, fetch, backlog, suspended,
  known, head, theirs, served, refused, blamed, missed, nodes, gains, ends, asks, adverts, refusals

loops == <<fetch, backlog, suspended>>
items == <<active, fresh, received, accepted>>
client == <<known, head>>
history == <<refused, blamed, missed>>
peers == <<theirs, served>>
bounds == <<nodes, gains, ends, asks, adverts, refusals>>
vars == <<conn, sent, calls, items, loops, client, peers, history, bounds>>

----------------------------------------------------------------------------
(* Chains *)

(* the blocks from the first one to b *)
PathTo[b \in Blocks \cup {Genesis}] ==
  IF b = Genesis THEN <<>> ELSE Append(PathTo[Prev[b]], b)

Num(b) == Len(PathTo[b])

(* block numbers from 1 to high, each half way from the last one to high *)
Marks(high) ==
  LET from[low \in 1 .. high + 1] ==
        IF low > high THEN <<>>
        ELSE <<low>> \o from[low + (high - low + 2) \div 2]
  IN  from[1]

(* get_blockchain_synopsis(ref, Len(ids)), completed with ids that the peer *)
(* has already offered; block 1 is taken for the last that can not be undone *)
Synopsis(ref, ids) ==
  LET path == PathTo[IF ref = Genesis THEN head ELSE ref]
      marks == Marks(Len(path) + Len(ids))
      below == SelectSeq(marks, LAMBDA n : n <= Len(path))
      mine == [i \in DOMAIN below |-> path[below[i]]]
      first == Num(Head(ids))
      above == SelectSeq(Marks(first + Len(ids) - 1), LAMBDA n : n >= first)
      theirIds == [i \in DOMAIN above |-> ids[above[i] - first + 1]]
  IN  IF ids = <<>> THEN mine ELSE mine \o theirIds

(* get_block_ids(): ids of the chain path from the last block of the        *)
(* synopsis that is on it, none when there is no such block                 *)
BlockIds(path, synopsis) ==
  LET common == {n \in DOMAIN path : \E i \in DOMAIN synopsis : synopsis[i] = path[n]}
      start == IF synopsis = <<>> THEN 1 ELSE Max(common)
  IN  IF path = <<>> \/ (synopsis # <<>> /\ common = {})
      THEN [ids |-> <<>>, remaining |-> 0]
      ELSE LET end == Min({Len(path), start + Batch - 1})
           IN  [ids |-> SubSeq(path, start, end), remaining |-> Len(path) - end]

----------------------------------------------------------------------------
(* Connections *)

NewConnection ==
  [state |-> "none", needs |-> FALSE, ids |-> <<>>, being |-> {}, request |-> {},
   unfetched |-> 0, seen |-> Genesis, sync |-> {}, item |-> {}, inhibit |-> FALSE,
   theyNeed |-> TRUE]

Active == {p \in Peers : conn[p].state = "active"}

Idle(c) == c.item = {} /\ c.sync = {} /\ c.request = {}

(* on_message() of p has not returned: it waits for the client *)
Handling(p) == \E i \in DOMAIN calls : calls[i].peer = p /\ calls[i].task = "handler"

Closing(c) == [c EXCEPT !.state = IF @ = "active" THEN "closing" ELSE @]

Restarted(c) ==
  [c EXCEPT !.ids = <<>>, !.unfetched = 0, !.needs = TRUE, !.seen = Genesis,
            !.inhibit = FALSE]

(* fetch_next_batch_of_item_ids_from_peer(), up to the call of the client *)
NextBatch(p, c, task, todo) ==
  [kind |-> "synopsis", peer |-> p, task |-> task, todo |-> todo, ref |-> c.seen,
   ids |-> c.ids]

SyncCall(b) ==
  [kind |-> "sync", peer |-> Genesis, task |-> "sync", todo |-> <<>>, block |-> b]

(* A task asks the peers of todo, one after the other, for their next ids.   *)
(* An entry is a peer, and whether the sync with it starts again first.      *)
Turned(cs, todo) ==
  IF todo = <<>> THEN cs
  ELSE LET p == Head(todo)[1]
       IN  IF Head(todo)[2] /\ cs[p].state # "none"
           THEN [cs EXCEPT ![p] = Restarted(@)] ELSE cs

Asking(cs, task, todo) ==
  IF todo = <<>> THEN <<>>
  ELSE LET p == Head(todo)[1] IN <<NextBatch(p, cs[p], task, Tail(todo))>>

(* the blocks that are with the client *)
InProgress(cs) == Cardinality({i \in DOMAIN cs : cs[i].task = "sync"})

(* the client has all the blocks it may have at one time *)
TooMany(cs) == InProgress(cs) >= MaxHandled

(* the task that runs the backlog loop waits for the client *)
Waiting == \E i \in DOMAIN calls : calls[i].task = "backlog"

(* trigger_process_backlog_of_sync_blocks(): lost while the task waits *)
Triggered == backlog \/ ~Waiting

(* every variable has its type *)
TypeOK ==
  /\ \A p \in Peers :
       /\ conn[p] \in [state : {"none", "active", "closing", "terminating", "gone"},
                       needs : BOOLEAN, ids : Seq(Blocks), being : SUBSET Blocks,
                       request : SUBSET Seq(Blocks), unfetched : Nat,
                       seen : Blocks \cup {Genesis}, sync : SUBSET Blocks,
                       item : SUBSET Blocks, inhibit : BOOLEAN, theyNeed : BOOLEAN]
       /\ Cardinality(conn[p].request) <= 1
  /\ InProgress(calls) <= MaxHandled
  /\ active \subseteq Blocks /\ accepted \subseteq Blocks
  /\ {fresh, received} \subseteq Seq(Blocks) /\ {fetch, backlog, suspended} \subseteq BOOLEAN
  /\ known \subseteq Blocks /\ head \in known \cup {Genesis}

Init ==
  /\ conn = [p \in Peers |-> NewConnection] /\ sent = [p \in Peers |-> <<>>]
  /\ calls = <<>> /\ active = {} /\ fresh = <<>> /\ received = <<>> /\ accepted = {}
  /\ fetch = FALSE /\ backlog = FALSE /\ suspended = FALSE
  /\ refused = {} /\ blamed = {} /\ missed = {} /\ served = {}
  /\ \E l \in Limits :
       /\ head = l.own /\ known = Range(PathTo[head])
       /\ theirs \in l.heads /\ nodes = {p \in Peers : theirs[p] # Genesis}
       /\ gains = l.gains /\ ends = l.ends /\ asks = l.asks
       /\ adverts = l.adverts /\ refusals = l.refusals

----------------------------------------------------------------------------
(* The client *)

Linked(b) == Prev[b] \in known \cup {Genesis}

Applies(b) ==
  Num(b) <= Num(head) \/ \A i \in DOMAIN PathTo[b] : PathTo[b][i] \notin Invalid

(* handle_block() with push_block() *)
HandleBlock(b) ==
  IF Linked(b) /\ Applies(b)
  THEN /\ known' = known \cup {b}
       /\ head' = IF Num(b) > Num(head) THEN b ELSE head
  ELSE UNCHANGED client

----------------------------------------------------------------------------
(* Handing blocks to the client *)

(* the peers of S have been dropped for what they did *)
Blame(S, what) == blamed' = blamed \cup (S \X {what})

(* send_sync_block_to_node_delegate() when the client has taken b *)
Taken(b) ==
  LET mine == {p \in Active : b \in conn[p].being}
      after == [p \in Peers |->
                  IF p \in mine THEN [conn[p] EXCEPT !.seen = b, !.being = @ \ {b}]
                  ELSE conn[p]]
      empty == {p \in mine : /\ after[p].ids = <<>> /\ after[p].unfetched = 0
                             /\ after[p].being = {}}
      level == {p \in Active : /\ conn[p].ids = <<>> /\ conn[p].being = {}
                               /\ ~conn[p].theyNeed /\ ~conn[p].needs}
  IN  \E e \in SetToSeqs(empty), l \in SetToSeqs(level) :
        LET todo == [i \in DOMAIN e |-> <<e[i], FALSE>>] \o [i \in DOMAIN l |-> <<l[i], TRUE>>]
        IN  /\ conn' = Turned(after, todo)
            /\ calls' = Tail(calls) \o Asking(conn', "sync", todo)
            /\ accepted' = accepted \cup {b}
            /\ backlog' = IF todo = <<>> THEN Triggered ELSE backlog
            /\ UNCHANGED blamed

(* ... and when the client has rejected it *)
Rejected(b) ==
  LET mine == {p \in Active : b \in conn[p].being}
  IN  /\ conn' = [p \in Peers |-> IF p \in mine THEN Closing(conn[p]) ELSE conn[p]]
      /\ Blame(mine, "block")
      /\ calls' = Tail(calls)
      /\ backlog' = Triggered
      /\ UNCHANGED accepted

SendSyncBlock ==
  /\ calls # <<>> /\ Head(calls).kind = "sync"
  /\ LET b == Head(calls).block
     IN  /\ HandleBlock(b)
         /\ IF b \in known' THEN Taken(b) ELSE Rejected(b)
  /\ UNCHANGED <<sent, active, fresh, received, fetch, suspended, peers, refused, missed,
                 bounds>>

(* The blocks of received that some active peer of cs lists first, by place *)
Ready(cs, rs) ==
  {i \in DOMAIN rs : \E p \in Peers : /\ cs[p].state = "active" /\ cs[p].ids # <<>>
                                      /\ Head(cs[p].ids) = rs[i]}

(* The loop of process_backlog_of_sync_blocks().  A block that has been     *)
(* accepted meanwhile stays in received, and ends the loop.                 *)
RECURSIVE Drain(_)
Drain(s) ==
  LET i == Min(Ready(s.conn, s.received))
      b == s.received[i]
      lists == {p \in Peers : /\ s.conn[p].state = "active" /\ s.conn[p].ids # <<>>
                              /\ Head(s.conn[p].ids) = b}
      popped == [p \in Peers |->
                   IF p \in lists
                   THEN [s.conn[p] EXCEPT !.ids = Tail(@), !.being = @ \cup {b}]
                   ELSE s.conn[p]]
      listed == {p \in Active : b \in popped[p].being}
      cleared == [p \in Peers |-> IF p \in listed THEN [popped[p] EXCEPT !.being = @ \ {b}]
                                  ELSE popped[p]]
      handed == Append(s.calls, SyncCall(b))
      full == TooMany(handed)
      next == [s EXCEPT !.conn = popped, !.received = RemoveAt(@, i), !.calls = handed,
                        !.suspended = full /\ Len(s.received) - 1 >= MaxPrefetched]
  IN  IF Ready(s.conn, s.received) = {} THEN s
      ELSE IF b \in accepted
      THEN [s EXCEPT !.conn = cleared, !.ended = TRUE,
                     !.empty = {p \in listed : /\ cleared[p].ids = <<>>
                                               /\ cleared[p].being = {}
                                               /\ cleared[p].unfetched = 0}]
      ELSE IF full THEN next ELSE Drain(next)

(* the blocks that the loop leaves behind and that wait for another run: all  *)
(* when it has ended at an accepted block, else those that no peer lists first *)
LeftBehind(s) ==
  IF s.ended THEN Range(s.received)
  ELSE Range(s.received) \ {s.received[i] : i \in Ready(s.conn, s.received)}

(* mutated: the flag is read before the loop has cleared it *)
ResumesStale(s) == ~suspended /\ s.empty = {}

(* the loop is over and blocks may be fetched *)
Resumes(s) == ~s.suspended /\ s.empty = {}

ProcessBacklog ==
  /\ backlog
  /\ backlog' = FALSE
  /\ IF TooMany(calls)
     THEN UNCHANGED <<conn, calls, fresh, received, suspended, fetch, missed>>
     ELSE LET s == Drain([conn |-> conn, received |-> fresh \o received, calls |-> calls,
                          suspended |-> FALSE, empty |-> {}, ended |-> FALSE])
          IN  \E e \in SetToSeqs(s.empty) :
                LET todo == [i \in DOMAIN e |-> <<e[i], FALSE>>]
                IN  /\ conn' = s.conn /\ received' = s.received /\ fresh' = <<>>
                    /\ calls' = s.calls \o Asking(s.conn, "backlog", todo)
                    /\ suspended' = s.suspended /\ missed' = LeftBehind(s)
                    /\ fetch' = (fetch \/ Resumes(s))
  /\ UNCHANGED <<sent, active, accepted, client, peers, refused, blamed, bounds>>

----------------------------------------------------------------------------
(* Asking for blocks *)

(* the ids that p is asked for when those of taken are asked of others *)
ToRequest(p, taken) ==
  LET free == SelectSeq(conn[p].ids,
                        LAMBDA b : b \notin Range(fresh \o received) \cup active \cup taken)
  IN  SubSeq(free, 1, Min({MaxPerPeer, Len(free)}))

(* one round of fetch_sync_items_loop(), over the peers in any order *)
FetchSyncItems ==
  /\ fetch /\ fetch' = FALSE
  /\ LET asked == {p \in Active : conn[p].needs /\ Idle(conn[p]) /\ ~conn[p].inhibit}
     IN  IF suspended THEN UNCHANGED <<conn, sent, active>>
         ELSE \E order \in SetToSeqs(asked) :
                LET round[i \in 0 .. Len(order)] ==
                      IF i = 0 THEN [p \in Peers |-> <<>>]
                      ELSE [round[i - 1] EXCEPT ![order[i]] =
                              ToRequest(order[i],
                                        UNION {Range(round[i - 1][q]) : q \in Peers})]
                    of == round[Len(order)]
                IN  /\ conn' = [p \in Peers |->
                                  [conn[p] EXCEPT !.sync = @ \cup Range(of[p])]]
                    /\ sent' = [p \in Peers |-> sent[p] \o of[p]]
                    /\ active' = active \cup UNION {Range(of[p]) : p \in Peers}
  /\ UNCHANGED <<calls, fresh, received, accepted, backlog, suspended, client, peers,
                 history, bounds>>

(* fetch_next_batch_of_item_ids_from_peer() once the client has answered, and *)
(* what the task that called it goes on with                                  *)
SendSynopsis ==
  /\ calls # <<>> /\ Head(calls).kind = "synopsis"
  /\ LET c == Head(calls)
         synopsis == Synopsis(c.ref, c.ids)
         asked == IF conn[c.peer].state = "none" THEN conn
                  ELSE [conn EXCEPT ![c.peer].request = {synopsis}]
         done(task) == c.task = task /\ c.todo = <<>>
     IN  /\ sent' = IF conn[c.peer].state = "none" THEN sent
                    ELSE [sent EXCEPT ![c.peer] = Append(@, synopsis)]
         /\ conn' = Turned(asked, c.todo)
         /\ calls' = Tail(calls) \o Asking(conn', c.task, c.todo)
         /\ backlog' = (backlog \/ (done("sync") /\ Triggered))
         /\ fetch' = (fetch \/ done("backlog"))
  /\ UNCHANGED <<items, suspended, client, peers, history, bounds>>

----------------------------------------------------------------------------
(* Answers *)

Open(p) == conn[p].state \in {"active", "closing"}

(* on_message() of p may run, and the next answer is to a request in what *)
Answers(p, what) ==
  Open(p) /\ ~Handling(p) /\ sent[p] # <<>> /\ (Head(sent[p]) \in Blocks) = (what = "block")

(* on_blockchain_item_ids_inventory_message(), up to the first call of the   *)
(* client: the answer must build on the synopsis sent last, whichever        *)
(* request it answers                                                        *)
ReceiveIds(p) ==
  /\ Answers(p, "ids")
  /\ sent' = [sent EXCEPT ![p] = Tail(@)]
  /\ LET a == BlockIds(PathTo[theirs[p]], Head(sent[p]))
         all == a.ids = <<>> \/ (Len(a.ids) = 1 /\ a.ids[1] \in Range(Head(sent[p])))
         fits(synopsis) == \/ a.ids = <<>>
                           \/ synopsis = <<>> /\ Num(a.ids[1]) = 1
                           \/ a.ids[1] \in Range(synopsis)
     IN  /\ served' = IF all THEN served \cup {p} ELSE served \ {p}
         /\ IF conn[p].request = {}
            THEN UNCHANGED <<conn, calls, blamed>>
            ELSE IF \E s \in conn[p].request : ~fits(s)
            THEN /\ conn' = [conn EXCEPT ![p] = Closing(@)]
                 /\ Blame({p}, IF Head(sent[p]) \in conn[p].request THEN "answer"
                              ELSE "late answer")
                 /\ UNCHANGED calls
            ELSE /\ conn' = [conn EXCEPT ![p].request = {}]
                 /\ calls' = Append(calls, [kind |-> "inventory", peer |-> p,
                                            task |-> "handler", todo |-> <<>>,
                                            ids |-> a.ids, remaining |-> a.remaining])
                 /\ UNCHANGED blamed
  /\ UNCHANGED <<items, loops, client, theirs, refused, missed, bounds>>

(* the peer has nothing more, and the client has all that it has *)
InSync(c, a) ==
  /\ a.remaining = 0 /\ c.ids = <<>> /\ c.unfetched = 0
  /\ a.ids = <<>> \/ (Len(a.ids) = 1 /\ a.ids[1] \in known)

(* the list of p once it has offered the ids a *)
Listed(p, a) ==
  LET c == conn[p]
      others == \E q \in Active \ {p} : conn[q].ids # <<>> /\ Head(conn[q].ids) = a[1]
      news == {i \in DOMAIN a : a[i] \notin known}
      start == IF others THEN 1 ELSE IF news = {} THEN Len(a) + 1 ELSE Min(news)
      same == {i \in DOMAIN c.ids : c.ids[i] = a[1]}
  IN  IF a = <<>> THEN c
      ELSE IF c.ids = <<>>
      THEN [c EXCEPT !.ids = SubSeq(a, start, Len(a)),
                     !.seen = IF start > 1 THEN a[start - 1] ELSE @]
      ELSE IF same = {} THEN [c EXCEPT !.ids = Tail(a), !.seen = a[1]]
      ELSE [c EXCEPT !.ids = SubSeq(@, 1, Max(same) - 1) \o a]

(* ... and the rest of it *)
HandleIds ==
  /\ calls # <<>> /\ Head(calls).kind = "inventory"
  /\ LET a == Head(calls)
         p == a.peer
         c == [Listed(p, a.ids) EXCEPT !.unfetched = a.remaining]
         blocks == IF a.remaining # 0 THEN Len(c.ids) > MinPrefetch ELSE c.ids # <<>>
     IN  IF InSync(conn[p], a)
         THEN /\ conn' = [conn EXCEPT ![p].needs = FALSE]
              /\ calls' = Tail(calls)
              /\ UNCHANGED fetch
         ELSE /\ conn' = [conn EXCEPT ![p] = c]
              /\ fetch' = (fetch \/ blocks)
              /\ calls' = Tail(calls) \o IF blocks THEN <<>> ELSE <<NextBatch(p, c, "handler", <<>>)>>
  /\ UNCHANGED <<sent, items, backlog, suspended, client, peers, history, bounds>>

(* process_block_during_sync(), and the choice of what to ask p for next *)
SyncBlock(p, b) ==
  LET c == [conn[p] EXCEPT !.sync = @ \ {b}]
      more == Idle(c) /\ c.unfetched > 0 /\ Len(c.ids) < MinPrefetch
  IN  /\ conn' = [conn EXCEPT ![p] = c]
      /\ active' = active \ {b}
      /\ fresh' = Append(fresh, b)
      /\ backlog' = Triggered
      /\ fetch' = (fetch \/ (Idle(c) /\ ~more))
      /\ calls' = calls \o IF more THEN <<NextBatch(p, c, "handler", <<>>)>> ELSE <<>>
      /\ missed' = missed \cup (IF Waiting THEN {b} ELSE {})
      /\ UNCHANGED blamed

(* process_block_during_normal_operation(), up to the call of the client *)
NormalBlock(p, b) ==
  /\ IF b \in accepted
     THEN /\ conn' = [conn EXCEPT ![p].item = @ \ {b}, ![p].seen = b]
          /\ UNCHANGED calls
     ELSE /\ conn' = [conn EXCEPT ![p].item = @ \ {b}]
          /\ calls' = Append(calls, [kind |-> "normal", peer |-> p, task |-> "handler",
                                     todo |-> <<>>, block |-> b])
  /\ UNCHANGED <<active, fresh, fetch, backlog, blamed, missed>>

(* process_block_message(); the third case is a block that p does not owe *)
ReceiveBlock(p) ==
  /\ Answers(p, "block")
  /\ LET b == Head(sent[p])
     IN  IF b \in conn[p].item THEN NormalBlock(p, b)
         ELSE IF b \in conn[p].sync THEN SyncBlock(p, b)
         ELSE /\ conn' = [conn EXCEPT ![p] = Closing(@)]
              /\ Blame({p}, "block")
              /\ UNCHANGED <<calls, active, fresh, fetch, backlog, missed>>
  /\ sent' = [sent EXCEPT ![p] = Tail(@)]
  /\ UNCHANGED <<received, accepted, suspended, client, peers, refused, bounds>>

(* mutated: a block that does not link counts as rejected *)
HandleNormalBlockStrict ==
  /\ calls # <<>> /\ Head(calls).kind = "normal"
  /\ LET b == Head(calls).block
         p == Head(calls).peer
         guilty == {p} \cup {q \in Active : conn[q].ids # <<>> /\ Head(conn[q].ids) = b}
     IN  /\ HandleBlock(b)
         /\ \/ /\ b \in known'
               /\ conn' = [conn EXCEPT ![p].seen = b]
               /\ accepted' = accepted \cup {b}
               /\ calls' = Tail(calls)
               /\ UNCHANGED blamed
            \/ /\ b \notin known'
               /\ conn' = [q \in Peers |-> IF q \in guilty THEN Closing(conn[q]) ELSE conn[q]]
               /\ Blame(guilty, "block")
               /\ calls' = Tail(calls)
               /\ UNCHANGED accepted
  /\ UNCHANGED <<sent, active, fresh, received, loops, peers, refused, missed, bounds>>

(* ... and what follows when the client has seen the block *)
HandleNormalBlock ==
  /\ calls # <<>> /\ Head(calls).kind = "normal"
  /\ LET b == Head(calls).block
         p == Head(calls).peer
         guilty == {p} \cup {q \in Active : conn[q].ids # <<>> /\ Head(conn[q].ids) = b}
     IN  /\ HandleBlock(b)
         /\ \/ /\ b \in known'
               /\ conn' = [conn EXCEPT ![p].seen = b]
               /\ accepted' = accepted \cup {b}
               /\ calls' = Tail(calls)
               /\ UNCHANGED blamed
            \/ /\ ~Linked(b)
               /\ conn' = [conn EXCEPT ![p] = Restarted(@)]
               /\ calls' = Append(Tail(calls), NextBatch(p, conn'[p], "handler", <<>>))
               /\ UNCHANGED <<accepted, blamed>>
            \/ /\ Linked(b) /\ b \notin known'
               /\ conn' = [q \in Peers |-> IF q \in guilty THEN Closing(conn[q]) ELSE conn[q]]
               /\ Blame(guilty, "block")
               /\ calls' = Tail(calls)
               /\ UNCHANGED accepted
  /\ UNCHANGED <<sent, active, fresh, received, loops, peers, refused, missed, bounds>>

(* on_item_not_available_message() for a block of the sync *)
ItemNotAvailable(p) ==
  /\ Answers(p, "block") /\ refusals > 0
  /\ LET b == Head(sent[p])
     IN  /\ b \in conn[p].sync \ conn[p].item
         /\ conn' = [conn EXCEPT ![p] =
                       [(IF @.theyNeed THEN [@ EXCEPT !.inhibit = TRUE] ELSE Closing(@))
                        EXCEPT !.sync = @ \ {b}]]
         /\ refused' = refused \cup {b}
  /\ sent' = [sent EXCEPT ![p] = Tail(@)]
  /\ fetch' = TRUE
  /\ refusals' = refusals - 1
  /\ UNCHANGED <<calls, items, backlog, suspended, client, peers, blamed, missed, nodes,
                 gains, ends, asks, adverts>>

----------------------------------------------------------------------------
(* Connections and peers *)

(* new_peer_just_added(); what the client still has to answer of an earlier *)
(* connection is over first *)
Connect(p) ==
  /\ p \in nodes /\ conn[p].state = "none"
  /\ \A i \in DOMAIN calls :
       calls[i].peer # p /\ \A j \in DOMAIN calls[i].todo : calls[i].todo[j][1] # p
  /\ conn' = [conn EXCEPT ![p] = [Restarted(@) EXCEPT !.state = "active"]]
  /\ calls' = Append(calls, NextBatch(p, conn'[p], "handler", <<>>))
  /\ UNCHANGED <<sent, items, loops, client, peers, history, bounds>>

(* on_connection_closed(), up to the call that tells the client how many     *)
(* connections are left                                                      *)
OnConnectionClosed(p) ==
  /\ conn[p].state \notin {"none", "gone"} /\ ~Handling(p)
  /\ conn[p].state = "active" => ends > 0
  /\ ends' = IF conn[p].state = "active" THEN ends - 1 ELSE ends
  /\ conn' = [conn EXCEPT ![p].state = "gone"]
  /\ calls' = Append(calls, [kind |-> "count", peer |-> p, task |-> "handler", todo |-> <<>>])
  /\ UNCHANGED <<sent, items, loops, client, peers, history, nodes, gains, asks, adverts,
                 refusals>>

(* mutated: what the peer still owed is not given back *)
GiveBackNothing(p) ==
  /\ active' = active
  /\ fetch' = (fetch \/ conn[p].sync # {})

(* ... what the peer still owed may be asked of others *)
GiveBack(p) ==
  /\ active' = active \ conn[p].sync
  /\ fetch' = (fetch \/ conn[p].sync # {})

(* ... and the rest of it *)
ConnectionCounted ==
  /\ calls # <<>> /\ Head(calls).kind = "count"
  /\ LET p == Head(calls).peer
     IN  /\ GiveBack(p)
         /\ conn' = [conn EXCEPT ![p] = NewConnection]
         /\ sent' = [sent EXCEPT ![p] = <<>>]
         /\ served' = served \ {p}
  /\ calls' = Tail(calls)
  /\ UNCHANGED <<fresh, received, accepted, backlog, suspended, client, theirs, history, bounds>>

(* terminate_inactive_connections_loop(): a peer that leaves a request for   *)
(* ids or for an advertised block without an answer is cut off, one that     *)
(* says nothing at all is asked to close                                     *)
TerminateInactive(p) ==
  /\ conn[p].state = "active" /\ ends > 0
  /\ \/ /\ conn[p].request # {} \/ conn[p].item # {}
        /\ conn' = [conn EXCEPT ![p].state = "terminating"]
     \/ conn' = [conn EXCEPT ![p].state = "closing"]
  /\ ends' = ends - 1
  /\ UNCHANGED <<sent, calls, items, loops, client, peers, history, nodes, gains, asks,
                 adverts, refusals>>

(* ... and so is one from which more is wanted while nothing is listed *)
TerminateStalled(p) ==
  /\ conn[p].state = "active" /\ conn[p].needs /\ ~Handling(p)
  /\ conn[p].request = {} /\ conn[p].ids = <<>>
  /\ conn' = [conn EXCEPT ![p].state = "terminating"]
  /\ UNCHANGED <<sent, calls, items, loops, client, peers, history, bounds>>

(* on_fetch_blockchain_item_ids_message(): p asks for what this node has *)
PeerAsks(p) ==
  /\ Open(p) /\ ~Handling(p) /\ p \in asks
  /\ LET path == PathTo[theirs[p]]
         marks == Marks(Len(path))
         synopsis == [i \in DOMAIN marks |-> path[marks[i]]]
         ids == BlockIds(PathTo[head], synopsis).ids
         level == Len(ids) = 1 /\ ids[1] \in Range(synopsis)
         again == ~conn[p].needs /\ synopsis # <<>> /\ theirs[p] \notin known
         c == [conn[p] EXCEPT !.theyNeed = ids # <<>> /\ ~level]
         next == IF again THEN Restarted(c) ELSE c
     IN  /\ conn' = [conn EXCEPT ![p] = IF level /\ conn[p].inhibit THEN Closing(next) ELSE next]
         /\ calls' = calls \o IF again THEN <<NextBatch(p, next, "handler", <<>>)>> ELSE <<>>
  /\ asks' = asks \ {p}
  /\ UNCHANGED <<sent, items, loops, client, peers, history, nodes, gains, ends, adverts,
                 refusals>>

(* p, which takes this node to be in sync, advertises its head block,        *)
(* on_item_ids_inventory_message() notes it and fetch_items_loop() asks for  *)
(* it                                                                        *)
Advertise(p) ==
  /\ conn[p].state = "active" /\ Idle(conn[p]) /\ p \in served /\ p \in adverts
  /\ theirs[p] # Genesis /\ \A q \in Active : theirs[p] \notin conn[q].item
  /\ conn' = [conn EXCEPT ![p].item = {theirs[p]}]
  /\ sent' = [sent EXCEPT ![p] = Append(@, theirs[p])]
  /\ adverts' = adverts \ {p}
  /\ UNCHANGED <<calls, items, loops, client, peers, history, nodes, gains, ends, asks,
                 refusals>>

(* p takes a longer chain *)
PeerGrows(p) ==
  /\ \E b \in Blocks :
       <<p, b>> \in gains /\ Num(b) > Num(theirs[p]) /\ theirs' = [theirs EXCEPT ![p] = b]
  /\ gains' = {}
  /\ UNCHANGED <<served, conn, sent, calls, items, loops, client, history, nodes, ends, asks,
                 adverts, refusals>>

Next ==
  \/ ProcessBacklog \/ FetchSyncItems \/ SendSyncBlock \/ SendSynopsis \/ HandleIds
  \/ HandleNormalBlock \/ ConnectionCounted
  \/ \E p \in Peers :
       \/ ReceiveIds(p) \/ ReceiveBlock(p)
       \/ ItemNotAvailable(p) \/ Connect(p) \/ OnConnectionClosed(p)
       \/ TerminateInactive(p) \/ TerminateStalled(p) \/ PeerAsks(p) \/ Advertise(p)
       \/ PeerGrows(p)

(* The tasks of the node and of its client run, a peer that is asked answers, *)
(* a connection that is being closed is closed, a stalled one cut off, and a  *)
(* known node is connected to again.  In which order is left open: as long as *)
(* one of these steps can be taken, one of them is.                           *)
Progress ==
  \/ ProcessBacklog \/ FetchSyncItems \/ SendSyncBlock \/ SendSynopsis \/ HandleIds
  \/ HandleNormalBlock \/ ConnectionCounted
  \/ \E p \in Peers :
       \/ ReceiveIds(p) \/ ReceiveBlock(p)
       \/ Connect(p) \/ TerminateStalled(p)
       \/ conn[p].state # "active" /\ OnConnectionClosed(p)

Spec == Init /\ [][Next]_vars /\ WF_vars(Progress)

----------------------------------------------------------------------------
(* Properties *)

(* the blocks of p all apply *)
Sound(p) == Range(PathTo[theirs[p]]) \cap Invalid = {}

(* the block that p lists first has come, the backlog loop has missed it, and *)
(* nothing triggers the loop                                                  *)
HeldUp(p) == ~backlog /\ conn[p].ids # <<>> /\ Head(conn[p].ids) \in missed

(* No block is asked of two peers at a time, and a block that counts as asked *)
(* for (and so is asked of nobody else) is one that an open connection still  *)
(* owes, whatever connections have ended, were restarted or ran out of time:  *)
(* _active_sync_requests and the lists of the connections agree.  The         *)
(* exception is a block that a peer said it has not: it is taken off the      *)
(* connection's list only.                                                    *)
RequestsAccounted ==
  /\ \A p, q \in Peers : p # q => conn[p].sync \cap conn[q].sync = {}
  /\ UNION {conn[p].sync : p \in Peers} \subseteq active
  /\ active \subseteq UNION {conn[p].sync : p \in Peers} \cup refused

(* Every variable has its type, the client has no more blocks than it may     *)
(* have, and what was asked for is accounted for.                             *)
RequestsConsistent == TypeOK /\ RequestsAccounted

(* A peer whose blocks all apply is never dropped for a block: blocks are      *)
(* handed over in an order in which they link, whichever peers deliver them    *)
(* and in whatever order.  It is dropped for an answer only when the answer is *)
(* late: a restart of the sync has sent another synopsis since the one that is *)
(* answered, and the answer is checked against that one.                       *)
OnlyBadPeersBlamed ==
  \A b \in blamed : Sound(b[1]) => b[2] = "late answer"

(* When all blocks apply and peers answer, the node gets into sync with every  *)
(* peer and stays there, however often connections end (also when the loop     *)
(* that looks for stalled peers cuts one off while the client is busy with its *)
(* last block), and although peers switch to another fork meanwhile.  Only a   *)
(* block that has been received can hold it up for good, in one of three ways: *)
(* the backlog loop ended at a block accepted meanwhile, before it came to     *)
(* this one; this one came while the loop's task still waited for the client,  *)
(* and its trigger was lost; or the loop ran while no peer listed it, for its  *)
(* connection had ended, and a list of ids does not start the loop again.      *)
SyncFinishes ==
  <>[](refused = {} /\ (\A p \in nodes : Sound(p))
         => \A p \in nodes : conn[p].state = "active" /\ (~conn[p].needs \/ HeldUp(p)))
=============================================================================
