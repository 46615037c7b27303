----------------------------- MODULE ChecksProofs -----------------------------
(***************************************************************************)
(* What an acceptance check may say, for any nodes, branches and heights.  *)
(*                                                                         *)
(* The check compares blocks one call at a time, and a node may change its *)
(* branch between any two of them.  The argument counts: a node that gave  *)
(* a block off the branch of the checkpoint was on that branch before and  *)
(* after, and once more off it to confirm the block, each time one change  *)
(* of branch later; three changes are more than the properties allow.  The *)
(* state it gave, and a trace, are not asked about again: there two are.   *)
(***************************************************************************)
EXTENDS Checks, SequenceTheorems, TLAPS

Read == NodeOf["read"]
Tracer == NodeOf["trace"]

Steps ==
    {"begin", "pin", "historical", "balance", "code", "call", "search", "pending", "receipt", "canonical", "trace", "block",
     "passed", "ready", "started", "indexed", "published", "transaction", "source", "verdict",
     "checked", "failed"}
Statuses ==
    {"none", "CHECK_FAILED", "PREFLIGHT_PASSED", "genesis_only", "no_recent_transaction_sample",
     "CHECKED_NO_TRANSACTION_SAMPLE", "CHECKED"}

\* A block number on a branch; the blocks there are, genesis on all branches.
Places == [branch : Branches \cup {"genesis"}, number : Nat]
Blocks == {b \in Places : b.number = 0 => b = Genesis}
Questions == [client : ToSet(Clients) \cup {"public"}, block : Blocks, latest : BOOLEAN]
Views == [branch : Branches, height : Nat]
Readings ==
    [head : Blocks \cup {None}, historical : Blocks \cup {None},
     sample : Places \cup {None}, receipt : Blocks \cup {None}]

TypeOK ==
    /\ node \in [Nodes -> Views]
    /\ index \in Views
    /\ switches \in [Nodes -> Nat]
    /\ mined \in [Branches -> Nat]
    /\ settings \in [historical_block : Nat \cup {None}, transaction : BOOLEAN]
    /\ step \in Steps
    /\ asks \in Seq(Questions)
    /\ seen \in Readings
    /\ report \in Statuses
    /\ began \in [Nodes -> Nat]
    /\ traced \in Blocks \cup {None}
    /\ states \subseteq Blocks
    /\ grown \in BOOLEAN
-----------------------------------------------------------------------------
(***************************************************************************)
(* How far the check is.                                                   *)
(***************************************************************************)
Anchored == step \notin {"begin", "pin", "failed"}
Sampled == Anchored /\ step # "historical"
Closing == step \in {"passed", "ready"}
Late == step \in {"started", "indexed", "published", "transaction", "source", "verdict", "checked"}
Early == Sampled /\ ~Closing /\ ~Late

\* The sample was found canonical; the receipt was shown by the public path.
HasSample == step \in {"trace", "block", "passed"} \/ (Late /\ seen.sample # None)
HasTrace == HasSample /\ step # "trace"
HasReceipt ==
    step \in {"transaction", "source"} \/ (step \in {"verdict", "checked"} /\ seen.sample # None)

\* A block of the transaction.
Holder(b) == b \in Blocks /\ b.branch \in Branches /\ b.number > 0 /\ mined[b.branch] = b.number

ShapeInv ==
    /\ Anchored => seen.head \in Blocks
    /\ Sampled => seen.historical \in Blocks /\ seen.historical.number <= seen.head.number
    /\ step \in {"balance", "code", "call", "search", "receipt"} =>
         seen.sample \in Places /\ seen.sample.number <= seen.head.number
    /\ step = "canonical" => Holder(seen.sample)
    /\ HasSample => Holder(seen.sample) /\ seen.sample.number <= seen.head.number
    /\ step \in {"pending", "ready"} => seen.sample = None
    /\ step \in {"published", "transaction", "source"} => seen.sample # None
    /\ HasTrace => Holder(traced)
    /\ HasReceipt => Holder(seen.receipt)

ReportInv ==
    /\ Passed => Late \/ (Closing /\ asks = <<>>)
    /\ report = "CHECKED" => step = "checked" /\ seen.sample # None

\* No node goes back, and the pinned head was the reference's.
FreshInv ==
    /\ \A n \in Nodes : began[n] <= node[n].height
    /\ Anchored /\ "reference" \in ToSet(Clients) =>
         seen.head.number >= began[NodeOf["reference"]]

AtGenesis(c) == [client |-> c, block |-> seen.head, latest |-> TRUE]
GenesisInv ==
    (Closing \/ Late) /\ seen.head.number = 0 /\ grown =>
        /\ Closing
        /\ \E c \in ToSet(Clients) :
              node[NodeOf[c]].height > 0 /\ \E i \in DOMAIN asks : asks[i] = AtGenesis(c)
-----------------------------------------------------------------------------
(***************************************************************************)
(* Changes of branch.  Moved(n, b, k): the node has changed k times, and   *)
(* once more if it is not on b now.                                        *)
(***************************************************************************)
Moved(n, b, k) == switches[n] >= k /\ (node[n].branch # b => switches[n] >= k + 1)

Question(c, b) == [client |-> c, block |-> b, latest |-> FALSE]
Pend(c, b) == \E i \in DOMAIN asks : asks[i] = Question(c, b)

\* The head is still asked for, and the block x after it.
Ahead(x) ==
    \E i, j \in DOMAIN asks :
        i < j /\ asks[i] = Question("read", seen.head) /\ asks[j] = Question("read", x)

Strayed(x) == x.number > 0 /\ x.branch # seen.head.branch

\* The comparisons that a block off the branch of the head must get past.
Compared(x) ==
    /\ Ahead(x) => Moved(Read, x.branch, 1)
    /\ ~Ahead(x) /\ Pend("read", x) => Moved(Read, seen.head.branch, 2)
    /\ ~Ahead(x) /\ ~Pend("read", x) => switches[Read] >= 3

AnchorInv ==
    Anchored /\ seen.head.number > 0 /\ (step = "historical" => ~Pend("read", seen.head)) =>
        Moved(Read, seen.head.branch, 0)

HistoricalInv ==
    Sampled /\ Strayed(seen.historical) =>
        /\ Early => Moved(Read, seen.historical.branch, 1)
        /\ Closing => Compared(seen.historical)
        /\ Late => switches[Read] >= 3

\* The state calls name no block: after an answer off the branch of the head
\* only the answer about the head counts.
Unnoticed(b) ==
    /\ Early => Moved(Read, b.branch, 1)
    /\ Closing /\ Pend("read", seen.head) => Moved(Read, b.branch, 1)
    /\ (Closing /\ ~Pend("read", seen.head)) \/ Late => switches[Read] >= 2

StateInv ==
    /\ step \in {"begin", "pin", "historical", "balance"} => states = {}
    /\ Sampled =>
         /\ step # "balance" => states # {}
         /\ \A b \in states : b.number = seen.historical.number
         /\ \A b \in states : Strayed(b) => Unnoticed(b)

SampleInv ==
    HasSample /\ Strayed(seen.sample) =>
        /\ Early => Moved(Read, seen.sample.branch, 1)
        /\ Closing => Compared(seen.sample)
        /\ Late => switches[Read] >= 3

ReceiptInv ==
    HasReceipt /\ Strayed(seen.receipt) =>
        /\ step = "verdict" => Compared(seen.receipt)
        /\ step = "checked" => switches[Read] >= 3

TraceInv ==
    /\ step = "trace" /\ ~Pend("trace", seen.sample) => Moved(Tracer, seen.sample.branch, 0)
    /\ HasTrace /\ traced.branch # seen.sample.branch =>
         /\ step = "block" => Moved(Tracer, traced.branch, 1)
         /\ Closing /\ Pend("trace", seen.sample) => Moved(Tracer, traced.branch, 1)
         /\ (Closing /\ ~Pend("trace", seen.sample)) \/ Late => switches[Tracer] >= 2

IInv ==
    /\ TypeOK /\ ShapeInv /\ ReportInv
    /\ FreshInv /\ GenesisInv
    /\ AnchorInv /\ HistoricalInv /\ StateInv /\ SampleInv /\ ReceiptInv /\ TraceInv
-----------------------------------------------------------------------------
(***************************************************************************)
(* Clients, blocks and lists of comparisons.                               *)
(***************************************************************************)
LEMMA ClientFacts ==
    /\ {"read", "trace", "broadcast"} \subseteq ToSet(Clients)
    /\ Clients \in Seq(ToSet(Clients)) /\ Clients[1] = "read" /\ Len(Clients) \in {3, 4}
    /\ \A c \in ToSet(Clients) \cup {"public"} : NodeOf[c] \in Nodes
    /\ Read \in Nodes /\ Tracer \in Nodes
<1>1. CASE Clients = <<"read", "trace", "broadcast">>
  <2>1. /\ Clients \in Seq({"read", "trace", "broadcast"}) /\ Clients[1] = "read"
        /\ Clients[2] = "trace" /\ Clients[3] = "broadcast" /\ Len(Clients) = 3 /\ DOMAIN Clients = 1..3
    BY <1>1
  <2>2. ToSet(Clients) = {"read", "trace", "broadcast"}
    BY <2>1 DEF ToSet
  <2> QED
    BY <2>1, <2>2, ChecksAssumption DEF ChecksAssumption, Read, Tracer
<1>2. CASE Clients = <<"read", "trace", "broadcast", "reference">>
  <2>1. /\ Clients \in Seq({"read", "trace", "broadcast", "reference"}) /\ Clients[1] = "read"
        /\ Clients[2] = "trace" /\ Clients[3] = "broadcast" /\ Clients[4] = "reference"
        /\ Len(Clients) = 4 /\ DOMAIN Clients = 1..4
    BY <1>2
  <2>2. ToSet(Clients) = {"read", "trace", "broadcast", "reference"}
    BY <2>1 DEF ToSet
  <2> QED
    BY <2>1, <2>2, ChecksAssumption DEF ChecksAssumption, Read, Tracer
<1> QED
  BY <1>1, <1>2, ChecksAssumption DEF ChecksAssumption

LEMMA BlockOnIs ==
    ASSUME NEW branch \in Branches, NEW number \in Nat
    PROVE  /\ BlockOn(branch, number) \in Blocks
           /\ BlockOn(branch, number).number = number
           /\ number > 0 => BlockOn(branch, number).branch = branch
BY DEF BlockOn, Blocks, Places, Genesis

LEMMA SameBlock ==
    ASSUME NEW b \in Blocks, NEW c \in Blocks, b.number = c.number, b.branch = c.branch
    PROVE  b = c
BY DEF Blocks, Places

LEMMA NoneIsNoBlock == None \notin Places /\ None \notin Blocks
BY ChecksAssumption DEF ChecksAssumption, Blocks, Places

\* A list of the same question, of clients one after another.
LEMMA SameIs ==
    ASSUME NEW clients \in Seq(ToSet(Clients) \cup {"public"}), NEW block \in Blocks
    PROVE  /\ Same(clients, block) \in Seq(Questions)
           /\ Len(Same(clients, block)) = Len(clients)
           /\ \A i \in 1..Len(clients) : Same(clients, block)[i] = Question(clients[i], block)
<1>1. Len(clients) \in Nat /\ DOMAIN clients = 1..Len(clients)
  OBVIOUS
<1>2. \A i \in 1..Len(clients) : clients[i] \in ToSet(Clients) \cup {"public"}
  OBVIOUS
<1>3. Same(clients, block) = [i \in 1..Len(clients) |-> Question(clients[i], block)]
  BY <1>1 DEF Same, Question
<1>4. \A i \in 1..Len(clients) : Question(clients[i], block) \in Questions
  BY <1>2 DEF Question, Questions
<1>5. Same(clients, block) \in [1..Len(clients) -> Questions]
  BY <1>3, <1>4
<1> QED
  BY <1>1, <1>3, <1>5, LenProperties, SeqDef

LEMMA GenesisHeadIs ==
    ASSUME NEW clients \in Seq(ToSet(Clients) \cup {"public"}), NEW head \in Blocks
    PROVE  /\ SameGenesisHead(clients, head) \in Seq(Questions)
           /\ head.number = 0 =>
                /\ Len(SameGenesisHead(clients, head)) = Len(clients)
                /\ \A i \in 1..Len(clients) : SameGenesisHead(clients, head)[i] =
                       [client |-> clients[i], block |-> head, latest |-> TRUE]
<1> DEFINE Item(i) == [client |-> clients[i], block |-> head, latest |-> TRUE]
<1>1. Len(clients) \in Nat /\ DOMAIN clients = 1..Len(clients)
  OBVIOUS
<1>2. \A i \in 1..Len(clients) : clients[i] \in ToSet(Clients) \cup {"public"}
  OBVIOUS
<1>3. \A i \in 1..Len(clients) : Item(i) \in Questions
  BY <1>2 DEF Questions
<1>4. CASE head.number = 0
  <2>1. SameGenesisHead(clients, head) = [i \in 1..Len(clients) |-> Item(i)]
    BY <1>1, <1>4 DEF SameGenesisHead
  <2> HIDE DEF Item
  <2>2. SameGenesisHead(clients, head) \in [1..Len(clients) -> Questions]
    BY <2>1, <1>3
  <2>3. \A i \in 1..Len(clients) : SameGenesisHead(clients, head)[i] = Item(i)
    BY <2>1
  <2> QED
    BY <1>1, <2>2, <2>3, LenProperties, SeqDef DEF Item
<1>5. CASE head.number # 0
  BY <1>5 DEF SameGenesisHead
<1> QED
  BY <1>4, <1>5

\* What is in one part of a list is in the list, in order.
LEMMA Joined ==
    ASSUME NEW s \in Seq(Questions), NEW t \in Seq(Questions)
    PROVE  /\ s \o t \in Seq(Questions) /\ Len(s \o t) = Len(s) + Len(t)
           /\ \A i \in 1..Len(s) : i \in DOMAIN (s \o t) /\ (s \o t)[i] = s[i]
           /\ \A j \in 1..Len(t) : Len(s) + j \in DOMAIN (s \o t) /\ (s \o t)[Len(s) + j] = t[j]
<1>1. /\ s \o t \in Seq(Questions) /\ Len(s \o t) = Len(s) + Len(t)
      /\ \A i \in 1..(Len(s) + Len(t)) : (s \o t)[i] = IF i <= Len(s) THEN s[i] ELSE t[i - Len(s)]
  BY ConcatProperties
<1>2. Len(s) \in Nat /\ Len(t) \in Nat /\ DOMAIN (s \o t) = 1..(Len(s) + Len(t))
  BY <1>1
<1>3. ASSUME NEW j \in 1..Len(t)
      PROVE  Len(s) + j \in 1..(Len(s) + Len(t)) /\ ~(Len(s) + j <= Len(s)) /\ Len(s) + j - Len(s) = j
  BY <1>2
<1> QED
  BY <1>1, <1>2, <1>3

\* The elements of a list that is asked from its head on.
LEMMA Asked ==
    ASSUME NEW s \in Seq(Questions), s # <<>>
    PROVE  /\ Head(s) \in Questions /\ Tail(s) \in Seq(Questions)
           /\ 1 \in DOMAIN s /\ Head(s) = s[1]
           /\ \A i \in DOMAIN Tail(s) : i \in Nat /\ i + 1 \in DOMAIN s /\ Tail(s)[i] = s[i + 1]
           /\ \A i \in DOMAIN s : i \in Nat /\ i >= 1
           /\ \A i \in DOMAIN s : i # 1 => i - 1 \in DOMAIN Tail(s) /\ Tail(s)[i - 1] = s[i]
<1>1. /\ Head(s) \in Questions /\ Tail(s) \in Seq(Questions) /\ Len(Tail(s)) = Len(s) - 1
      /\ \A i \in 1..Len(Tail(s)) : Tail(s)[i] = s[i + 1]
  BY HeadTailProperties
<1>2. Len(s) \in Nat /\ Len(s) >= 1 /\ DOMAIN s = 1..Len(s) /\ DOMAIN Tail(s) = 1..(Len(s) - 1) /\ Head(s) = s[1]
  BY <1>1
<1>3. ASSUME NEW i \in DOMAIN s, i # 1
      PROVE  i - 1 \in 1..(Len(s) - 1) /\ (i - 1) + 1 = i
  BY <1>2, <1>3
<1> QED
  BY <1>1, <1>2, <1>3
-----------------------------------------------------------------------------
(***************************************************************************)
(* The lists of comparisons that the check makes.                          *)
(***************************************************************************)
\* The question comes after the one for the head, to the same client.
Follows(list, question) ==
    \E i, j \in DOMAIN list : i < j /\ list[i] = Question("read", seen.head) /\ list[j] = question

LEMMA OneClient ==
    ASSUME NEW client \in ToSet(Clients) \cup {"public"}, NEW block \in Blocks
    PROVE  /\ Same(<<client>>, block) \in Seq(Questions) /\ Len(Same(<<client>>, block)) = 1
           /\ Same(<<client>>, block)[1] = Question(client, block)
<1>1. <<client>> \in Seq(ToSet(Clients) \cup {"public"}) /\ Len(<<client>>) = 1 /\ <<client>>[1] = client
  OBVIOUS
<1>2. 1 \in 1..1
  OBVIOUS
<1> QED
  BY <1>1, <1>2, SameIs

LEMMA FinalList ==
    ASSUME seen.head \in Blocks, seen.historical \in Blocks, NEW samples \in Seq(Questions)
    PROVE  /\ FinalComparisons(samples) \in Seq(Questions)
           /\ Follows(FinalComparisons(samples), Question("read", seen.historical))
           /\ \A k \in 1..Len(samples) : Follows(FinalComparisons(samples), samples[k])
<1> DEFINE a == Same(Clients, seen.head)
           b == Same(<<"read">>, seen.historical)
           l == a \o b \o samples
<1>1. a \in Seq(Questions) /\ Len(a) \in {3, 4} /\ a[1] = Question("read", seen.head)
  <2>1. Clients \in Seq(ToSet(Clients) \cup {"public"})
    BY ClientFacts, SeqMonotonic
  <2>2. Len(Clients) \in {3, 4} /\ 1 \in 1..Len(Clients)
    BY ClientFacts
  <2> QED
    BY <2>1, <2>2, ClientFacts, SameIs
<1>2. b \in Seq(Questions) /\ Len(b) = 1 /\ b[1] = Question("read", seen.historical)
  BY ClientFacts, OneClient
<1> HIDE DEF a, b
<1>3. /\ a \o b \in Seq(Questions) /\ Len(a \o b) = Len(a) + 1
      /\ (a \o b)[1] = a[1] /\ (a \o b)[Len(a) + 1] = b[1]
  <2> HIDE DEF l
  <2>1. 1 \in 1..Len(a) /\ 1 \in 1..Len(b)
    BY <1>1, <1>2
  <2>0. a \in Seq(Questions) /\ b \in Seq(Questions)
    BY <1>1, <1>2
  <2>2. /\ a \o b \in Seq(Questions) /\ Len(a \o b) = Len(a) + Len(b)
        /\ \A i \in 1..Len(a) : (a \o b)[i] = a[i]
        /\ \A j \in 1..Len(b) : (a \o b)[Len(a) + j] = b[j]
    BY <2>0, Joined
  <2>3. (a \o b)[1] = a[1] /\ (a \o b)[Len(a) + 1] = b[1]
    BY <2>1, <2>2
  <2> QED
    BY <1>2, <2>2, <2>3
<1>4. /\ l \in Seq(Questions)
      /\ \A i \in 1..Len(a \o b) : i \in DOMAIN l /\ l[i] = (a \o b)[i]
      /\ \A k \in 1..Len(samples) : Len(a \o b) + k \in DOMAIN l /\ l[Len(a \o b) + k] = samples[k]
  BY <1>3, Joined
<1> HIDE DEF l
<1>5. /\ 1 \in DOMAIN l /\ l[1] = Question("read", seen.head)
      /\ Len(a) + 1 \in DOMAIN l /\ l[Len(a) + 1] = Question("read", seen.historical)
      /\ 1 < Len(a) + 1
  <2>1. 1 \in 1..Len(a \o b) /\ Len(a) + 1 \in 1..Len(a \o b)
    BY <1>1, <1>3
  <2> QED
    BY <1>1, <1>2, <1>3, <1>4, <2>1
<1>6. Follows(l, Question("read", seen.historical))
  BY <1>5 DEF Follows
<1>7. ASSUME NEW k \in 1..Len(samples)
      PROVE  Follows(l, samples[k])
  <2>1. 1 < Len(a \o b) + k
    BY <1>1, <1>3
  <2> QED
    BY <1>4, <1>5, <2>1 DEF Follows
<1> QED
  BY <1>4, <1>6, <1>7 DEF FinalComparisons, a, b, l

LEMMA PassedList ==
    ASSUME seen.head \in Blocks, seen.historical \in Blocks, seen.sample \in Blocks,
           NEW l, l = FinalComparisons(Same(<<"read">>, seen.sample) \o Same(<<"trace">>, seen.sample))
    PROVE  /\ l \in Seq(Questions)
           /\ Follows(l, Question("read", seen.historical))
           /\ Follows(l, Question("read", seen.sample)) /\ Follows(l, Question("trace", seen.sample))
<1> DEFINE a == Same(<<"read">>, seen.sample)
           b == Same(<<"trace">>, seen.sample)
<1>1. /\ a \in Seq(Questions) /\ Len(a) = 1 /\ a[1] = Question("read", seen.sample)
      /\ b \in Seq(Questions) /\ Len(b) = 1 /\ b[1] = Question("trace", seen.sample)
  BY ClientFacts, OneClient
<1> HIDE DEF a, b
<1>2. a \o b \in Seq(Questions) /\ Len(a \o b) = 2 /\ (a \o b)[1] = a[1] /\ (a \o b)[2] = b[1]
  <2>1. 1 \in 1..Len(a) /\ 1 \in 1..Len(b) /\ Len(a) + 1 = 2
    BY <1>1
  <2> QED
    BY <1>1, <2>1, Joined
<1>3. 1 \in 1..Len(a \o b) /\ 2 \in 1..Len(a \o b)
  BY <1>2
<1>4. l = FinalComparisons(a \o b)
  BY DEF a, b
<1> QED
  BY <1>1, <1>2, <1>3, <1>4, FinalList

LEMMA ReadyList ==
    ASSUME seen.head \in Blocks, seen.historical \in Blocks
    PROVE  /\ ReadyComparisons \in Seq(Questions)
           /\ Follows(ReadyComparisons, Question("read", seen.historical))
           /\ seen.head.number = 0 =>
                \A c \in ToSet(Clients) : \E i \in DOMAIN ReadyComparisons : ReadyComparisons[i] = AtGenesis(c)
<1> DEFINE g == SameGenesisHead(Clients, seen.head)
<1>1. /\ g \in Seq(Questions)
      /\ seen.head.number = 0 =>
           Len(g) = Len(Clients) /\ \A i \in 1..Len(Clients) : g[i] = AtGenesis(Clients[i])
  BY ClientFacts, SeqMonotonic, GenesisHeadIs DEF AtGenesis
<1> HIDE DEF g
<1>2. /\ FinalComparisons(g) \in Seq(Questions)
      /\ Follows(FinalComparisons(g), Question("read", seen.historical))
      /\ \A k \in 1..Len(g) : Follows(FinalComparisons(g), g[k])
  BY <1>1, FinalList
<1>3. ASSUME seen.head.number = 0, NEW c \in ToSet(Clients)
      PROVE  \E i \in DOMAIN FinalComparisons(g) : FinalComparisons(g)[i] = AtGenesis(c)
  <2>1. PICK k \in 1..Len(Clients) : Clients[k] = c
    BY ClientFacts DEF ToSet
  <2> QED
    BY <1>1, <1>2, <1>3, <2>1 DEF Follows
<1> QED
  BY <1>2, <1>3 DEF ReadyComparisons, g
-----------------------------------------------------------------------------
(***************************************************************************)
(* What a node answers.                                                    *)
(***************************************************************************)
LEMMA ViewIs ==
    ASSUME TypeOK, NEW c \in ToSet(Clients) \cup {"public"}
    PROVE  /\ NodeOf[c] \in Nodes /\ View(c) = node[NodeOf[c]] /\ View(c) \in Views
           /\ Latest(View(c)) \in Blocks /\ Latest(View(c)).number = View(c).height
           /\ View(c).height > 0 => Latest(View(c)).branch = View(c).branch
<1>1. NodeOf[c] \in Nodes
  BY ClientFacts
<1>2. View(c) \in Views /\ View(c).branch \in Branches /\ View(c).height \in Nat
  BY <1>1 DEF View, TypeOK, Views
<1> QED
  BY <1>1, <1>2, BlockOnIs DEF Latest, View

LEMMA ReceiptIs ==
    ASSUME TypeOK, NEW view \in Views, Receipt(view) # None
    PROVE  /\ Holder(Receipt(view))
           /\ Receipt(view).branch = view.branch /\ Receipt(view).number <= view.height
<1> DEFINE number == mined[view.branch]
<1>1. view.branch \in Branches /\ view.height \in Nat /\ number \in Nat
  BY DEF TypeOK, Views
<1>2. number > 0 /\ number <= view.height /\ Receipt(view) = BlockOn(view.branch, number)
  BY DEF Receipt, Has
<1> QED
  BY <1>1, <1>2, BlockOnIs DEF Holder

\* The transaction is in one block of a branch.
LEMMA HoldersAgree ==
    ASSUME TypeOK, NEW b, NEW c, Holder(b), Holder(c), b.branch = c.branch
    PROVE  b = c
BY SameBlock DEF Holder

\* A block that a client has is on the branch of its node.
LEMMA AgreedIs ==
    ASSUME TypeOK, NEW ask \in Questions, Agrees(ask)
    PROVE  /\ NodeOf[ask.client] \in Nodes
           /\ ask.block.number > 0 => node[NodeOf[ask.client]].branch = ask.block.branch
           /\ ask.latest => node[NodeOf[ask.client]].height = 0
<1>1. ask.client \in ToSet(Clients) \cup {"public"} /\ ask.block \in Blocks /\ ask.block.number \in Nat
  BY DEF Questions, Blocks, Places
<1>2. /\ NodeOf[ask.client] \in Nodes /\ View(ask.client) = node[NodeOf[ask.client]]
      /\ View(ask.client).branch \in Branches
  BY <1>1, ViewIs DEF Views
<1>3. BlockOn(View(ask.client).branch, ask.block.number) = ask.block /\ (ask.latest => View(ask.client).height = 0)
  BY DEF Agrees
<1> QED
  BY <1>1, <1>2, <1>3, BlockOnIs

-----------------------------------------------------------------------------
(***************************************************************************)
(* Type correctness.                                                       *)
(***************************************************************************)
LEMMA WorldTyped ==
    ASSUME TypeOK, World
    PROVE  /\ TypeOK'
           /\ \A n \in Nodes : node[n].height <= node'[n].height
           /\ \A n \in Nodes : \A b, k : k \in Nat /\ Moved(n, b, k) => Moved(n, b, k)'
           /\ \A n \in Nodes : switches[n] <= switches'[n]
<1> DEFINE Onward == /\ \A n \in Nodes : node[n].height <= node'[n].height
                     /\ \A n \in Nodes : \A b, k : k \in Nat /\ Moved(n, b, k) => Moved(n, b, k)'
                     /\ \A n \in Nodes : switches[n] <= switches'[n]
<1>1. UNCHANGED <<mined, settings, step, asks, seen, report, began, traced, states, grown>>
  BY DEF World, history
<1>2. /\ node \in [Nodes -> Views] /\ switches \in [Nodes -> Nat] /\ index \in Views
      /\ \A n \in Nodes : node[n].branch \in Branches /\ node[n].height \in Nat
  BY DEF TypeOK, Views
<1>3. CASE \E n \in Nodes : Mine(n)
  <2>1. PICK m \in Nodes : Mine(m)
    BY <1>3
  <2>2. PICK moved : moved = [node[m] EXCEPT !.height = @ + 1]
    OBVIOUS
  <2>3. moved \in Views /\ moved.branch = node[m].branch /\ moved.height = node[m].height + 1
    BY <1>2, <2>2 DEF Views
  <2>4. node' = [node EXCEPT ![m] = moved] /\ UNCHANGED <<index, switches>>
    BY <2>1, <2>2 DEF Mine
  <2>5. node' \in [Nodes -> Views] /\ \A n \in Nodes : node'[n] = IF n = m THEN moved ELSE node[n]
    BY <1>2, <2>3, <2>4
  <2>6. \A n \in Nodes : node'[n].branch = node[n].branch /\ node[n].height <= node'[n].height
    BY <1>2, <2>3, <2>5
  <2>7. Onward
    BY <1>2, <2>4, <2>6 DEF Moved
  <2> QED
    BY <1>1, <1>2, <2>4, <2>5, <2>7 DEF TypeOK
<1>4. CASE \E n \in Nodes : Switch(n)
  <2>1. PICK m \in Nodes : Switch(m)
    BY <1>4
  <2>2. PICK b \in Branches : node' = [node EXCEPT ![m].branch = b]
    BY <2>1 DEF Switch
  <2>3. PICK moved : moved = [node[m] EXCEPT !.branch = b]
    OBVIOUS
  <2>4. moved \in Views /\ moved.branch = b /\ moved.height = node[m].height
    BY <1>2, <2>3 DEF Views
  <2>5. node' = [node EXCEPT ![m] = moved] /\ switches' = [switches EXCEPT ![m] = @ + 1] /\ UNCHANGED index
    BY <2>1, <2>2, <2>3 DEF Switch
  <2>6. /\ node' \in [Nodes -> Views] /\ \A n \in Nodes : node'[n] = IF n = m THEN moved ELSE node[n]
        /\ switches' \in [Nodes -> Nat]
        /\ \A n \in Nodes : switches'[n] = IF n = m THEN switches[n] + 1 ELSE switches[n]
    BY <1>2, <2>4, <2>5
  <2>7. \A n \in Nodes : switches[n] \in Nat /\ switches[n] <= switches'[n] /\ node[n].height <= node'[n].height
    BY <1>2, <2>4, <2>6
  <2>8. ASSUME NEW n \in Nodes, NEW c, NEW k \in Nat, Moved(n, c, k)
        PROVE  Moved(n, c, k)'
    BY <2>6, <2>7, <2>8 DEF Moved
  <2>9. Onward
    BY <2>7, <2>8
  <2> QED
    BY <1>1, <1>2, <2>5, <2>6, <2>9 DEF TypeOK
<1>5. CASE Index
  <2>1. View("public").branch \in Branches /\ View("public").height \in Nat
    BY ViewIs DEF Views
  <2>2. index' \in Views /\ UNCHANGED <<node, switches>>
    BY <1>5, <2>1 DEF Index, Views
  <2>3. Onward
    BY <1>2, <2>2 DEF Moved
  <2> QED
    BY <1>1, <1>2, <2>2, <2>3 DEF TypeOK
<1> QED
  BY <1>3, <1>4, <1>5 DEF World
-----------------------------------------------------------------------------
(***************************************************************************)
(* One comparison.                                                         *)
(***************************************************************************)
LEMMA AskTakes ==
    ASSUME TypeOK, Ask
    PROVE  /\ TypeOK'
           /\ UNCHANGED <<node, index, switches, mined, settings, step, seen, report, began, traced, states, grown>>
           /\ asks[1] \in Questions /\ Agrees(asks[1]) /\ 1 \in DOMAIN asks
           /\ \A i \in DOMAIN asks' : i \in Nat /\ i + 1 \in DOMAIN asks /\ asks'[i] = asks[i + 1]
           /\ \A i \in DOMAIN asks : i \in Nat /\ i >= 1
           /\ \A i \in DOMAIN asks : i # 1 => i - 1 \in DOMAIN asks' /\ asks'[i - 1] = asks[i]
<1>1. asks \in Seq(Questions) /\ asks # <<>> /\ asks' = Tail(asks) /\ Agrees(Head(asks))
  BY DEF TypeOK, Ask
<1>2. UNCHANGED <<node, index, switches, mined, settings, step, seen, report, began, traced, states, grown>>
  BY DEF Ask, world, history
<1>3. asks' \in Seq(Questions)
  BY <1>1, Asked
<1>4. TypeOK'
  BY <1>2, <1>3 DEF TypeOK
<1> QED
  BY <1>1, <1>2, <1>4, Asked

LEMMA AskPends ==
    ASSUME TypeOK, Ask, NEW c, NEW b
    PROVE  /\ Pend(c, b)' => Pend(c, b)
           /\ Pend(c, b) => Pend(c, b)' \/ asks[1] = Question(c, b)
<1>1. ASSUME Pend(c, b)'
      PROVE  Pend(c, b)
  BY <1>1, AskTakes DEF Pend
<1>2. ASSUME Pend(c, b), asks[1] # Question(c, b)
      PROVE  Pend(c, b)'
  <2>1. PICK i \in DOMAIN asks : asks[i] = Question(c, b)
    BY <1>2 DEF Pend
  <2>2. i - 1 \in DOMAIN asks' /\ asks'[i - 1] = Question(c, b)
    BY <1>2, <2>1, AskTakes
  <2> QED
    BY <2>2 DEF Pend
<1> QED
  BY <1>1, <1>2

LEMMA AskAnswer ==
    ASSUME TypeOK, NEW c \in ToSet(Clients) \cup {"public"}, NEW b \in Blocks, b.number > 0,
           asks[1] \in Questions, Agrees(asks[1]), asks[1] = Question(c, b)
    PROVE  node[NodeOf[c]].branch = b.branch
<1>1. asks[1].client = c /\ asks[1].block = b
  BY DEF Question
<1> QED
  BY <1>1, AgreedIs

\* Each answer that a block off the branch of the head gets past costs the
\* node another change of its branch.
LEMMA AskCounts ==
    ASSUME TypeOK, Ask, seen.head \in Blocks,
           NEW x \in Blocks, Strayed(x), seen.head.number > 0, Compared(x)
    PROVE  Compared(x)'
<1>1. /\ UNCHANGED <<node, switches, seen>> /\ Read \in Nodes /\ "read" \in ToSet(Clients)
      /\ switches[Read] \in Nat /\ asks[1] \in Questions /\ Agrees(asks[1])
  BY AskTakes, ClientFacts DEF TypeOK
<1>2. seen.head.number > 0 /\ x.number > 0 /\ x.branch # seen.head.branch
  BY DEF Strayed, Blocks, Places
<1>3. asks[1] = Question("read", seen.head) => node[Read].branch = seen.head.branch
  BY <1>1, <1>2, AskAnswer DEF Read
<1>4. asks[1] = Question("read", x) => node[Read].branch = x.branch
  BY <1>1, <1>2, AskAnswer DEF Read
<1>5. ASSUME Ahead(x)'
      PROVE  Ahead(x)
  <2>1. PICK i, j \in DOMAIN asks' :
            i < j /\ asks'[i] = Question("read", seen.head) /\ asks'[j] = Question("read", x)
    BY <1>1, <1>5 DEF Ahead
  <2>2. /\ i + 1 \in DOMAIN asks /\ j + 1 \in DOMAIN asks /\ i + 1 < j + 1
        /\ asks[i + 1] = Question("read", seen.head) /\ asks[j + 1] = Question("read", x)
    BY <2>1, AskTakes
  <2> QED
    BY <2>2 DEF Ahead
<1>6. ASSUME Ahead(x)
      PROVE  Pend("read", x)' /\ (Ahead(x)' \/ asks[1] = Question("read", seen.head))
  <2>1. PICK i, j \in DOMAIN asks :
            i < j /\ asks[i] = Question("read", seen.head) /\ asks[j] = Question("read", x)
    BY <1>6 DEF Ahead
  <2>2. i \in Nat /\ j \in Nat /\ i >= 1 /\ j # 1
    BY <2>1, AskTakes
  <2>3. j - 1 \in DOMAIN asks' /\ asks'[j - 1] = Question("read", x)
    BY <2>1, <2>2, AskTakes
  <2>4. ASSUME i # 1
        PROVE  Ahead(x)'
    <3>1. i - 1 \in DOMAIN asks' /\ asks'[i - 1] = Question("read", seen'.head) /\ i - 1 < j - 1
      BY <1>1, <2>1, <2>2, <2>4, AskTakes
    <3> QED
      BY <2>3, <3>1 DEF Ahead
  <2> QED
    BY <2>1, <2>3, <2>4 DEF Pend
<1>7. CASE Ahead(x)'
  BY <1>1, <1>5, <1>7 DEF Compared, Moved
<1>8. CASE ~Ahead(x)' /\ Pend("read", x)'
  <2>1. CASE Ahead(x)
    BY <1>1, <1>2, <1>3, <1>6, <1>8, <2>1 DEF Compared, Moved
  <2>2. CASE ~Ahead(x)
    BY <1>1, <1>8, <2>2, AskPends DEF Compared, Moved
  <2> QED
    BY <2>1, <2>2
<1>9. CASE ~Ahead(x)' /\ ~Pend("read", x)'
  <2>1. ~Ahead(x)
    BY <1>6, <1>9
  <2>2. CASE Pend("read", x)
    BY <1>1, <1>2, <1>4, <1>9, <2>1, <2>2, AskPends DEF Compared, Moved
  <2>3. CASE ~Pend("read", x)
    BY <1>1, <1>9, <2>1, <2>3 DEF Compared
  <2> QED
    BY <2>2, <2>3
<1> QED
  BY <1>7, <1>8, <1>9

LEMMA AskStep ==
    ASSUME IInv, Ask
    PROVE  IInv'
<1>1. /\ TypeOK' /\ UNCHANGED <<node, index, switches, mined, settings, step, seen, report, began, traced, states, grown>>
      /\ asks # <<>> /\ asks[1] \in Questions /\ Agrees(asks[1])
  BY AskTakes DEF IInv, Ask
<1>2. /\ Read \in Nodes /\ Tracer \in Nodes /\ {"read", "trace"} \subseteq ToSet(Clients)
      /\ switches[Read] \in Nat /\ switches[Tracer] \in Nat
  BY ClientFacts DEF IInv, TypeOK
<1>3. ShapeInv'
  BY <1>1 DEF IInv, ShapeInv, Anchored, Sampled, HasSample, HasTrace, HasReceipt, Holder, Late
<1>4. ReportInv'
  BY <1>1 DEF IInv, ReportInv, Passed, Late, Closing
<1>5. FreshInv'
  BY <1>1 DEF IInv, FreshInv, Anchored
<1>6. GenesisInv'
  <2> SUFFICES ASSUME Closing \/ Late, seen.head.number = 0, grown
               PROVE  /\ Closing
                      /\ \E c \in ToSet(Clients) :
                            node[NodeOf[c]].height > 0 /\ \E i \in DOMAIN asks' : asks'[i] = AtGenesis(c)
    BY <1>1 DEF GenesisInv, Closing, Late, AtGenesis
  <2>1. PICK c \in ToSet(Clients) :
            Closing /\ node[NodeOf[c]].height > 0 /\ \E i \in DOMAIN asks : asks[i] = AtGenesis(c)
    BY DEF IInv, GenesisInv
  <2>2. PICK i \in DOMAIN asks : asks[i] = AtGenesis(c)
    BY <2>1
  <2>3. i # 1
    <3>1. asks[1] = AtGenesis(c) => asks[1].client = c /\ asks[1].latest
      BY DEF AtGenesis
    <3>2. asks[1] = AtGenesis(c) => node[NodeOf[c]].height = 0
      BY <1>1, <3>1, AgreedIs DEF IInv
    <3> QED
      BY <2>1, <2>2, <3>2
  <2> QED
    BY <2>1, <2>2, <2>3, AskTakes DEF IInv
<1>7. AnchorInv'
  <2> SUFFICES ASSUME Anchored, seen.head.number > 0, step = "historical" => ~Pend("read", seen.head)'
               PROVE  Moved(Read, seen.head.branch, 0)
    BY <1>1 DEF AnchorInv, Anchored, Moved, Pend
  <2>1. seen.head \in Blocks
    BY DEF IInv, ShapeInv
  <2>2. asks[1] = Question("read", seen.head) => node[Read].branch = seen.head.branch
    BY <1>1, <1>2, <2>1, AskAnswer DEF IInv, Read
  <2>3. PICK h : h = seen.head
    OBVIOUS
  <2>4. Pend("read", h) => Pend("read", h)' \/ asks[1] = Question("read", h)
    BY AskPends DEF IInv
  <2> QED
    BY <1>1, <1>2, <2>2, <2>3, <2>4 DEF IInv, AnchorInv, Moved, Pend
<1>8. ASSUME NEW x \in Blocks, seen.head \in Blocks, Strayed(x), seen.head.number > 0, Compared(x)
      PROVE  Compared(x)'
  BY <1>8, AskCounts DEF IInv
<1>9. HistoricalInv'
  <2> SUFFICES ASSUME Sampled, Strayed(seen.historical)
               PROVE  HistoricalInv'
    BY <1>1 DEF HistoricalInv, Sampled, Anchored, Strayed
  <2>1. PICK x : x = seen.historical
    OBVIOUS
  <2>2. x \in Blocks /\ seen.head \in Blocks /\ seen.head.number > 0
    BY <2>1 DEF IInv, ShapeInv, Sampled, Strayed, Blocks, Places
  <2>3. /\ Early => Moved(Read, x.branch, 1)
        /\ Closing => Compared(x)
        /\ Late => switches[Read] >= 3
    BY <2>1 DEF IInv, HistoricalInv
  <2>4. Closing => Compared(x)'
    BY <1>8, <2>1, <2>2, <2>3
  <2> QED
    BY <1>1, <2>1, <2>3, <2>4
    DEF HistoricalInv, Early, Closing, Late, Sampled, Anchored, Moved, Compared, Ahead, Pend, Strayed
<1>13. StateInv'
  <2> SUFFICES ASSUME Sampled, NEW b \in states, Strayed(b)
               PROVE  Unnoticed(b)'
    BY <1>1 DEF IInv, StateInv, Sampled, Anchored, Strayed
  <2>1. PICK h : h = seen.head
    OBVIOUS
  <2>2. b \in Blocks /\ h \in Blocks /\ b.number = seen.historical.number
    BY <2>1 DEF IInv, TypeOK, ShapeInv, StateInv, Sampled
  <2>3. h.number > 0
    BY <2>1, <2>2 DEF IInv, ShapeInv, Strayed, Blocks, Places
  <2>4. asks[1] = Question("read", h) => node[Read].branch = h.branch
    BY <1>1, <1>2, <2>2, <2>3, AskAnswer DEF IInv, Read
  <2>5. Pend("read", h)' => Pend("read", h)
    BY AskPends DEF IInv
  <2>6. Pend("read", h) => Pend("read", h)' \/ asks[1] = Question("read", h)
    BY AskPends DEF IInv
  <2>7. Unnoticed(b) /\ b.branch # h.branch
    BY <2>1 DEF IInv, StateInv, Strayed
  <2>8. /\ Early => Moved(Read, b.branch, 1)
        /\ Closing /\ Pend("read", h)' => Moved(Read, b.branch, 1)
        /\ (Closing /\ ~Pend("read", h)') \/ Late => switches[Read] >= 2
    BY <1>2, <2>1, <2>4, <2>5, <2>6, <2>7 DEF Unnoticed, Moved
  <2> QED
    BY <1>1, <2>1, <2>8 DEF Unnoticed, Early, Closing, Late, Sampled, Anchored, Moved, Pend
<1>10. SampleInv'
  <2> SUFFICES ASSUME HasSample, Strayed(seen.sample)
               PROVE  SampleInv'
    BY <1>1 DEF SampleInv, HasSample, Late, Strayed
  <2>1. PICK x : x = seen.sample
    OBVIOUS
  <2>2. x \in Blocks /\ seen.head \in Blocks /\ seen.head.number > 0
    BY <2>1 DEF IInv, ShapeInv, HasSample, Holder, Anchored, Late, Blocks, Places
  <2>3. /\ Early => Moved(Read, x.branch, 1)
        /\ Closing => Compared(x)
        /\ Late => switches[Read] >= 3
    BY <2>1 DEF IInv, SampleInv
  <2>4. Closing => Compared(x)'
    BY <1>8, <2>1, <2>2, <2>3
  <2> QED
    BY <1>1, <2>1, <2>3, <2>4
    DEF SampleInv, Early, Closing, Late, Sampled, Anchored, Moved, Compared, Ahead, Pend, Strayed
<1>11. ReceiptInv'
  <2> SUFFICES ASSUME HasReceipt, Strayed(seen.receipt)
               PROVE  ReceiptInv'
    BY <1>1 DEF ReceiptInv, HasReceipt, Strayed
  <2>1. PICK x : x = seen.receipt
    OBVIOUS
  <2>2. x \in Blocks /\ seen.head \in Blocks
    BY <2>1 DEF IInv, ShapeInv, HasReceipt, Holder, Anchored
  <2>5. step = "verdict" => seen.head.number > 0
    BY <2>2 DEF IInv, ShapeInv, HasReceipt, HasSample, Late, Holder, Blocks, Places
  <2>3. /\ step = "verdict" => Compared(x)
        /\ step = "checked" => switches[Read] >= 3
    BY <2>1 DEF IInv, ReceiptInv
  <2>4. step = "verdict" => Compared(x)'
    BY <1>8, <2>1, <2>2, <2>3, <2>5
  <2> QED
    BY <1>1, <2>1, <2>3, <2>4 DEF ReceiptInv, Compared, Moved, Ahead, Pend
<1>12. TraceInv'
  <2> SUFFICES ASSUME HasSample
               PROVE  TraceInv'
    BY <1>1 DEF TraceInv, HasTrace, HasSample, Late
  <2>1. PICK s : s = seen.sample
    OBVIOUS
  <2>2. s \in Blocks /\ s.number > 0
    BY <2>1 DEF IInv, ShapeInv, Holder
  <2>3. asks[1] = Question("trace", s) => node[Tracer].branch = s.branch
    BY <1>1, <1>2, <2>2, AskAnswer DEF IInv, Tracer
  <2>4. /\ Pend("trace", s)' => Pend("trace", s)
        /\ Pend("trace", s) => Pend("trace", s)' \/ asks[1] = Question("trace", s)
    BY AskPends DEF IInv
  <2>5. /\ step = "trace" /\ ~Pend("trace", s) => Moved(Tracer, s.branch, 0)
        /\ HasTrace /\ traced.branch # s.branch =>
             /\ step = "block" => Moved(Tracer, traced.branch, 1)
             /\ Closing /\ Pend("trace", s) => Moved(Tracer, traced.branch, 1)
             /\ (Closing /\ ~Pend("trace", s)) \/ Late => switches[Tracer] >= 2
    BY <2>1 DEF IInv, TraceInv
  <2>6. step = "trace" /\ ~Pend("trace", s)' => Moved(Tracer, s.branch, 0)
    BY <1>2, <2>3, <2>4, <2>5 DEF Moved
  <2>7. HasTrace /\ traced.branch # s.branch =>
             /\ step = "block" => Moved(Tracer, traced.branch, 1)
             /\ Closing /\ Pend("trace", s)' => Moved(Tracer, traced.branch, 1)
             /\ (Closing /\ ~Pend("trace", s)') \/ Late => switches[Tracer] >= 2
    BY <1>2, <2>3, <2>4, <2>5 DEF Moved
  <2> QED
    BY <1>1, <2>1, <2>6, <2>7 DEF TraceInv, HasTrace, HasSample, Closing, Late, Moved, Pend
<1> QED
  BY <1>1, <1>3, <1>4, <1>5, <1>6, <1>7, <1>9, <1>10, <1>11, <1>12, <1>13 DEF IInv

\* Nodes that mine or change their branch undo nothing that was counted.
LEMMA WorldStep ==
    ASSUME IInv, World
    PROVE  IInv'
<1>1. /\ TypeOK /\ TypeOK' /\ Read \in Nodes /\ Tracer \in Nodes
      /\ UNCHANGED <<mined, settings, step, asks, seen, report, began, traced, states, grown>>
      /\ \A n \in Nodes : node[n].height \in Nat /\ node'[n].height \in Nat /\ began[n] \in Nat
      /\ \A n \in Nodes : switches[n] \in Nat /\ switches'[n] \in Nat
  <2>1. TypeOK /\ TypeOK'
    BY WorldTyped DEF IInv
  <2> QED
    BY <2>1, ClientFacts DEF World, history, TypeOK, Views
<1>2. /\ \A n \in Nodes : node[n].height <= node'[n].height
      /\ \A n \in Nodes : \A b, k : k \in Nat /\ Moved(n, b, k) => Moved(n, b, k)'
      /\ \A n \in Nodes : switches[n] <= switches'[n]
  BY WorldTyped DEF IInv
<1>3. ShapeInv' /\ ReportInv' /\ GenesisInv'
  <2>1. ShapeInv'
    BY <1>1 DEF IInv, ShapeInv, Anchored, Sampled, HasSample, HasTrace, HasReceipt, Holder, Late
  <2>2. ReportInv'
    BY <1>1 DEF IInv, ReportInv, Passed, Late, Closing
  <2>3. GenesisInv'
    <3> SUFFICES ASSUME Closing \/ Late, seen.head.number = 0, grown
                 PROVE  GenesisInv'
      BY <1>1 DEF GenesisInv, Closing, Late
    <3>1. PICK c \in ToSet(Clients) :
              Closing /\ node[NodeOf[c]].height > 0 /\ \E i \in DOMAIN asks : asks[i] = AtGenesis(c)
      BY DEF IInv, GenesisInv
    <3>2. NodeOf[c] \in Nodes
      BY ClientFacts
    <3>3. node'[NodeOf[c]].height > 0
      BY <1>1, <1>2, <3>1, <3>2
    <3> QED
      BY <1>1, <3>1, <3>3 DEF GenesisInv, Closing, Late, AtGenesis
  <2> QED
    BY <2>1, <2>2, <2>3
<1>4. FreshInv'
  BY <1>1, <1>2 DEF IInv, FreshInv, Anchored
<1>5. \A n \in Nodes : \A b :
        /\ Moved(n, b, 0) => Moved(n, b, 0)'
        /\ Moved(n, b, 1) => Moved(n, b, 1)'
        /\ Moved(n, b, 2) => Moved(n, b, 2)'
  BY <1>2
<1>6. \A n \in Nodes : /\ switches[n] >= 2 => switches'[n] >= 2
                       /\ switches[n] >= 3 => switches'[n] >= 3
  BY <1>1, <1>2
<1>7. PICK h : h = seen.head
  OBVIOUS
<1>8. ASSUME NEW x, Compared(x)
      PROVE  Compared(x)'
  <2>1. (Ahead(x)' <=> Ahead(x)) /\ (Pend("read", x)' <=> Pend("read", x))
    BY <1>1 DEF Ahead, Pend
  <2>2. /\ Moved(Read, x.branch, 1) => Moved(Read, x.branch, 1)'
        /\ Moved(Read, h.branch, 2) => Moved(Read, h.branch, 2)'
    BY <1>1, <1>5
  <2>3. Moved(Read, seen.head.branch, 2) => Moved(Read, seen.head.branch, 2)'
    BY <1>1, <1>7, <2>2 DEF Moved
  <2> QED
    BY <1>1, <1>6, <1>8, <2>1, <2>2, <2>3 DEF Compared
<1>9. AnchorInv'
  <2>1. Moved(Read, h.branch, 0) => Moved(Read, h.branch, 0)'
    BY <1>1, <1>5
  <2> QED
    BY <1>1, <1>7, <2>1 DEF IInv, AnchorInv, Anchored, Pend, Moved
<1>10. HistoricalInv'
  <2>1. PICK x : x = seen.historical
    OBVIOUS
  <2>2. Moved(Read, x.branch, 1) => Moved(Read, x.branch, 1)'
    BY <1>1, <1>5
  <2>3. Moved(Read, seen.historical.branch, 1) => Moved(Read, seen.historical.branch, 1)'
    BY <1>1, <2>1, <2>2 DEF Moved
  <2>4. Compared(seen.historical) => Compared(seen.historical)'
    BY <1>1, <1>8, <2>1 DEF Compared, Moved, Ahead, Pend
  <2> QED
    BY <1>1, <1>6, <2>3, <2>4 DEF IInv, HistoricalInv, Early, Closing, Late, Sampled, Anchored, Strayed
<1>14. StateInv'
  <2> SUFFICES ASSUME Sampled, NEW b \in states, Strayed(b)
               PROVE  Unnoticed(b)'
    BY <1>1 DEF IInv, StateInv, Sampled, Anchored, Strayed
  <2>1. Moved(Read, b.branch, 1) => Moved(Read, b.branch, 1)'
    BY <1>1, <1>5
  <2>2. Unnoticed(b)
    BY DEF IInv, StateInv
  <2> QED
    BY <1>1, <1>6, <2>1, <2>2 DEF Unnoticed, Early, Closing, Late, Sampled, Anchored, Pend
<1>11. SampleInv'
  <2>1. PICK x : x = seen.sample
    OBVIOUS
  <2>2. Moved(Read, x.branch, 1) => Moved(Read, x.branch, 1)'
    BY <1>1, <1>5
  <2>3. Moved(Read, seen.sample.branch, 1) => Moved(Read, seen.sample.branch, 1)'
    BY <1>1, <2>1, <2>2 DEF Moved
  <2>4. Compared(seen.sample) => Compared(seen.sample)'
    BY <1>1, <1>8, <2>1 DEF Compared, Moved, Ahead, Pend
  <2> QED
    BY <1>1, <1>6, <2>3, <2>4
    DEF IInv, SampleInv, HasSample, Early, Closing, Late, Sampled, Anchored, Strayed
<1>12. ReceiptInv'
  <2>1. PICK x : x = seen.receipt
    OBVIOUS
  <2>2. Compared(seen.receipt) => Compared(seen.receipt)'
    BY <1>1, <1>8, <2>1 DEF Compared, Moved, Ahead, Pend
  <2> QED
    BY <1>1, <1>6, <2>2 DEF IInv, ReceiptInv, HasReceipt, Strayed
<1>13. TraceInv'
  <2>1. PICK s, t : s = seen.sample /\ t = traced
    OBVIOUS
  <2>2. /\ Moved(Tracer, s.branch, 0) => Moved(Tracer, s.branch, 0)'
        /\ Moved(Tracer, t.branch, 1) => Moved(Tracer, t.branch, 1)'
    BY <1>1, <1>5
  <2>3. /\ Moved(Tracer, seen.sample.branch, 0) => Moved(Tracer, seen.sample.branch, 0)'
        /\ Moved(Tracer, traced.branch, 1) => Moved(Tracer, traced.branch, 1)'
    BY <1>1, <2>1, <2>2 DEF Moved
  <2>4. Pend("trace", seen.sample)' <=> Pend("trace", seen.sample)
    BY <1>1 DEF Pend
  <2> QED
    BY <1>1, <1>6, <2>3, <2>4 DEF IInv, TraceInv, HasTrace, HasSample, Closing, Late
<1> QED
  BY <1>1, <1>3, <1>4, <1>9, <1>10, <1>11, <1>12, <1>13, <1>14 DEF IInv
-----------------------------------------------------------------------------
(***************************************************************************)
(* The steps of the preflight.                                             *)
(***************************************************************************)
LEMMA BeginStep ==
    ASSUME IInv, Begin
    PROVE  IInv'
<1>1. /\ step = "begin" /\ step' = "pin" /\ asks' = <<>>
      /\ UNCHANGED <<node, index, switches, mined, settings, seen, report, traced, states, grown>>
      /\ began' = [n \in Nodes |-> node[n].height]
  BY DEF Begin, At, Goto, world, history
<1>2. TypeOK /\ \A n \in Nodes : node[n].height \in Nat
  BY DEF IInv, TypeOK, Views
<1>3. "pin" \in Steps /\ <<>> \in Seq(Questions)
  BY DEF Steps
<1>4. TypeOK'
  BY <1>1, <1>2, <1>3 DEF TypeOK
<1>5. ShapeInv' /\ ReportInv' /\ GenesisInv'
  BY <1>1
  DEF IInv, ShapeInv, ReportInv, Passed, GenesisInv, Anchored, Sampled, HasSample, HasTrace, HasReceipt, Closing, Late
<1>6. FreshInv'
  BY <1>1, <1>2 DEF FreshInv, Anchored
<1>7. AnchorInv' /\ HistoricalInv' /\ StateInv' /\ SampleInv' /\ ReceiptInv' /\ TraceInv'
  BY <1>1
  DEF IInv, AnchorInv, HistoricalInv, StateInv, SampleInv, ReceiptInv, TraceInv, Anchored, Sampled, HasSample, HasTrace, HasReceipt, Late
<1> QED
  BY <1>4, <1>5, <1>6, <1>7 DEF IInv

LEMMA PinStep ==
    ASSUME IInv, Pin
    PROVE  IInv'
<1>1. PICK head : head = Latest(View(Pinned))
  OBVIOUS
<1>2. /\ step = "pin" /\ step' = "historical" /\ asks' = Same(Clients, head)
      /\ UNCHANGED <<node, index, switches, mined, settings, report, began, traced, states, grown>>
      /\ seen' = [seen EXCEPT !.head = head]
  BY <1>1 DEF Pin, At, Goto, world, history
<1>3. Pinned \in ToSet(Clients) /\ ("reference" \in ToSet(Clients) => Pinned = "reference")
  BY ClientFacts DEF Pinned
<1>4. TypeOK /\ head \in Blocks /\ head.number = node[NodeOf[Pinned]].height
  BY <1>1, <1>3, ViewIs DEF IInv
<1>5. seen' \in Readings /\ seen'.head = head
  <2>1. seen \in Readings
    BY <1>4 DEF TypeOK
  <2> QED
    BY <1>2, <1>4, <2>1 DEF Readings
<1>6. /\ asks' \in Seq(Questions) /\ 1 \in DOMAIN asks' /\ asks'[1] = Question("read", head)
  <2>1. Clients \in Seq(ToSet(Clients) \cup {"public"})
    BY ClientFacts, SeqMonotonic
  <2>2. asks' \in Seq(Questions) /\ Len(asks') = Len(Clients) /\ \A i \in 1..Len(Clients) : asks'[i] = Question(Clients[i], head)
    BY <1>2, <1>4, <2>1, SameIs
  <2>3. 1 \in 1..Len(Clients) /\ Clients[1] = "read"
    BY ClientFacts
  <2> QED
    BY <2>2, <2>3
<1>7. "historical" \in Steps
  BY DEF Steps
<1>8. TypeOK'
  BY <1>2, <1>4, <1>5, <1>6, <1>7 DEF TypeOK
<1>9. ShapeInv' /\ ReportInv' /\ GenesisInv'
  BY <1>2, <1>4, <1>5
  DEF IInv, ShapeInv, ReportInv, Passed, GenesisInv, Anchored, Sampled, HasSample, HasTrace, HasReceipt, Closing, Late
<1>10. FreshInv'
  <2>1. NodeOf[Pinned] \in Nodes /\ \A n \in Nodes : began[n] <= node[n].height
    BY <1>2, <1>3, <1>4, ViewIs DEF IInv, FreshInv
  <2> QED
    BY <1>2, <1>3, <1>4, <1>5, <2>1 DEF FreshInv, Anchored
<1>11. AnchorInv' /\ HistoricalInv' /\ StateInv' /\ SampleInv' /\ ReceiptInv' /\ TraceInv'
  BY <1>2, <1>5, <1>6
  DEF IInv, AnchorInv, HistoricalInv, StateInv, SampleInv, ReceiptInv, TraceInv, Anchored, Sampled, HasSample, HasTrace, HasReceipt, Late, Pend
<1> QED
  BY <1>8, <1>9, <1>10, <1>11 DEF IInv

LEMMA HistoricalStep ==
    ASSUME IInv, Historical
    PROVE  IInv'
<1>1. PICK height, block :
          /\ height = SampleHeight
          /\ block = BlockOn(View("read").branch, height)
  OBVIOUS
<1>2. /\ step = "historical" /\ asks = <<>> /\ step' = "balance" /\ asks' = <<>>
      /\ UNCHANGED <<node, index, switches, mined, settings, report, began, traced, states, grown>>
      /\ seen' = [seen EXCEPT !.historical = block, !.sample = seen.head]
  BY <1>1 DEF Historical, At, Goto, world, history
<1>3. /\ TypeOK /\ seen \in Readings /\ seen.head \in Blocks /\ seen.head.number \in Nat
      /\ Read \in Nodes /\ View("read") = node[Read] /\ node[Read].branch \in Branches /\ switches[Read] \in Nat
  BY <1>2, ClientFacts, ViewIs DEF IInv, TypeOK, ShapeInv, Anchored, Blocks, Places, Read, Views
<1>4. height \in Nat /\ height <= seen.head.number
  <2>1. settings.historical_block \in Nat \cup {None} /\ Depth \in Nat
    BY <1>3, ChecksAssumption DEF TypeOK, ChecksAssumption
  <2> QED
    BY <1>1, <1>2, <1>3, <2>1 DEF Historical, SampleHeight
<1>5. block \in Blocks /\ block.number = height /\ (height > 0 => block.branch = node[Read].branch)
  BY <1>1, <1>3, <1>4, BlockOnIs
<1>6. /\ seen' \in Readings /\ seen'.head = seen.head /\ seen'.historical = block
      /\ seen'.sample = seen.head /\ seen.head \in Places
  BY <1>2, <1>3, <1>5 DEF Readings, Blocks
<1>7. "balance" \in Steps /\ <<>> \in Seq(Questions)
  BY DEF Steps
<1>8. TypeOK'
  BY <1>2, <1>3, <1>6, <1>7 DEF TypeOK
<1>9. ShapeInv' /\ ReportInv' /\ GenesisInv'
  BY <1>2, <1>3, <1>4, <1>5, <1>6
  DEF IInv, ShapeInv, ReportInv, Passed, GenesisInv, Anchored, Sampled, HasSample, HasTrace, HasReceipt, Closing, Late
<1>10. FreshInv'
  BY <1>2, <1>6 DEF IInv, FreshInv, Anchored
<1>11. seen.head.number > 0 => Moved(Read, seen.head.branch, 0)
  BY <1>2 DEF IInv, AnchorInv, Anchored, Pend
<1>12. AnchorInv'
  BY <1>2, <1>6, <1>11 DEF AnchorInv, Moved
<1>13. HistoricalInv'
  <2> SUFFICES ASSUME block.number > 0, block.branch # seen.head.branch
               PROVE  Moved(Read, block.branch, 1)
    BY <1>2, <1>6 DEF HistoricalInv, Strayed, Closing, Late, Moved
  <2> QED
    BY <1>3, <1>4, <1>5, <1>11 DEF Moved
<1>15. StateInv'
  BY <1>2 DEF IInv, StateInv
<1>14. SampleInv' /\ ReceiptInv' /\ TraceInv'
  BY <1>2 DEF SampleInv, ReceiptInv, TraceInv, HasSample, HasTrace, HasReceipt, Late, Closing
<1> QED
  BY <1>8, <1>9, <1>10, <1>12, <1>13, <1>14, <1>15 DEF IInv

\* A step whose answers leave the head and the historical block as they are.
LEMMA EarlyStep ==
    ASSUME IInv, TypeOK', Early, Early', step' # "historical",
           UNCHANGED <<node, switches, mined, settings, report, began, grown>>,
           seen'.head = seen.head, seen'.historical = seen.historical
    PROVE  ReportInv' /\ FreshInv' /\ GenesisInv' /\ AnchorInv' /\ HistoricalInv' /\ ReceiptInv'
<1>1. ReportInv' /\ GenesisInv' /\ FreshInv'
  BY DEF IInv, ReportInv, Passed, GenesisInv, FreshInv, Early, Sampled, Anchored, Late, Closing
<1>2. AnchorInv'
  BY DEF IInv, AnchorInv, Early, Sampled, Anchored, Moved
<1>3. HistoricalInv'
  BY DEF IInv, HistoricalInv, Early, Closing, Late, Strayed, Moved
<1>4. ReceiptInv'
  BY DEF ReceiptInv, HasReceipt, Early, Late
<1> QED
  BY <1>1, <1>2, <1>3, <1>4

LEMMA StatesStay ==
    ASSUME IInv, Early, Early', step # "balance", step' \notin {"historical", "balance"},
           UNCHANGED <<node, switches, states>>,
           seen'.head = seen.head, seen'.historical = seen.historical
    PROVE  StateInv'
<1>1. /\ Sampled /\ Sampled' /\ ~Closing /\ ~Closing' /\ ~Late /\ ~Late'
      /\ step' \notin {"begin", "pin", "historical", "balance"}
  BY DEF Early, Sampled, Anchored
<1>2. /\ states # {} /\ \A b \in states : b.number = seen.historical.number
      /\ \A b \in states : Strayed(b) => Unnoticed(b)
  BY <1>1 DEF IInv, StateInv
<1> QED
  BY <1>1, <1>2 DEF StateInv, Unnoticed, Strayed, Moved

LEMMA StateStep ==
    ASSUME IInv, State
    PROVE  IInv'
<1>1. PICK block : block = BlockOn(View("read").branch, seen.historical.number)
  OBVIOUS
<1>2. /\ step \in {"balance", "code", "call"} /\ step' \in {"code", "call", "search"}
      /\ asks = <<>> /\ asks' = <<>> /\ states' = states \cup {block}
      /\ UNCHANGED <<node, index, switches, mined, settings, seen, report, began, traced, grown>>
  BY <1>1 DEF State, At, Goto, world
<1>3. /\ TypeOK /\ seen.head \in Blocks /\ seen.head.number \in Nat
      /\ seen.historical \in Blocks /\ seen.historical.number \in Nat
      /\ seen.historical.number <= seen.head.number
      /\ Read \in Nodes /\ View("read") = node[Read] /\ node[Read].branch \in Branches /\ switches[Read] \in Nat
  BY <1>2, ClientFacts, ViewIs
  DEF IInv, TypeOK, ShapeInv, Sampled, Anchored, Blocks, Places, Read, Views
<1>4. /\ block \in Blocks /\ block.number = seen.historical.number
      /\ block.number > 0 => block.branch = node[Read].branch
  BY <1>1, <1>3, BlockOnIs
<1>5. step' \in Steps /\ asks' \in Seq(Questions)
  <2>1. <<>> \in Seq(Questions)
    OBVIOUS
  <2> QED
    BY <1>2, <2>1 DEF Steps
<1>6. TypeOK'
  BY <1>2, <1>3, <1>4, <1>5 DEF TypeOK
<1>7. ShapeInv'
  BY <1>2, <1>3 DEF IInv, ShapeInv, Anchored, Sampled, HasSample, HasTrace, HasReceipt, Late
<1>8. Early /\ Early' /\ Sampled /\ Sampled' /\ ~Closing' /\ ~Late'
  BY <1>2 DEF Early, Sampled, Anchored, Closing, Late
<1>9. StateInv'
  <2>1. /\ \A b \in states : b.number = seen.historical.number
        /\ \A b \in states : Strayed(b) => Moved(Read, b.branch, 1)
    BY <1>8 DEF IInv, StateInv, Unnoticed
  <2>2. Strayed(block) => Moved(Read, block.branch, 1)
    <3>1. seen.head.number > 0 => Moved(Read, seen.head.branch, 0)
      BY <1>2 DEF IInv, AnchorInv, Anchored
    <3> QED
      BY <1>3, <1>4, <3>1 DEF Moved, Strayed
  <2>3. \A b \in states' : Strayed(b) => Moved(Read, b.branch, 1)
    BY <1>2, <2>1, <2>2
  <2>4. \A b \in states' : b.number = seen.historical.number
    BY <1>2, <1>4, <2>1
  <2> QED
    BY <1>2, <1>8, <2>3, <2>4 DEF StateInv, Unnoticed, Strayed, Moved
<1>10. SampleInv' /\ TraceInv'
  BY <1>2 DEF SampleInv, TraceInv, HasSample, HasTrace, Late
<1> QED
  BY <1>2, <1>6, <1>7, <1>8, <1>9, <1>10, EarlyStep DEF IInv

LEMMA SearchStep ==
    ASSUME IInv, Search
    PROVE  IInv'
<1>1. PICK number, block : number = seen.sample.number /\ block = BlockOn(View("read").branch, number)
  OBVIOUS
<1>2. /\ step = "search" /\ asks = <<>>
      /\ UNCHANGED <<node, index, switches, mined, settings, report, began, traced, states, grown>>
  BY DEF Search, At, world, history
<1>3. /\ TypeOK /\ seen \in Readings /\ seen.head \in Blocks /\ seen.head.number \in Nat
      /\ seen.sample \in Places /\ number \in Nat /\ number <= seen.head.number
      /\ seen.historical \in Blocks /\ seen.historical.number <= seen.head.number
  BY <1>1, <1>2 DEF IInv, TypeOK, ShapeInv, Sampled, Anchored, Blocks, Places
<1>4. block.number = number
  BY <1>1, <1>3, ViewIs, ClientFacts, BlockOnIs DEF Views
<1>5. \/ step' = "receipt" /\ asks' = <<>> /\ UNCHANGED seen
      \/ step' = "search" /\ asks' = <<>> /\ number # 0 /\ seen' = [seen EXCEPT !.sample.number = number - 1]
      \/ step' = "pending" /\ asks' = <<>> /\ seen' = [seen EXCEPT !.sample = None]
  BY <1>1, <1>2, <1>4 DEF Search, Goto, TransactionIn
<1>6. /\ seen' \in Readings /\ seen'.head = seen.head /\ seen'.historical = seen.historical
      /\ step' \in {"search", "receipt"} => seen'.sample \in Places /\ seen'.sample.number <= seen.head.number
      /\ step' = "pending" => seen'.sample = None
  <2>1. CASE step' = "receipt"
    BY <1>1, <1>3, <1>5, <2>1
  <2>2. CASE step' = "search"
    <3>1. PICK p : p = [seen.sample EXCEPT !.number = number - 1]
      OBVIOUS
    <3>2. number - 1 \in Nat /\ number - 1 <= seen.head.number
      BY <1>3, <1>5, <2>2
    <3>3. p \in Places /\ p.number = number - 1
      BY <1>3, <3>1, <3>2 DEF Places
    <3>4. seen' = [seen EXCEPT !.sample = p]
      BY <1>5, <2>2, <3>1
    <3>5. /\ seen' \in Readings /\ seen'.head = seen.head /\ seen'.historical = seen.historical
          /\ seen'.sample = p
      BY <1>3, <3>3, <3>4 DEF Readings
    <3> QED
      BY <2>2, <3>2, <3>3, <3>5
  <2>3. CASE step' = "pending"
    BY <1>3, <1>5, <2>3 DEF Readings
  <2>4. step' \in {"receipt", "search", "pending"}
    BY <1>5
  <2> QED
    BY <2>1, <2>2, <2>3, <2>4
<1>7. step' \in Steps /\ asks' \in Seq(Questions)
  <2>1. step' \in {"receipt", "search", "pending"} /\ asks' = <<>>
    BY <1>5
  <2> QED
    BY <2>1 DEF Steps
<1>8. TypeOK'
  BY <1>2, <1>3, <1>6, <1>7 DEF TypeOK
<1>9. ShapeInv'
  BY <1>2, <1>3, <1>5, <1>6 DEF ShapeInv, Anchored, Sampled, HasSample, HasTrace, HasReceipt, Late
<1>10. Early /\ Early'
  BY <1>2, <1>5 DEF Early, Sampled, Anchored, Closing, Late
<1>11. SampleInv' /\ TraceInv'
  BY <1>5 DEF SampleInv, TraceInv, HasSample, HasTrace, Late
<1>12. StateInv'
  BY <1>2, <1>5, <1>6, <1>10, StatesStay
<1> QED
  BY <1>2, <1>5, <1>6, <1>8, <1>9, <1>10, <1>11, <1>12, EarlyStep DEF IInv

LEMMA PendingStep ==
    ASSUME IInv, Pending
    PROVE  IInv'
<1>1. /\ step = "pending" /\ asks = <<>> /\ step' = "ready" /\ asks' = ReadyComparisons
      /\ UNCHANGED <<node, index, switches, mined, settings, seen, report, began, traced, states>>
      /\ grown' = \E c \in ToSet(Clients) : View(c).height > 0
  BY DEF Pending, At, Goto, world
<1>2. TypeOK /\ seen.head \in Blocks /\ seen.historical \in Blocks /\ seen.sample = None
  BY <1>1 DEF IInv, ShapeInv, Sampled, Anchored
<1>3. /\ asks' \in Seq(Questions)
      /\ Follows(asks', Question("read", seen.historical))
      /\ seen.head.number = 0 =>
           \A c \in ToSet(Clients) : \E i \in DOMAIN asks' : asks'[i] = AtGenesis(c)
  BY <1>1, <1>2, ReadyList
<1>4. "ready" \in Steps
  BY DEF Steps
<1>5. TypeOK'
  BY <1>1, <1>2, <1>3, <1>4 DEF TypeOK
<1>6. ShapeInv' /\ ReportInv'
  BY <1>1, <1>2
  DEF IInv, ShapeInv, ReportInv, Passed, Anchored, Sampled, HasSample, HasTrace, HasReceipt, Closing, Late
<1>7. FreshInv' /\ AnchorInv'
  BY <1>1 DEF IInv, FreshInv, AnchorInv, Anchored, Moved
<1>8. GenesisInv'
  <2>1. grown' => \E c \in ToSet(Clients) : node[NodeOf[c]].height > 0
    BY <1>1 DEF View
  <2> QED
    BY <1>1, <1>3, <2>1 DEF GenesisInv, Closing, AtGenesis
<1>9. HistoricalInv'
  <2>1. Strayed(seen.historical) => Moved(Read, seen.historical.branch, 1)
    BY <1>1 DEF IInv, HistoricalInv, Sampled, Anchored, Early, Closing, Late
  <2>2. Ahead(seen.historical)'
    BY <1>1, <1>3 DEF Ahead, Follows
  <2> QED
    BY <1>1, <2>1, <2>2 DEF HistoricalInv, Early, Closing, Late, Strayed, Moved, Compared
<1>11. StateInv'
  <2>1. Pend("read", seen.head)'
    BY <1>1, <1>3 DEF Follows, Pend
  <2>2. /\ states # {} /\ \A b \in states : b.number = seen.historical.number
        /\ \A b \in states : Strayed(b) => Moved(Read, b.branch, 1)
    BY <1>1 DEF IInv, StateInv, Unnoticed, Sampled, Anchored, Early, Closing, Late
  <2> QED
    BY <1>1, <2>1, <2>2 DEF StateInv, Unnoticed, Early, Closing, Late, Strayed, Moved
<1>10. SampleInv' /\ ReceiptInv' /\ TraceInv'
  BY <1>1 DEF SampleInv, ReceiptInv, TraceInv, HasSample, HasTrace, HasReceipt, Late
<1> QED
  BY <1>5, <1>6, <1>7, <1>8, <1>9, <1>10, <1>11 DEF IInv

LEMMA SampleStep ==
    ASSUME IInv, Sample
    PROVE  IInv'
<1>1. /\ asks = <<>> /\ step \in {"receipt", "canonical"}
      /\ UNCHANGED <<node, index, switches, mined, settings, report, began, traced, states, grown>>
  BY DEF Sample, At, world, history
<1>2. /\ TypeOK /\ seen \in Readings /\ seen.head \in Blocks /\ seen.head.number \in Nat
      /\ "read" \in ToSet(Clients) \cup {"public"} /\ "trace" \in ToSet(Clients) \cup {"public"}
      /\ Read \in Nodes /\ View("read") = node[Read] /\ View("read") \in Views
      /\ node[Read].branch \in Branches /\ switches[Read] \in Nat
  BY <1>1, ClientFacts, ViewIs DEF IInv, TypeOK, ShapeInv, Anchored, Blocks, Places, Read, Views
<1>3. CASE step = "receipt"
  <2>1. /\ step' = "canonical" /\ asks' = <<>> /\ Receipt(View("read")) # None
        /\ seen' = [seen EXCEPT !.sample = Receipt(View("read"))]
    BY <1>3 DEF Sample, At, Goto
  <2>2. Holder(Receipt(View("read"))) /\ Receipt(View("read")) \in Places
    BY <1>2, <2>1, ReceiptIs DEF Holder, Blocks
  <2>3. /\ seen' \in Readings /\ seen'.head = seen.head /\ seen'.historical = seen.historical
        /\ Holder(seen'.sample)
    BY <1>2, <2>1, <2>2 DEF Readings
  <2>4. step' \in Steps /\ asks' \in Seq(Questions)
    BY <2>1 DEF Steps
  <2>5. TypeOK'
    BY <1>1, <1>2, <2>3, <2>4 DEF TypeOK
  <2>6. ShapeInv'
    BY <1>1, <1>2, <1>3, <2>1, <2>3
    DEF IInv, ShapeInv, Anchored, Sampled, HasSample, HasTrace, HasReceipt, Late, Holder
  <2>7. Early /\ Early'
    BY <1>3, <2>1 DEF Early, Sampled, Anchored, Closing, Late
  <2>8. SampleInv' /\ TraceInv'
    BY <2>1 DEF SampleInv, TraceInv, HasSample, HasTrace, Late
  <2> QED
    <3>1. StateInv'
      BY <1>1, <1>3, <2>1, <2>3, <2>7, StatesStay
    <3> QED
      BY <1>1, <2>1, <2>3, <2>5, <2>6, <2>7, <2>8, <3>1, EarlyStep DEF IInv
<1>4. CASE step = "canonical"
  <2>1. /\ step' = "trace" /\ asks' = Same(<<"trace">>, seen.sample) /\ UNCHANGED seen
        /\ BlockOn(View("read").branch, seen.sample.number) = seen.sample
        /\ seen.sample.number <= seen.head.number
    BY <1>4 DEF Sample, At, Goto
  <2>2. Holder(seen.sample) /\ seen.sample \in Blocks /\ seen.sample.number \in Nat /\ seen.sample.number > 0
    BY <1>4 DEF IInv, ShapeInv, Holder, Blocks, Places
  <2>3. seen.sample.branch = node[Read].branch
    BY <1>2, <2>1, <2>2, BlockOnIs
  <2>4. /\ asks' \in Seq(Questions) /\ Len(asks') = 1 /\ asks'[1] = Question("trace", seen.sample)
    BY <1>2, <2>1, <2>2, OneClient
  <2>5. step' \in Steps
    BY <2>1 DEF Steps
  <2>6. TypeOK'
    BY <1>1, <1>2, <2>1, <2>4, <2>5 DEF TypeOK
  <2>7. ShapeInv'
    BY <1>1, <1>2, <1>4, <2>1, <2>2
    DEF IInv, ShapeInv, Anchored, Sampled, HasSample, HasTrace, HasReceipt, Late, Holder
  <2>8. Early /\ Early'
    BY <1>4, <2>1 DEF Early, Sampled, Anchored, Closing, Late
  <2>9. SampleInv'
    <3>1. Moved(Read, seen.head.branch, 0)
      <4>1. seen.head.number > 0
        BY <1>2, <2>1, <2>2
      <4> QED
        BY <1>4, <4>1 DEF IInv, AnchorInv, Anchored
    <3>2. Strayed(seen.sample) => Moved(Read, seen.sample.branch, 1)
      BY <1>2, <2>3, <3>1 DEF Moved, Strayed
    <3> QED
      BY <1>1, <2>1, <2>8, <3>2 DEF SampleInv, Early, Strayed, Moved
  <2>10. TraceInv'
    <3>1. 1 \in DOMAIN asks'
      BY <2>4
    <3> QED
      BY <2>1, <2>4, <3>1 DEF TraceInv, HasTrace, HasSample, Late, Pend
  <2> QED
    <3>1. StateInv'
      BY <1>1, <1>4, <2>1, <2>8, StatesStay
    <3> QED
      BY <1>1, <2>1, <2>6, <2>7, <2>8, <2>9, <2>10, <3>1, EarlyStep DEF IInv
<1> QED
  BY <1>1, <1>3, <1>4

LEMMA TraceStep ==
    ASSUME IInv, Trace
    PROVE  IInv'
<1>1. /\ asks = <<>> /\ step \in {"trace", "block"} /\ ~Pend("trace", seen.sample)
      /\ UNCHANGED <<node, index, switches, mined, settings, seen, report, began, states, grown>>
  BY DEF Trace, At, world, history, Pend
<1>2. /\ TypeOK /\ seen.head \in Blocks /\ seen.historical \in Blocks
      /\ Holder(seen.sample) /\ seen.sample \in Blocks /\ seen.sample.number <= seen.head.number
      /\ seen.sample.number > 0 /\ seen.sample.number \in Nat /\ seen.head.number \in Nat
      /\ Tracer \in Nodes /\ View("trace") = node[Tracer] /\ View("trace") \in Views
      /\ switches[Tracer] \in Nat
  BY <1>1, ClientFacts, ViewIs
  DEF IInv, TypeOK, ShapeInv, Anchored, Sampled, HasSample, Holder, Blocks, Places, Tracer
<1>3. Strayed(seen.sample) => Moved(Read, seen.sample.branch, 1)
  BY <1>1 DEF IInv, SampleInv, HasSample, Early, Sampled, Anchored, Closing, Late
<1>4. CASE step = "trace"
  <2>1. /\ step' = "block" /\ asks' = <<>> /\ Receipt(View("trace")) # None /\ traced' = Receipt(View("trace"))
    BY <1>4 DEF Trace, At, Goto
  <2>2. Holder(traced') /\ traced'.branch = node[Tracer].branch /\ traced' \in Blocks
    BY <1>2, <2>1, ReceiptIs DEF Holder
  <2>3. step' \in Steps /\ asks' \in Seq(Questions)
    BY <2>1 DEF Steps
  <2>4. TypeOK'
    BY <1>1, <1>2, <2>2, <2>3 DEF TypeOK
  <2>5. Holder(traced)'
    BY <1>1, <2>2 DEF Holder
  <2>6. ShapeInv'
    BY <1>1, <1>2, <1>4, <2>1, <2>5
    DEF IInv, ShapeInv, Anchored, Sampled, HasSample, HasTrace, HasReceipt, Late, Holder
  <2>7. Early /\ Early'
    BY <1>4, <2>1 DEF Early, Sampled, Anchored, Closing, Late
  <2>8. SampleInv'
    BY <1>1, <1>3, <2>1, <2>7 DEF SampleInv, Early, Strayed, Moved
  <2>9. TraceInv'
    <3>1. Moved(Tracer, seen.sample.branch, 0)
      BY <1>1, <1>4 DEF IInv, TraceInv
    <3>2. traced'.branch # seen.sample.branch => Moved(Tracer, traced.branch, 1)'
      BY <1>1, <1>2, <2>2, <3>1 DEF Moved
    <3> QED
      BY <1>1, <2>1, <3>2 DEF TraceInv, HasTrace, HasSample, Closing, Late
  <2> QED
    <3>1. StateInv'
      BY <1>1, <1>4, <2>1, <2>7, StatesStay
    <3> QED
      BY <1>1, <2>1, <2>4, <2>6, <2>7, <2>8, <2>9, <3>1, EarlyStep DEF IInv
<1>5. CASE step = "block"
  <2>1. /\ step' = "passed" /\ UNCHANGED traced
        /\ asks' = FinalComparisons(Same(<<"read">>, seen.sample) \o Same(<<"trace">>, seen.sample))
    BY <1>5 DEF Trace, At, Goto
  <2>2. /\ asks' \in Seq(Questions)
        /\ Follows(asks', Question("read", seen.historical))
        /\ Follows(asks', Question("read", seen.sample)) /\ Follows(asks', Question("trace", seen.sample))
    <3>1. PICK l : l = FinalComparisons(Same(<<"read">>, seen.sample) \o Same(<<"trace">>, seen.sample))
      OBVIOUS
    <3> QED
      BY <1>2, <2>1, <3>1, PassedList
  <2>3. step' \in Steps
    BY <2>1 DEF Steps
  <2>4. TypeOK'
    BY <1>1, <1>2, <2>1, <2>2, <2>3 DEF TypeOK
  <2>5. ShapeInv'
    BY <1>1, <1>2, <1>5, <2>1
    DEF IInv, ShapeInv, Anchored, Sampled, HasSample, HasTrace, HasReceipt, Late, Holder
  <2>6. ReportInv' /\ FreshInv' /\ AnchorInv' /\ ReceiptInv'
    BY <1>1, <1>5, <2>1
    DEF IInv, ReportInv, Passed, FreshInv, AnchorInv, ReceiptInv, HasReceipt, Anchored, Late, Closing, Moved
  <2>7. GenesisInv'
    BY <1>1, <1>2 DEF GenesisInv
  <2>8. Ahead(seen.historical)' /\ Ahead(seen.sample)' /\ Pend("trace", seen.sample)'
    BY <1>1, <2>2 DEF Ahead, Follows, Pend
  <2>9. HistoricalInv'
    <3>1. Strayed(seen.historical) => Moved(Read, seen.historical.branch, 1)
      BY <1>5 DEF IInv, HistoricalInv, Sampled, Anchored, Early, Closing, Late
    <3> QED
      BY <1>1, <2>1, <2>8, <3>1 DEF HistoricalInv, Early, Closing, Late, Strayed, Moved, Compared
  <2>12. StateInv'
    <3>1. Pend("read", seen.head)'
      BY <1>1, <2>2 DEF Follows, Pend
    <3>2. /\ states # {} /\ \A b \in states : b.number = seen.historical.number
          /\ \A b \in states : Strayed(b) => Moved(Read, b.branch, 1)
      BY <1>5 DEF IInv, StateInv, Unnoticed, Sampled, Anchored, Early, Closing, Late
    <3> QED
      BY <1>1, <2>1, <3>1, <3>2 DEF StateInv, Unnoticed, Early, Closing, Late, Strayed, Moved
  <2>10. SampleInv'
    BY <1>1, <1>3, <2>1, <2>8 DEF SampleInv, Early, Closing, Late, Strayed, Moved, Compared
  <2>11. TraceInv'
    <3>1. traced.branch # seen.sample.branch => Moved(Tracer, traced.branch, 1)
      BY <1>5 DEF IInv, TraceInv, HasTrace, HasSample
    <3> QED
      BY <1>1, <2>1, <2>8, <3>1 DEF TraceInv, HasTrace, HasSample, Closing, Late, Moved
  <2> QED
    BY <2>4, <2>5, <2>6, <2>7, <2>9, <2>10, <2>11, <2>12 DEF IInv
<1> QED
  BY <1>1, <1>4, <1>5
-----------------------------------------------------------------------------
(***************************************************************************)
(* The steps that report, and that check a path.                           *)
(***************************************************************************)
LEMMA ReportStep ==
    ASSUME IInv, Report
    PROVE  IInv'
<1>1. /\ step \in {"passed", "ready"} /\ asks = <<>>
      /\ report' \in {"PREFLIGHT_PASSED", "genesis_only", "no_recent_transaction_sample"}
      /\ UNCHANGED <<node, index, switches, mined, settings, step, asks, seen, began, traced, states, grown>>
  BY DEF Report, At, world, history
<1>2. TypeOK'
  BY <1>1 DEF IInv, TypeOK, Statuses
<1>3. ShapeInv' /\ FreshInv' /\ GenesisInv'
  BY <1>1
  DEF IInv, ShapeInv, FreshInv, GenesisInv, AtGenesis, Anchored, Sampled, HasSample, HasTrace, HasReceipt,
      Closing, Late, Holder
<1>4. ReportInv'
  BY <1>1 DEF ReportInv, Closing
<1>5. AnchorInv' /\ HistoricalInv' /\ StateInv' /\ SampleInv' /\ ReceiptInv' /\ TraceInv'
  BY <1>1
  DEF IInv, AnchorInv, HistoricalInv, StateInv, Unnoticed, SampleInv, ReceiptInv, TraceInv, Anchored, Sampled, HasSample, HasTrace,
      HasReceipt, Early, Closing, Late, Strayed, Compared, Ahead, Pend, Moved
<1> QED
  BY <1>2, <1>3, <1>4, <1>5 DEF IInv

\* All comparisons were made: what was counted stays, whatever is asked next.
LEMMA CloseStep ==
    ASSUME IInv, TypeOK', step \in {"passed", "ready"}, asks = <<>>, step' \in {"started", "indexed"},
           UNCHANGED <<node, switches, mined, settings, seen, report, began, traced, states, grown>>
    PROVE  IInv'
<1>1. /\ Closing /\ Late' /\ ~Early /\ ~Early' /\ ~Closing'
      /\ Anchored /\ Anchored' /\ Sampled /\ Sampled' /\ ~HasReceipt'
  BY DEF Closing, Late, Early, Anchored, Sampled, HasReceipt
<1>2. (HasSample' <=> HasSample) /\ (HasTrace' <=> HasSample)
  <2>1. step = "ready" => seen.sample = None
    BY DEF IInv, ShapeInv
  <2>2. step = "passed" => Holder(seen.sample) /\ seen.sample # None
    BY NoneIsNoBlock DEF IInv, ShapeInv, HasSample, Holder
  <2> QED
    BY <2>1, <2>2 DEF HasSample, HasTrace, Late
<1>3. \A x : ~Ahead(x) /\ ~Pend("read", x) /\ ~Pend("trace", x)
  BY DEF Ahead, Pend
<1>4. HasTrace <=> HasSample
  BY DEF HasTrace
<1>5. ShapeInv'
  BY <1>1, <1>2, <1>4 DEF IInv, ShapeInv, Holder
<1>6. ReportInv'
  BY <1>1 DEF IInv, ReportInv, Closing, Late, Passed
<1>7. FreshInv' /\ AnchorInv'
  BY <1>1 DEF IInv, FreshInv, AnchorInv, Moved
<1>8. GenesisInv'
  <2>1. ~\E i \in DOMAIN asks : TRUE
    OBVIOUS
  <2> QED
    BY <1>1, <2>1 DEF IInv, GenesisInv
<1>9. HistoricalInv' /\ SampleInv' /\ ReceiptInv'
  <2>1. Strayed(seen.historical) => switches[Read] >= 3
    BY <1>1, <1>3 DEF IInv, HistoricalInv, Compared
  <2>2. HasSample /\ Strayed(seen.sample) => switches[Read] >= 3
    BY <1>1, <1>3 DEF IInv, SampleInv, Compared
  <2> QED
    BY <1>1, <1>2, <2>1, <2>2 DEF HistoricalInv, SampleInv, ReceiptInv, Strayed
<1>11. StateInv'
  <2>1. /\ states # {} /\ \A b \in states : b.number = seen.historical.number
        /\ \A b \in states : Strayed(b) => switches[Read] >= 2
    BY <1>1, <1>3 DEF IInv, StateInv, Unnoticed
  <2> QED
    BY <1>1, <2>1 DEF StateInv, Unnoticed, Strayed
<1>10. TraceInv'
  <2>1. HasSample /\ traced.branch # seen.sample.branch => switches[Tracer] >= 2
    BY <1>1, <1>3, <1>4 DEF IInv, TraceInv
  <2> QED
    BY <1>1, <1>2, <2>1 DEF TraceInv
<1> QED
  BY <1>5, <1>6, <1>7, <1>8, <1>9, <1>10, <1>11 DEF IInv

LEMMA RelayStep ==
    ASSUME IInv, Relay
    PROVE  IInv'
<1>1. /\ step \in {"passed", "ready"} /\ asks = <<>> /\ step' = "started"
      /\ asks' = Same(<<"read", "trace", "broadcast">>, seen.head)
      /\ UNCHANGED <<node, index, switches, mined, settings, seen, report, began, traced, states, grown>>
  BY DEF Relay, At, Goto, world, history
<1>2. seen.head \in Blocks
  BY <1>1 DEF IInv, ShapeInv, Anchored
<1>3. <<"read", "trace", "broadcast">> \in Seq(ToSet(Clients) \cup {"public"})
  BY ClientFacts
<1>4. asks' \in Seq(Questions) /\ step' \in Steps
  BY <1>1, <1>2, <1>3, SameIs DEF Steps
<1>5. TypeOK'
  BY <1>1, <1>4 DEF IInv, TypeOK
<1> QED
  BY <1>1, <1>5, CloseStep

LEMMA ProbeStep ==
    ASSUME IInv, Probe
    PROVE  IInv'
<1>1. /\ step \in {"passed", "ready"} /\ asks = <<>> /\ step' = "indexed"
      /\ asks' = Same(<<"public">>, seen.head)
      /\ UNCHANGED <<node, index, switches, mined, settings, seen, report, began, traced, states, grown>>
  BY DEF Probe, At, Goto, world, history
<1>2. seen.head \in Blocks
  BY <1>1 DEF IInv, ShapeInv, Anchored
<1>3. asks' \in Seq(Questions) /\ step' \in Steps
  BY <1>1, <1>2, OneClient DEF Steps
<1>4. TypeOK'
  BY <1>1, <1>3 DEF IInv, TypeOK
<1> QED
  BY <1>1, <1>4, CloseStep

\* A step of the path's own check: nothing that the preflight found changes.
LEMMA LateStep ==
    ASSUME IInv, TypeOK', Late, Late', UNCHANGED <<node, switches, mined, settings, began, traced, states, grown>>,
           seen'.head = seen.head, seen'.historical = seen.historical, seen'.sample = seen.sample
    PROVE  FreshInv' /\ GenesisInv' /\ AnchorInv' /\ HistoricalInv' /\ StateInv' /\ SampleInv' /\ TraceInv'
<1>1. /\ ~Early /\ ~Early' /\ ~Closing /\ ~Closing'
      /\ Anchored /\ Anchored' /\ Sampled /\ Sampled' /\ step # "historical" /\ step' # "historical"
      /\ step # "begin" /\ step # "trace" /\ step' # "trace" /\ step # "block" /\ step' # "block"
      /\ (HasSample' <=> HasSample) /\ (HasTrace' <=> HasTrace)
  BY DEF Closing, Late, Early, Anchored, Sampled, HasSample, HasTrace
<1>2. FreshInv' /\ AnchorInv'
  BY <1>1 DEF IInv, FreshInv, AnchorInv, Moved
<1>3. GenesisInv'
  BY <1>1 DEF IInv, GenesisInv
<1>4. HistoricalInv' /\ SampleInv'
  BY <1>1 DEF IInv, HistoricalInv, SampleInv, Strayed
<1>5. TraceInv'
  BY <1>1 DEF IInv, TraceInv
<1>6. StateInv'
  <2>1. step' \notin {"begin", "pin", "historical", "balance"} /\ step # "balance"
    BY DEF Late
  <2> QED
    BY <1>1, <2>1 DEF IInv, StateInv, Unnoticed, Strayed
<1> QED
  BY <1>2, <1>3, <1>4, <1>5, <1>6

LEMMA IndexedStep ==
    ASSUME IInv, Indexed
    PROVE  IInv'
<1> DEFINE all == <<"public">> \o Clients
<1>1. /\ step = "indexed" /\ asks = <<>>
      /\ UNCHANGED <<node, index, switches, mined, settings, seen, report, began, traced, states, grown>>
      /\ \/ /\ seen.sample = None /\ step' = "verdict"
            /\ asks' = Same(all, seen.head) \o SameGenesisHead(all, seen.head)
         \/ seen.sample # None /\ step' = "published" /\ asks' = <<>>
  BY DEF Indexed, At, Goto, world, history
<1>2. seen.head \in Blocks
  BY <1>1 DEF IInv, ShapeInv, Anchored
<1>3. all \in Seq(ToSet(Clients) \cup {"public"})
  <2>1. <<"public">> \in Seq(ToSet(Clients) \cup {"public"}) /\ Clients \in Seq(ToSet(Clients) \cup {"public"})
    BY ClientFacts, SeqMonotonic
  <2> QED
    BY <2>1, ConcatProperties
<1>4. Same(all, seen.head) \o SameGenesisHead(all, seen.head) \in Seq(Questions)
  <2> HIDE DEF all
  <2>1. Same(all, seen.head) \in Seq(Questions) /\ SameGenesisHead(all, seen.head) \in Seq(Questions)
    BY <1>2, <1>3, SameIs, GenesisHeadIs
  <2> QED
    BY <2>1, Joined
<1> HIDE DEF all
<1>5. asks' \in Seq(Questions) /\ step' \in {"verdict", "published"} /\ step' \in Steps
  <2>1. CASE step' = "verdict"
    BY <1>1, <1>4, <2>1, Zenon DEF Steps
  <2>2. CASE step' = "published"
    <3>1. asks' = <<>>
      BY <1>1, <2>2
    <3> QED
      BY <2>2, <3>1 DEF Steps
  <2> QED
    BY <1>1, <2>1, <2>2
<1>6. TypeOK'
  BY <1>1, <1>5 DEF IInv, TypeOK
<1>7. Late /\ Late'
  BY <1>1 DEF Late
<1>8. ShapeInv'
  BY <1>1, <1>7 DEF IInv, ShapeInv, Anchored, Sampled, HasSample, HasTrace, HasReceipt, Holder
<1>9. ReportInv'
  BY <1>1, <1>7 DEF IInv, ReportInv, Passed
<1>10. ReceiptInv'
  BY <1>1 DEF ReceiptInv, HasReceipt
<1> QED
  BY <1>1, <1>6, <1>7, <1>8, <1>9, <1>10, LateStep DEF IInv

\* What follows the head in a list does so in a longer one.
LEMMA FollowsOn ==
    ASSUME NEW s \in Seq(Questions), NEW t \in Seq(Questions), NEW question, Follows(s, question)
    PROVE  Follows(s \o t, question)
<1>1. PICK i, j \in DOMAIN s : i < j /\ s[i] = Question("read", seen.head) /\ s[j] = question
  BY DEF Follows
<1>2. i \in 1..Len(s) /\ j \in 1..Len(s)
  OBVIOUS
<1> QED
  BY <1>1, <1>2, Joined DEF Follows

\* The last list of a sampled path asks read for the head, then the receipt.
LEMMA VerdictList ==
    ASSUME seen.head \in Blocks, seen.receipt \in Blocks,
           NEW client \in ToSet(Clients) \cup {"public"}
    PROVE  /\ Same(<<client>>, seen.head) \o Same(<<client>>, seen.receipt) \in Seq(Questions)
           /\ client = "read" =>
                Follows(Same(<<client>>, seen.head) \o Same(<<client>>, seen.receipt), Question("read", seen.receipt))
<1> DEFINE a == Same(<<client>>, seen.head)
           b == Same(<<client>>, seen.receipt)
<1>1. /\ a \in Seq(Questions) /\ Len(a) = 1 /\ a[1] = Question(client, seen.head)
      /\ b \in Seq(Questions) /\ Len(b) = 1 /\ b[1] = Question(client, seen.receipt)
  BY OneClient
<1> HIDE DEF a, b
<1>3. 1 \in 1..Len(a) /\ 1 \in 1..Len(b) /\ Len(a) + 1 = 2
  BY <1>1
<1>4. /\ a \o b \in Seq(Questions)
      /\ 1 \in DOMAIN (a \o b) /\ (a \o b)[1] = a[1]
      /\ Len(a) + 1 \in DOMAIN (a \o b) /\ (a \o b)[Len(a) + 1] = b[1]
  BY <1>1, <1>3, Joined
<1>5. /\ 1 \in DOMAIN (a \o b) /\ (a \o b)[1] = Question(client, seen.head)
      /\ 2 \in DOMAIN (a \o b) /\ (a \o b)[2] = Question(client, seen.receipt) /\ 1 < 2
  BY <1>1, <1>3, <1>4
<1>6. client = "read" => Follows(a \o b, Question("read", seen.receipt))
  BY <1>5 DEF Follows
<1> QED
  BY <1>4, <1>6 DEF a, b

LEMMA PublishedStep ==
    ASSUME IInv, Published
    PROVE  IInv'
<1>1. /\ asks = <<>> /\ step \in {"published", "transaction", "source"}
      /\ UNCHANGED <<node, index, switches, mined, settings, report, began, traced, states, grown>>
  BY DEF Published, At, world, history
<1>2. /\ TypeOK /\ seen \in Readings /\ seen.head \in Blocks /\ seen.sample # None
      /\ {"read", "public"} \subseteq ToSet(Clients) \cup {"public"}
      /\ View("public") \in Views /\ View("read") \in Views /\ View("read") = node[Read]
      /\ Read \in Nodes /\ switches[Read] \in Nat
  BY <1>1, ClientFacts, ViewIs DEF IInv, TypeOK, ShapeInv, Anchored, Read
<1>3. Late
  BY <1>1 DEF Late
<1>5. CASE step = "published"
  <2>1. /\ step' = "transaction" /\ asks' = <<>> /\ Receipt(View("public")) # None
        /\ seen' = [seen EXCEPT !.receipt = Receipt(View("public"))]
    BY <1>5 DEF Published, At, Goto
  <2>2. Holder(Receipt(View("public"))) /\ Receipt(View("public")) \in Blocks
    BY <1>2, <2>1, ReceiptIs DEF Holder
  <2>3. /\ seen' \in Readings /\ seen'.head = seen.head /\ seen'.historical = seen.historical
        /\ seen'.sample = seen.sample /\ Holder(seen'.receipt)
    BY <1>2, <2>1, <2>2 DEF Readings
  <2>4. step' \in Steps /\ asks' \in Seq(Questions) /\ Late'
    BY <2>1 DEF Steps, Late
  <2>5. TypeOK'
    BY <1>1, <1>2, <2>3, <2>4 DEF TypeOK
  <2>6. ShapeInv'
    BY <1>1, <1>2, <1>3, <1>5, <2>1, <2>3, <2>4
    DEF IInv, ShapeInv, Anchored, Sampled, HasSample, HasTrace, HasReceipt, Holder
  <2>7. ReportInv'
    BY <1>1, <1>3, <1>5, <2>4 DEF IInv, ReportInv, Passed
  <2>8. ReceiptInv'
    BY <2>1 DEF ReceiptInv
  <2> QED
    BY <1>1, <1>3, <2>3, <2>4, <2>5, <2>6, <2>7, <2>8, LateStep DEF IInv
<1>6. CASE step = "transaction"
  <2>1. step' = "source" /\ asks' = Same(<<"public">>, seen.receipt) /\ UNCHANGED seen
    BY <1>6 DEF Published, At, Goto
  <2>2. Holder(seen.receipt) /\ seen.receipt \in Blocks
    BY <1>6 DEF IInv, ShapeInv, HasReceipt, Holder
  <2>3. step' \in Steps /\ asks' \in Seq(Questions) /\ Late'
    BY <2>1, <2>2, OneClient DEF Steps, Late
  <2>4. TypeOK'
    BY <1>1, <1>2, <2>1, <2>3 DEF TypeOK
  <2>5. ShapeInv'
    BY <1>1, <1>2, <1>3, <1>6, <2>1, <2>2, <2>3
    DEF IInv, ShapeInv, Anchored, Sampled, HasSample, HasTrace, HasReceipt, Holder
  <2>6. ReportInv'
    BY <1>1, <1>3, <1>6, <2>3 DEF IInv, ReportInv, Passed
  <2>7. ReceiptInv'
    BY <2>1 DEF ReceiptInv
  <2> QED
    BY <1>1, <1>3, <2>1, <2>3, <2>4, <2>5, <2>6, <2>7, LateStep DEF IInv
<1>7. CASE step = "source"
  <2> DEFINE Both(client) == Same(<<client>>, seen.head) \o Same(<<client>>, seen.receipt)
             more == IF "reference" \in ToSet(Clients) THEN Both("reference") ELSE <<>>
             last == Same(<<"public">>, seen.head)
  <2>1. /\ step' = "verdict" /\ UNCHANGED seen /\ Receipt(View("read")) = seen.receipt
        /\ asks' = Both("read") \o more \o last
    BY <1>7 DEF Published, At, Goto
  <2>2. Holder(seen.receipt) /\ seen.receipt \in Blocks
    BY <1>7 DEF IInv, ShapeInv, HasReceipt, Holder
  <2>3. Both("read") \in Seq(Questions) /\ Follows(Both("read"), Question("read", seen.receipt))
    BY <1>2, <2>2, VerdictList
  <2>4. more \in Seq(Questions) /\ last \in Seq(Questions)
    <3>1. last \in Seq(Questions) /\ <<>> \in Seq(Questions)
      BY <1>2, OneClient
    <3>2. "reference" \in ToSet(Clients) => Both("reference") \in Seq(Questions)
      BY <1>2, <2>2, VerdictList
    <3> QED
      BY <3>1, <3>2
  <2> HIDE DEF Both, more, last
  <2>5. asks' \in Seq(Questions) /\ Follows(asks', Question("read", seen.receipt))
    <3>1. /\ Both("read") \o more \in Seq(Questions)
          /\ Follows(Both("read") \o more, Question("read", seen.receipt))
      BY <2>3, <2>4, Joined, FollowsOn
    <3>2. /\ (Both("read") \o more) \o last \in Seq(Questions)
          /\ Follows((Both("read") \o more) \o last, Question("read", seen.receipt))
      BY <2>4, <3>1, Joined, FollowsOn
    <3> QED
      BY <2>1, <3>2
  <2>6. step' \in Steps /\ Late'
    BY <2>1 DEF Steps, Late
  <2>7. TypeOK'
    BY <1>1, <1>2, <2>1, <2>6, <2>5 DEF TypeOK
  <2>8. ShapeInv'
    BY <1>1, <1>2, <1>3, <1>7, <2>1, <2>2, <2>6
    DEF IInv, ShapeInv, Anchored, Sampled, HasSample, HasTrace, HasReceipt, Holder
  <2>9. ReportInv'
    BY <1>1, <1>3, <1>7, <2>6 DEF IInv, ReportInv, Passed
  <2>10. Strayed(seen.receipt) => Moved(Read, seen.receipt.branch, 1)
    <3>1. Holder(seen.sample) /\ seen.sample.number <= seen.head.number
      BY <1>2, <1>3 DEF IInv, ShapeInv, HasSample
    <3>2. seen.head.number > 0
      BY <1>2, <3>1 DEF Holder, Blocks, Places
    <3>3. Moved(Read, seen.head.branch, 0)
      BY <1>7, <3>2 DEF IInv, AnchorInv, Anchored
    <3>4. seen.receipt.branch = node[Read].branch
      BY <1>2, <2>1, <2>2, NoneIsNoBlock, ReceiptIs
    <3> QED
      BY <1>2, <3>3, <3>4 DEF Moved, Strayed
  <2>11. ReceiptInv'
    <3>1. Ahead(seen.receipt)'
      BY <2>1, <2>5 DEF Ahead, Follows
    <3>2. step' # "checked"
      BY <2>1
    <3> QED
      BY <1>1, <2>1, <2>10, <3>1, <3>2 DEF ReceiptInv, Strayed, Compared, Moved
  <2> QED
    BY <1>1, <1>3, <2>1, <2>6, <2>7, <2>8, <2>9, <2>11, LateStep DEF IInv
<1> QED
  BY <1>1, <1>5, <1>6, <1>7

LEMMA VerdictStep ==
    ASSUME IInv, Verdict
    PROVE  IInv'
<1>1. /\ step = "verdict" /\ asks = <<>> /\ step' = "checked" /\ asks' = <<>>
      /\ UNCHANGED <<node, index, switches, mined, settings, seen, began, traced, states, grown>>
      /\ report' \in {"CHECK_FAILED", "CHECKED_NO_TRANSACTION_SAMPLE", "CHECKED"}
      /\ report' = "CHECKED" => seen.sample # None
  BY DEF Verdict, At, Goto, world, history
<1>2. step' \in Steps /\ asks' \in Seq(Questions) /\ report' \in Statuses /\ Late /\ Late'
  BY <1>1 DEF Steps, Statuses, Late
<1>3. TypeOK'
  BY <1>1, <1>2 DEF IInv, TypeOK
<1>4. ShapeInv'
  BY <1>1, <1>2 DEF IInv, ShapeInv, Anchored, Sampled, HasSample, HasTrace, HasReceipt, Holder
<1>5. ReportInv'
  BY <1>1, <1>2 DEF ReportInv
<1>6. ReceiptInv'
  <2>1. ~Ahead(seen.receipt) /\ ~Pend("read", seen.receipt)
    BY <1>1 DEF Ahead, Pend
  <2>2. HasReceipt /\ Strayed(seen.receipt) => switches[Read] >= 3
    BY <1>1, <2>1 DEF IInv, ReceiptInv, Compared
  <2> QED
    BY <1>1, <2>2 DEF ReceiptInv, HasReceipt, Strayed
<1> QED
  BY <1>1, <1>2, <1>3, <1>4, <1>5, <1>6, LateStep DEF IInv

LEMMA FailStep ==
    ASSUME IInv, Fail
    PROVE  IInv'
<1>1. /\ step' = "failed" /\ asks' = <<>> /\ report' = "CHECK_FAILED" /\ seen' = NothingSeen
      /\ UNCHANGED <<node, index, switches, mined, settings, began, traced, states, grown>>
  BY DEF Fail, Goto, world, history
<1>2. step' \in Steps /\ asks' \in Seq(Questions) /\ report' \in Statuses /\ seen' \in Readings
  BY <1>1 DEF Steps, Statuses, Readings, NothingSeen
<1>3. TypeOK'
  BY <1>1, <1>2 DEF IInv, TypeOK
<1>4. ShapeInv' /\ ReportInv' /\ GenesisInv'
  BY <1>1
  DEF ShapeInv, ReportInv, GenesisInv, Passed, Anchored, Sampled, HasSample, HasTrace, HasReceipt, Closing, Late
<1>5. AnchorInv' /\ HistoricalInv' /\ StateInv' /\ SampleInv' /\ ReceiptInv' /\ TraceInv'
  BY <1>1
  DEF AnchorInv, HistoricalInv, StateInv, SampleInv, ReceiptInv, TraceInv, Anchored, Sampled, HasSample, HasTrace, HasReceipt, Late
<1>6. FreshInv'
  BY <1>1 DEF IInv, FreshInv, Anchored
<1> QED
  BY <1>3, <1>4, <1>5, <1>6 DEF IInv
-----------------------------------------------------------------------------
(***************************************************************************)
(* The invariant, and what it says of a report.                            *)
(***************************************************************************)
LEMMA InitInv == Init => IInv
<1> SUFFICES ASSUME Init
             PROVE  IInv
  OBVIOUS
<1>1. /\ step = "begin" /\ asks = <<>> /\ report = "none" /\ seen = NothingSeen /\ traced = None /\ states = {} /\ grown = FALSE
      /\ switches = [n \in Nodes |-> 0] /\ began = [n \in Nodes |-> 0]
  BY DEF Init
<1>2. node \in [Nodes -> Views] /\ \A n \in Nodes : node[n].height \in Nat
  <2>1. {0, MaxHeight - 1} \subseteq Nat
    BY ChecksAssumption DEF ChecksAssumption
  <2>2. [branch : Branches, height : {0, MaxHeight - 1}] \subseteq Views
    BY <2>1 DEF Views
  <2>3. node \in [Nodes -> [branch : Branches, height : {0, MaxHeight - 1}]]
    BY DEF Init
  <2>4. node \in [Nodes -> Views]
    BY <2>2, <2>3
  <2> QED
    BY <2>4 DEF Views
<1>3. index \in Views
  <2>1. Read \in Nodes
    BY ClientFacts
  <2>2. node[Read].branch \in Branches
    BY <1>2, <2>1 DEF Views
  <2>3. (CHOOSE b \in Branches : TRUE) \in Branches
    BY <2>2
  <2> QED
    BY <2>3 DEF Init, Views
<1>4. mined \in [Branches -> Nat]
  <2>1. mined \in [Branches -> 0..MaxHeight] /\ 0..MaxHeight \subseteq Nat
    BY ChecksAssumption DEF Init, ChecksAssumption
  <2> QED
    BY <2>1
<1>5. seen \in Readings /\ switches \in [Nodes -> Nat] /\ began \in [Nodes -> Nat]
  BY <1>1 DEF Readings, NothingSeen
<1>11. settings \in [historical_block : Nat \cup {None}, transaction : BOOLEAN]
  BY ChecksAssumption DEF Init, ChecksAssumption
<1>6. step \in Steps /\ report \in Statuses /\ asks \in Seq(Questions)
  BY <1>1 DEF Steps, Statuses
<1>7. TypeOK
  BY <1>1, <1>2, <1>3, <1>4, <1>5, <1>6, <1>11 DEF TypeOK
<1>8. ShapeInv /\ ReportInv /\ GenesisInv
  BY <1>1
  DEF ShapeInv, ReportInv, GenesisInv, Passed, Anchored, Sampled, HasSample, HasTrace, HasReceipt, Closing, Late
<1>9. FreshInv
  BY <1>1, <1>2 DEF FreshInv, Anchored
<1>10. AnchorInv /\ HistoricalInv /\ StateInv /\ SampleInv /\ ReceiptInv /\ TraceInv
  BY <1>1
  DEF AnchorInv, HistoricalInv, StateInv, SampleInv, ReceiptInv, TraceInv, Anchored, Sampled, HasSample, HasTrace, HasReceipt, Late
<1> QED
  BY <1>7, <1>8, <1>9, <1>10 DEF IInv

LEMMA Inductive == IInv /\ [Next]_vars => IInv'
<1> SUFFICES ASSUME IInv, [Next]_vars
             PROVE  IInv'
  OBVIOUS
<1>1. CASE World
  BY <1>1, WorldStep
<1>2. CASE Ask
  BY <1>2, AskStep
<1>3. CASE Preflight
  BY <1>3, BeginStep, PinStep, HistoricalStep, StateStep, SearchStep, PendingStep, SampleStep, TraceStep DEF Preflight
<1>4. CASE Report \/ Relay \/ Probe
  BY <1>4, ReportStep, RelayStep, ProbeStep
<1>5. CASE Indexed \/ Published \/ Verdict
  BY <1>5, IndexedStep, PublishedStep, VerdictStep
<1>6. CASE Fail
  BY <1>6, FailStep
<1>7. CASE UNCHANGED vars
  BY <1>7
  DEF vars, world, history, IInv, TypeOK, ShapeInv, ReportInv, Passed, FreshInv, GenesisInv, AtGenesis, AnchorInv,
      HistoricalInv, StateInv, Unnoticed, SampleInv, ReceiptInv, TraceInv, Anchored, Sampled, HasSample, HasTrace, HasReceipt,
      Early, Closing, Late, Holder, Strayed, Compared, Ahead, Pend, Moved
<1> QED
  BY <1>1, <1>2, <1>3, <1>4, <1>5, <1>6, <1>7 DEF Next

\* Every state of a run of the checks satisfies the counting invariant.
LEMMA Invariance == Spec => []IInv
<1> QED
  BY InitInv, Inductive, PTL DEF Spec

\* The variables have their types: what was read is a block or None, the
\* questions still to ask are of known clients.
THEOREM TypeCorrect == Spec => []TypeOK
<1>1. IInv => TypeOK
  BY DEF IInv
<1> QED
  BY <1>1, Invariance, PTL

\* A block on the branch of a head, no higher than it, is on its chain.
LEMMA OnChain ==
    ASSUME NEW b \in Blocks, NEW h \in Blocks, b.number <= h.number, b.number > 0 => b.branch = h.branch
    PROVE  Descends(b, h)
<1>1. b.number \in Nat /\ b = [branch |-> b.branch, number |-> b.number]
  BY DEF Blocks, Places
<1> QED
  BY <1>1 DEF Descends, BlockOn, Blocks, Genesis

\* What a passed preflight reports (public_checks.preflight) is of one chain:
\* the sampled blocks unless the node that is read changed its branch three
\* times, the state unless it did so twice, the trace unless its node did.
THEOREM PassedCoherent == Spec => []PassedIsCoherent
<1>1. ASSUME IInv
      PROVE  PassedIsCoherent
  <2> SUFFICES ASSUME Passed, switches[Read] <= 2
               PROVE  /\ Descends(seen.historical, seen.head)
                      /\ switches[Read] <= 1 => states = {seen.historical}
                      /\ seen.sample # None => Descends(seen.sample, seen.head)
                      /\ seen.sample # None /\ switches[Tracer] <= 1 => traced = seen.sample
    BY DEF PassedIsCoherent, Switches, Read, Tracer
  <2>1. /\ Late \/ (Closing /\ asks = <<>>)
        /\ TypeOK /\ switches[Read] \in Nat /\ switches[Tracer] \in Nat
    BY <1>1, ClientFacts DEF IInv, ReportInv, TypeOK
  <2>2. /\ Sampled /\ Anchored /\ ~Early /\ step \notin {"trace", "block"}
        /\ seen.head \in Blocks /\ seen.historical \in Blocks
        /\ seen.historical.number <= seen.head.number
    BY <1>1, <2>1 DEF IInv, ShapeInv, Sampled, Anchored, Early, Late, Closing
  <2>3. \A x : Closing => ~Ahead(x) /\ ~Pend("read", x) /\ ~Pend("trace", x)
    BY <2>1 DEF Ahead, Pend, Closing, Late
  <2>4. ~Strayed(seen.historical)
    BY <1>1, <2>1, <2>2, <2>3 DEF IInv, HistoricalInv, Compared, Closing, Late
  <2>5. Descends(seen.historical, seen.head)
    <3>1. seen.historical.number > 0 => seen.historical.branch = seen.head.branch
      BY <2>4 DEF Strayed
    <3> QED
      BY <2>2, <3>1, OnChain
  <2>7. ASSUME switches[Read] <= 1
        PROVE  states = {seen.historical}
    <3>1. /\ states # {} /\ states \subseteq Blocks
          /\ \A b \in states : b.number = seen.historical.number
          /\ \A b \in states : Strayed(b) => Unnoticed(b)
      BY <1>1, <2>1, <2>2 DEF IInv, TypeOK, StateInv, Closing, Late
    <3>2. ASSUME NEW b \in states
          PROVE  b = seen.historical
      <4>1. ~Strayed(b)
        BY <2>1, <2>3, <2>7, <3>1 DEF Unnoticed, Closing, Late
      <4>2. b \in Blocks /\ b.number = seen.historical.number
        BY <3>1
      <4>3. b.number > 0 => b.branch = seen.historical.branch
        BY <2>4, <4>1, <4>2 DEF Strayed
      <4>4. CASE b.number > 0
        BY <2>2, <4>2, <4>3, <4>4, SameBlock
      <4>5. CASE ~(b.number > 0)
        BY <2>2, <4>2, <4>5 DEF Blocks, Places
      <4> QED
        BY <4>4, <4>5
    <3> QED
      BY <3>1, <3>2
  <2>6. ASSUME seen.sample # None
        PROVE  Descends(seen.sample, seen.head) /\ (switches[Tracer] <= 1 => traced = seen.sample)
    <3>1. HasSample /\ HasTrace
      BY <1>1, <2>1, <2>6 DEF IInv, ShapeInv, HasSample, HasTrace, Closing, Late
    <3>2. /\ Holder(seen.sample) /\ Holder(traced) /\ seen.sample \in Blocks
          /\ seen.sample.number <= seen.head.number
      BY <1>1, <3>1 DEF IInv, ShapeInv, Holder
    <3>3. ~Strayed(seen.sample)
      BY <1>1, <2>1, <2>3, <3>1 DEF IInv, SampleInv, Compared, Closing, Late
    <3>4. Descends(seen.sample, seen.head)
      <4>1. seen.sample.number > 0 => seen.sample.branch = seen.head.branch
        BY <3>3 DEF Strayed
      <4> QED
        BY <2>2, <3>2, <4>1, OnChain
    <3>5. traced.branch # seen.sample.branch => switches[Tracer] >= 2
      BY <1>1, <2>1, <2>3, <3>1 DEF IInv, TraceInv, Closing, Late
    <3> QED
      BY <2>1, <3>2, <3>4, <3>5, HoldersAgree
  <2> QED
    BY <2>5, <2>6, <2>7
<1> QED
  BY <1>1, Invariance, PTL

\* A node that lags cannot pass by agreeing with itself (public_checks.preflight
\* pins the reference's head).
THEOREM PassedFresh == Spec => []PassedIsFresh
<1>1. ASSUME IInv
      PROVE  PassedIsFresh
  <2>1. Passed => Anchored
    BY <1>1 DEF IInv, ReportInv, Anchored, Late, Closing
  <2> QED
    BY <1>1, <2>1 DEF IInv, FreshInv, PassedIsFresh
<1> QED
  BY <1>1, Invariance, PTL

\* Only a chain of which no client had a block when the last comparisons began
\* is reported as at genesis
\* (public_checks.same_genesis_head).
THEOREM GenesisOnlyTrue == Spec => []GenesisOnlyIsTrue
<1>1. ASSUME IInv
      PROVE  GenesisOnlyIsTrue
  <2>1. Passed => Late \/ (Closing /\ asks = <<>>)
    BY <1>1 DEF IInv, ReportInv
  <2>2. asks = <<>> => ~\E i \in DOMAIN asks : TRUE
    OBVIOUS
  <2>3. ~(Closing /\ Late)
    BY DEF Closing, Late
  <2> QED
    BY <1>1, <2>1, <2>2, <2>3 DEF IInv, GenesisInv, GenesisOnlyIsTrue
<1> QED
  BY <1>1, Invariance, PTL

\* A checked path serves the sampled transaction in the sampled block, on the
\* chain of the checkpoint (ingress_checks.check_ingresses).
THEOREM CheckedCoherent == Spec => []CheckedIsCoherent
<1>1. ASSUME IInv
      PROVE  CheckedIsCoherent
  <2> SUFFICES ASSUME report = "CHECKED", switches[Read] <= 2
               PROVE  seen.receipt = seen.sample /\ Descends(seen.receipt, seen.head)
    BY DEF CheckedIsCoherent, Switches, Read
  <2>1. step = "checked" /\ seen.sample # None /\ switches[Read] \in Nat /\ TypeOK
    BY <1>1, ClientFacts DEF IInv, ReportInv, TypeOK
  <2>2. HasReceipt /\ HasSample /\ Late /\ Anchored
    BY <2>1 DEF HasReceipt, HasSample, Late, Anchored
  <2>3. /\ Holder(seen.receipt) /\ Holder(seen.sample) /\ seen.sample.number <= seen.head.number
        /\ seen.head \in Blocks
    BY <1>1, <2>2 DEF IInv, ShapeInv
  <2>4. ~Strayed(seen.receipt) /\ ~Strayed(seen.sample)
    BY <1>1, <2>1, <2>2 DEF IInv, ReceiptInv, SampleInv
  <2>5. seen.receipt.branch = seen.head.branch /\ seen.sample.branch = seen.head.branch
    BY <2>3, <2>4 DEF Strayed, Holder
  <2>6. seen.receipt = seen.sample
    BY <2>1, <2>3, <2>5, HoldersAgree
  <2> QED
    BY <2>3, <2>5, <2>6, OnChain DEF Holder
<1> QED
  BY <1>1, Invariance, PTL
=============================================================================
