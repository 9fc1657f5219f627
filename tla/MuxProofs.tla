----------------------------- MODULE MuxProofs -----------------------------
(* The invariant of the multiplexer, the promise of its channels and the   *)
(* conservation of their windows, for any number of ports, senders,        *)
(* workers and messages, any sizes of the messages and any capacities of   *)
(* the queues.                                                             *)
EXTENDS Mux, FiniteSetTheorems, SequenceTheorems, WellFoundedInduction, TLAPS

(* The other end of the connection.                                        *)
LEMMA PeerFacts ==
  /\ \A e \in Ends : Peer(e) \in Ends /\ Peer(e) # e /\ Ends = {e, Peer(e)}
  /\ \A e \in Ends \ Creators : Peer(e) \in Creators
  <1>1. IsFiniteSet(Ends) /\ Cardinality(Ends) = 2 /\ Creators \subseteq Ends /\ Creators # {}
    BY EndsAssumption
  <1>2. ASSUME NEW e \in Ends
        PROVE  Peer(e) \in Ends /\ Peer(e) # e /\ Ends = {e, Peer(e)}
    <2>1. IsFiniteSet(Ends \ {e}) /\ Cardinality(Ends \ {e}) = 1
      BY <1>1, FS_RemoveElement
    <2>2. PICK f : Ends \ {e} = {f}
      BY <2>1, FS_Singleton
    <2>3. f \in Ends /\ f # e
      BY <2>2
    <2>4. Peer(e) \in Ends /\ Peer(e) # e
      BY <2>3 DEF Peer
    <2> QED
      BY <2>2, <2>4
  <1> QED
    BY <1>1, <1>2

(* The sequences of the model: what is appended and what is taken.         *)
LEMMA SeqTypes ==
  ASSUME NEW S, NEW q \in Seq(S)
  PROVE  /\ \A x \in S : Append(q, x) \in Seq(S)
         /\ q # <<>> => Head(q) \in S /\ Tail(q) \in Seq(S)
  BY AppendProperties, HeadTailProperties

(* The places of a sequence after an element is appended or taken.         *)
LEMMA SeqPlaces ==
  ASSUME NEW S, NEW q \in Seq(S)
  PROVE  /\ DOMAIN q = 1..Len(q) /\ Len(q) \in Nat
         /\ \A i \in DOMAIN q : q[i] \in S
         /\ \A x \in S :
              /\ DOMAIN Append(q, x) = 1..(Len(q) + 1)
              /\ Append(q, x)[Len(q) + 1] = x
              /\ \A i \in 1..Len(q) : Append(q, x)[i] = q[i]
         /\ q # <<>> => /\ Len(q) >= 1 /\ Head(q) = q[1]
                        /\ DOMAIN Tail(q) = 1..(Len(q) - 1)
                        /\ \A i \in 1..(Len(q) - 1) : Tail(q)[i] = q[i + 1]
  <1>1. Len(q) \in Nat /\ DOMAIN q = 1..Len(q)
    BY LenProperties
  <1>2. \A i \in DOMAIN q : q[i] \in S
    BY <1>1, ElementOfSeq
  <1>3. \A x \in S :
              /\ DOMAIN Append(q, x) = 1..(Len(q) + 1)
              /\ Append(q, x)[Len(q) + 1] = x
              /\ \A i \in 1..Len(q) : Append(q, x)[i] = q[i]
    BY <1>1, AppendProperties
  <1>4. ASSUME q # <<>>
        PROVE  /\ Len(q) >= 1 /\ Head(q) = q[1]
               /\ DOMAIN Tail(q) = 1..(Len(q) - 1)
               /\ \A i \in 1..(Len(q) - 1) : Tail(q)[i] = q[i + 1]
    BY <1>1, <1>4, EmptySeq, HeadTailProperties
  <1> QED
    BY <1>1, <1>2, <1>3, <1>4

(* The sets of the elements and the messages of a sequence.                *)
LEMMA SeqElements ==
  ASSUME NEW S, NEW q \in Seq(S)
  PROVE  /\ \A x \in S : Elements(Append(q, x)) = Elements(q) \cup {x}
         /\ q # <<>> => Elements(q) = Elements(Tail(q)) \cup {Head(q)}
         /\ Elements(q) \subseteq S
  <1>1. /\ DOMAIN q = 1..Len(q) /\ Len(q) \in Nat
        /\ \A i \in DOMAIN q : q[i] \in S
        /\ \A x \in S :
             /\ DOMAIN Append(q, x) = 1..(Len(q) + 1)
             /\ Append(q, x)[Len(q) + 1] = x
             /\ \A i \in 1..Len(q) : Append(q, x)[i] = q[i]
        /\ q # <<>> => /\ Len(q) >= 1 /\ Head(q) = q[1]
                       /\ DOMAIN Tail(q) = 1..(Len(q) - 1)
                       /\ \A i \in 1..(Len(q) - 1) : Tail(q)[i] = q[i + 1]
    BY SeqPlaces
  <1>2. ASSUME NEW x \in S
        PROVE  Elements(Append(q, x)) = Elements(q) \cup {x}
    <2>1. \A i \in 1..(Len(q) + 1) : i \in 1..Len(q) \/ i = Len(q) + 1
      BY <1>1
    <2>2. 1..Len(q) \subseteq 1..(Len(q) + 1) /\ Len(q) + 1 \in 1..(Len(q) + 1)
      BY <1>1
    <2> QED
      BY <1>1, <2>1, <2>2 DEF Elements
  <1>3. ASSUME q # <<>>
        PROVE  Elements(q) = Elements(Tail(q)) \cup {Head(q)}
    <2>1. \A i \in 1..(Len(q) - 1) : i + 1 \in 1..Len(q)
      BY <1>1
    <2>2. \A i \in 1..Len(q) : i = 1 \/ (i - 1 \in 1..(Len(q) - 1) /\ (i - 1) + 1 = i)
      BY <1>1
    <2>3. 1 \in 1..Len(q)
      BY <1>1, <1>3
    <2>4. ASSUME NEW i \in 1..Len(q), i # 1
          PROVE  q[i] \in Elements(Tail(q))
      <3>1. i - 1 \in DOMAIN Tail(q) /\ Tail(q)[i - 1] = q[i]
        BY <1>1, <1>3, <2>2, <2>4
      <3> QED
        BY <3>1 DEF Elements
    <2>5. Elements(Tail(q)) \cup {Head(q)} \subseteq Elements(q)
      BY <1>1, <1>3, <2>1, <2>3 DEF Elements
    <2>6. Elements(q) \subseteq Elements(Tail(q)) \cup {Head(q)}
      <3>1. \A x \in Elements(q) : \E i \in 1..Len(q) : x = q[i]
        BY <1>1 DEF Elements
      <3> QED
        BY <1>1, <1>3, <2>4, <3>1
    <2> QED
      BY <2>5, <2>6
  <1> QED
    BY <1>1, <1>2, <1>3 DEF Elements

LEMMA MessagesOfFrames ==
  ASSUME NEW S, NEW q \in Seq(S)
  PROVE  /\ MessagesIn(q) = {f.n : f \in {g \in Elements(q) : g.type = "data"}}
         /\ MessagesIn(<<>>) = {} /\ Elements(<<>>) = {}
  <1>1. MessagesIn(q) = {f.n : f \in {g \in Elements(q) : g.type = "data"}}
    BY DEF MessagesIn, Elements
  <1>2. DOMAIN <<>> = {}
    BY EmptySeq, LenProperties
  <1> QED
    BY <1>1, <1>2 DEF MessagesIn, Elements

(* Every message of a sequence without repetitions is taken once.          *)
LEMMA SeqDistinct ==
  ASSUME NEW S, NEW q \in Seq(S), Distinct(q)
  PROVE  /\ \A x \in S : x \notin Elements(q) => Distinct(Append(q, x))
         /\ q # <<>> => Distinct(Tail(q)) /\ Head(q) \notin Elements(Tail(q))
  <1>1. /\ DOMAIN q = 1..Len(q) /\ Len(q) \in Nat
        /\ \A x \in S :
             /\ DOMAIN Append(q, x) = 1..(Len(q) + 1)
             /\ Append(q, x)[Len(q) + 1] = x
             /\ \A i \in 1..Len(q) : Append(q, x)[i] = q[i]
        /\ q # <<>> => /\ Len(q) >= 1 /\ Head(q) = q[1]
                       /\ DOMAIN Tail(q) = 1..(Len(q) - 1)
                       /\ \A i \in 1..(Len(q) - 1) : Tail(q)[i] = q[i + 1]
    BY SeqPlaces
  <1>2. \A i, j \in 1..Len(q) : q[i] = q[j] => i = j
    BY <1>1 DEF Distinct
  <1>3. ASSUME NEW x \in S, x \notin Elements(q)
        PROVE  Distinct(Append(q, x))
    <2>1. \A i \in 1..Len(q) : q[i] # x
      BY <1>1, <1>3 DEF Elements
    <2>2. \A i \in 1..(Len(q) + 1) : i \in 1..Len(q) \/ i = Len(q) + 1
      BY <1>1
    <2> QED
      BY <1>1, <1>2, <2>1, <2>2 DEF Distinct
  <1>4. ASSUME q # <<>>
        PROVE  Distinct(Tail(q)) /\ Head(q) \notin Elements(Tail(q))
    <2>1. \A i \in 1..(Len(q) - 1) : i + 1 \in 1..Len(q) /\ i + 1 # 1
      BY <1>1
    <2>2. \A i, j \in 1..(Len(q) - 1) : i + 1 = j + 1 => i = j
      BY <1>1
    <2>3. \A i \in 1..(Len(q) - 1) : Tail(q)[i] # Head(q)
      BY <1>1, <1>2, <1>4, <2>1
    <2>4. Distinct(Tail(q))
      BY <1>1, <1>2, <1>4, <2>1, <2>2 DEF Distinct
    <2> QED
      BY <1>1, <1>4, <2>3, <2>4 DEF Elements
  <1> QED
    BY <1>3, <1>4

(* A step that leaves the channels at their places, and one that changes   *)
(* the record of one of them.                                              *)
Becomes(c, r) ==
  /\ c \in 1..Created /\ Created' = Created
  /\ chan' \in Seq(Channels) /\ chan'[c] = r
  /\ \A d \in 1..Created : d # c => chan'[d] = chan[d]
Rec(c, q, w, i, s, p, r) ==
  [at |-> chan[c].at, port |-> chan[c].port, queue |-> q, window |-> w,
   inbox |-> i, shut |-> s, pending |-> p, read |-> r]

LEMMA ChannelTypes ==
  ASSUME TypeOK
  PROVE  /\ Created \in Nat /\ DOMAIN chan = 1..Created
         /\ \A c \in 1..Created :
              /\ chan[c] \in Channels
              /\ chan[c].at \in Ends /\ chan[c].port \in Ports
              /\ chan[c].queue \in Seq(Messages) /\ chan[c].inbox \in Seq(Messages)
              /\ chan[c].window \in Int /\ chan[c].shut \in BOOLEAN
              /\ chan[c].pending \in Nat /\ chan[c].read \in Nat
              /\ chan[c] = Rec(c, chan[c].queue, chan[c].window, chan[c].inbox,
                               chan[c].shut, chan[c].pending, chan[c].read)
  <1>1. chan \in Seq(Channels)
    BY DEF TypeOK
  <1>2. Created \in Nat /\ DOMAIN chan = 1..Created
    BY <1>1, LenProperties DEF Created
  <1>3. \A c \in 1..Created : chan[c] \in Channels
    BY <1>1, <1>2, ElementOfSeq DEF Created
  <1>4. \A c \in 1..Created :
              /\ chan[c].at \in Ends /\ chan[c].port \in Ports
              /\ chan[c].queue \in Seq(Messages) /\ chan[c].inbox \in Seq(Messages)
              /\ chan[c].window \in Int /\ chan[c].shut \in BOOLEAN
              /\ chan[c].pending \in Nat /\ chan[c].read \in Nat
    BY <1>3 DEF Channels
  <1>5. \A c \in 1..Created : chan[c] = Rec(c, chan[c].queue, chan[c].window, chan[c].inbox,
                               chan[c].shut, chan[c].pending, chan[c].read)
    BY <1>3 DEF Channels, Rec
  <1> QED
    BY <1>2, <1>3, <1>4, <1>5

LEMMA ChannelUpdate ==
  ASSUME TypeOK, NEW c \in 1..Created, NEW q \in Seq(Messages), NEW w \in Int,
         NEW i \in Seq(Messages), NEW s \in BOOLEAN, NEW p \in Nat, NEW r \in Nat,
         chan' = [chan EXCEPT ![c] = Rec(c, q, w, i, s, p, r)]
  PROVE  Becomes(c,
           Rec(c, q, w, i, s, p, r))
  <1>1. chan \in Seq(Channels) /\ c \in 1..Len(chan)
    BY DEF TypeOK, Created
  <1>2. Rec(c, q, w, i, s, p, r) \in Channels
    BY ChannelTypes DEF Channels, Rec
  <1>3. /\ chan' \in Seq(Channels) /\ Len(chan') = Len(chan)
        /\ \A j \in 1..Len(chan) :
             chan'[j] = IF j = c THEN Rec(c, q, w, i, s, p, r) ELSE chan[j]
    BY <1>1, <1>2, ExceptSeq
  <1> QED
    BY <1>1, <1>3 DEF Becomes, Created

(* What each operation does to the record of a channel.                    *)
LEMMA QueueForm ==
  ASSUME NEW r \in Channels
  PROVE  \A q : [r EXCEPT !.queue = q]
           = [at |-> r.at, port |-> r.port, queue |-> q, window |-> r.window,
              inbox |-> r.inbox, shut |-> r.shut, pending |-> r.pending, read |-> r.read]
  BY SMTT(30) DEF Channels

LEMMA WindowSet ==
  ASSUME TypeOK, NEW c \in 1..Created, NEW w \in Int,
         chan' = [chan EXCEPT ![c].window = w]
  PROVE  Becomes(c,
           Rec(c, chan[c].queue, w, chan[c].inbox, chan[c].shut, chan[c].pending, chan[c].read))
  <1>1. chan[c] \in Channels
    BY ChannelTypes
  <1>2. [chan EXCEPT ![c].window = w]
          = [chan EXCEPT ![c] = [chan[c] EXCEPT !.window = w]]
    BY Zenon
  <1>3. [chan[c] EXCEPT !.window = w]
          = Rec(c, chan[c].queue, w, chan[c].inbox, chan[c].shut, chan[c].pending, chan[c].read)
    BY <1>1 DEF Channels, Rec
  <1>4. chan' = [chan EXCEPT ![c] =
          Rec(c, chan[c].queue, w, chan[c].inbox, chan[c].shut, chan[c].pending, chan[c].read)]
    BY <1>2, <1>3
  <1>5. /\ chan[c].queue \in Seq(Messages) /\ chan[c].inbox \in Seq(Messages)
        /\ chan[c].window \in Int /\ chan[c].shut \in BOOLEAN
        /\ chan[c].pending \in Nat /\ chan[c].read \in Nat
    BY ChannelTypes
  <1> QED
    BY <1>4, <1>5, ChannelUpdate

LEMMA QueueSet ==
  ASSUME TypeOK, NEW c \in 1..Created, NEW q \in Seq(Messages),
         chan' = [chan EXCEPT ![c].queue = q]
  PROVE  Becomes(c,
           Rec(c, q, chan[c].window, chan[c].inbox, chan[c].shut, chan[c].pending, chan[c].read))
  <1>1. chan[c] \in Channels
    BY ChannelTypes
  <1>2. [chan EXCEPT ![c].queue = q]
          = [chan EXCEPT ![c] = [chan[c] EXCEPT !.queue = q]]
    BY Zenon
  <1>3. \A x : [chan[c] EXCEPT !.queue = x]
          = Rec(c, x, chan[c].window, chan[c].inbox, chan[c].shut, chan[c].pending, chan[c].read)
    BY <1>1, QueueForm DEF Rec
  <1>4. chan' = [chan EXCEPT ![c] =
          Rec(c, q, chan[c].window, chan[c].inbox, chan[c].shut, chan[c].pending, chan[c].read)]
    BY <1>2, <1>3
  <1>5. /\ chan[c].queue \in Seq(Messages) /\ chan[c].inbox \in Seq(Messages)
        /\ chan[c].window \in Int /\ chan[c].shut \in BOOLEAN
        /\ chan[c].pending \in Nat /\ chan[c].read \in Nat
    BY ChannelTypes
  <1> QED
    BY <1>4, <1>5, ChannelUpdate

LEMMA InboxSet ==
  ASSUME TypeOK, NEW c \in 1..Created, NEW i \in Seq(Messages),
         chan' = [chan EXCEPT ![c].inbox = i]
  PROVE  Becomes(c,
           Rec(c, chan[c].queue, chan[c].window, i, chan[c].shut, chan[c].pending, chan[c].read))
  <1>1. chan[c] \in Channels
    BY ChannelTypes
  <1>2. [chan EXCEPT ![c].inbox = i]
          = [chan EXCEPT ![c] = [chan[c] EXCEPT !.inbox = i]]
    BY Zenon
  <1>3. [chan[c] EXCEPT !.inbox = i]
          = Rec(c, chan[c].queue, chan[c].window, i, chan[c].shut, chan[c].pending, chan[c].read)
    BY <1>1 DEF Channels, Rec
  <1>4. chan' = [chan EXCEPT ![c] =
          Rec(c, chan[c].queue, chan[c].window, i, chan[c].shut, chan[c].pending, chan[c].read)]
    BY <1>2, <1>3
  <1>5. /\ chan[c].queue \in Seq(Messages) /\ chan[c].inbox \in Seq(Messages)
        /\ chan[c].window \in Int /\ chan[c].shut \in BOOLEAN
        /\ chan[c].pending \in Nat /\ chan[c].read \in Nat
    BY ChannelTypes
  <1> QED
    BY <1>4, <1>5, ChannelUpdate

LEMMA ReadSet ==
  ASSUME TypeOK, NEW c \in 1..Created, NEW r \in Nat,
         chan' = [chan EXCEPT ![c].read = r]
  PROVE  Becomes(c,
           Rec(c, chan[c].queue, chan[c].window, chan[c].inbox, chan[c].shut, chan[c].pending, r))
  <1>1. chan[c] \in Channels
    BY ChannelTypes
  <1>2. [chan EXCEPT ![c].read = r]
          = [chan EXCEPT ![c] = [chan[c] EXCEPT !.read = r]]
    BY Zenon
  <1>3. [chan[c] EXCEPT !.read = r]
          = Rec(c, chan[c].queue, chan[c].window, chan[c].inbox, chan[c].shut, chan[c].pending, r)
    BY <1>1 DEF Channels, Rec
  <1>4. chan' = [chan EXCEPT ![c] =
          Rec(c, chan[c].queue, chan[c].window, chan[c].inbox, chan[c].shut, chan[c].pending, r)]
    BY <1>2, <1>3
  <1>5. /\ chan[c].queue \in Seq(Messages) /\ chan[c].inbox \in Seq(Messages)
        /\ chan[c].window \in Int /\ chan[c].shut \in BOOLEAN
        /\ chan[c].pending \in Nat /\ chan[c].read \in Nat
    BY ChannelTypes
  <1> QED
    BY <1>4, <1>5, ChannelUpdate

LEMMA ShutSet ==
  ASSUME TypeOK, NEW c \in 1..Created, NEW q \in Seq(Messages), NEW s \in BOOLEAN,
         chan' = [chan EXCEPT ![c].queue = q, ![c].shut = s]
  PROVE  Becomes(c,
           Rec(c, q, chan[c].window, chan[c].inbox, s, chan[c].pending, chan[c].read))
  <1>1. chan[c] \in Channels
    BY ChannelTypes
  <1>2. [chan EXCEPT ![c].queue = q, ![c].shut = s]
          = [chan EXCEPT ![c] = [chan[c] EXCEPT !.queue = q, !.shut = s]]
    BY Zenon
  <1>3. [chan[c] EXCEPT !.queue = q, !.shut = s]
          = Rec(c, q, chan[c].window, chan[c].inbox, s, chan[c].pending, chan[c].read)
    <2>1. [chan[c] EXCEPT !.queue = q, !.shut = s]
            = [[chan[c] EXCEPT !.queue = q] EXCEPT !.shut = s]
      BY Zenon
    <2>2. [chan[c] EXCEPT !.queue = q]
            = Rec(c, q, chan[c].window, chan[c].inbox, chan[c].shut, chan[c].pending, chan[c].read)
      BY <1>1, SMTT(30) DEF Channels, Rec
    <2>3. [Rec(c, q, chan[c].window, chan[c].inbox, chan[c].shut, chan[c].pending, chan[c].read)
               EXCEPT !.shut = s]
            = Rec(c, q, chan[c].window, chan[c].inbox, s, chan[c].pending, chan[c].read)
      BY DEF Rec
    <2> QED
      BY <2>1, <2>2, <2>3
  <1>4. chan' = [chan EXCEPT ![c] =
          Rec(c, q, chan[c].window, chan[c].inbox, s, chan[c].pending, chan[c].read)]
    BY <1>2, <1>3
  <1>5. /\ chan[c].queue \in Seq(Messages) /\ chan[c].inbox \in Seq(Messages)
        /\ chan[c].window \in Int /\ chan[c].shut \in BOOLEAN
        /\ chan[c].pending \in Nat /\ chan[c].read \in Nat
    BY ChannelTypes
  <1> QED
    BY <1>4, <1>5, ChannelUpdate

LEMMA ReadTaken ==
  ASSUME TypeOK, NEW c \in 1..Created, NEW i \in Seq(Messages), NEW r \in Nat,
         chan' = [chan EXCEPT ![c].inbox = i, ![c].read = r]
  PROVE  Becomes(c,
           Rec(c, chan[c].queue, chan[c].window, i, chan[c].shut, chan[c].pending, r))
  <1>1. chan[c] \in Channels
    BY ChannelTypes
  <1>2. [chan EXCEPT ![c].inbox = i, ![c].read = r]
          = [chan EXCEPT ![c] = [chan[c] EXCEPT !.inbox = i, !.read = r]]
    BY Zenon
  <1>3. [chan[c] EXCEPT !.inbox = i, !.read = r]
          = Rec(c, chan[c].queue, chan[c].window, i, chan[c].shut, chan[c].pending, r)
    <2>1. [chan[c] EXCEPT !.inbox = i, !.read = r]
            = [[chan[c] EXCEPT !.inbox = i] EXCEPT !.read = r]
      BY Zenon
    <2>2. [chan[c] EXCEPT !.inbox = i]
            = Rec(c, chan[c].queue, chan[c].window, i, chan[c].shut, chan[c].pending, chan[c].read)
      BY <1>1, SMTT(30) DEF Channels, Rec
    <2>3. [Rec(c, chan[c].queue, chan[c].window, i, chan[c].shut, chan[c].pending, chan[c].read)
               EXCEPT !.read = r]
            = Rec(c, chan[c].queue, chan[c].window, i, chan[c].shut, chan[c].pending, r)
      BY DEF Rec
    <2> QED
      BY <2>1, <2>2, <2>3
  <1>4. chan' = [chan EXCEPT ![c] =
          Rec(c, chan[c].queue, chan[c].window, i, chan[c].shut, chan[c].pending, r)]
    BY <1>2, <1>3
  <1>5. /\ chan[c].queue \in Seq(Messages) /\ chan[c].inbox \in Seq(Messages)
        /\ chan[c].window \in Int /\ chan[c].shut \in BOOLEAN
        /\ chan[c].pending \in Nat /\ chan[c].read \in Nat
    BY ChannelTypes
  <1> QED
    BY <1>4, <1>5, ChannelUpdate

(* What SendWindowUpdate does to the counters of the channels.             *)
LEMMA CounterForms ==
  ASSUME NEW r \in Channels, NEW n \in Nat, NEW t,
         t = [r EXCEPT !.pending = n] \/ t = [r EXCEPT !.read = n]
  PROVE  /\ t \in Channels
         /\ t.at = r.at /\ t.port = r.port /\ t.queue = r.queue
         /\ t.inbox = r.inbox /\ t.shut = r.shut /\ t.window = r.window
  BY DEF Channels

LEMMA CounterSet ==
  ASSUME NEW ch \in Seq(Channels), NEW d \in 1..Len(ch), NEW r \in Channels,
         r.at = ch[d].at /\ r.port = ch[d].port,
         r.queue = ch[d].queue /\ r.inbox = ch[d].inbox,
         r.shut = ch[d].shut /\ r.window = ch[d].window
  PROVE  /\ [ch EXCEPT ![d] = r] \in Seq(Channels) /\ Len([ch EXCEPT ![d] = r]) = Len(ch)
         /\ \A k \in 1..Len(ch) :
              LET x == [ch EXCEPT ![d] = r][k] IN
              /\ x.at = ch[k].at /\ x.port = ch[k].port
              /\ x.queue = ch[k].queue /\ x.inbox = ch[k].inbox
              /\ x.shut = ch[k].shut /\ x.window = ch[k].window
  <1>1. /\ [ch EXCEPT ![d] = r] \in Seq(Channels) /\ Len([ch EXCEPT ![d] = r]) = Len(ch)
        /\ \A k \in 1..Len(ch) : [ch EXCEPT ![d] = r][k] = IF k = d THEN r ELSE ch[k]
    BY ExceptSeq
  <1> QED
    BY <1>1

(* A step leaves the channels it finds at their ends and ports.            *)
Steady ==
  /\ chan' \in Seq(Channels) /\ Created' \in Nat /\ Created <= Created'
  /\ \A c \in 1..Created : chan'[c].at = chan[c].at /\ chan'[c].port = chan[c].port
(* Only the counters of a channel change.                                  *)
CountersOnly ==
  /\ chan' \in Seq(Channels) /\ Created' = Created
  /\ \A c \in 1..Created :
       /\ chan'[c].at = chan[c].at /\ chan'[c].port = chan[c].port
       /\ chan'[c].queue = chan[c].queue /\ chan'[c].inbox = chan[c].inbox
       /\ chan'[c].shut = chan[c].shut /\ chan'[c].window = chan[c].window

LEMMA BecomesSteady ==
  ASSUME TypeOK, NEW c, NEW q, NEW w, NEW i, NEW s, NEW p, NEW r,
         Becomes(c, Rec(c, q, w, i, s, p, r))
  PROVE  /\ Steady /\ c \in 1..Created /\ Created' = Created
         /\ chan'[c].at = chan[c].at /\ chan'[c].port = chan[c].port
         /\ chan'[c].queue = q /\ chan'[c].window = w /\ chan'[c].inbox = i
         /\ chan'[c].shut = s /\ chan'[c].pending = p /\ chan'[c].read = r
         /\ \A d \in 1..Created : d # c => chan'[d] = chan[d]
  <1>1. Created \in Nat
    BY ChannelTypes
  <1>2. /\ c \in 1..Created /\ Created' = Created
        /\ chan' \in Seq(Channels) /\ chan'[c] = Rec(c, q, w, i, s, p, r)
        /\ \A d \in 1..Created : d # c => chan'[d] = chan[d]
    BY DEF Becomes
  <1>3. /\ chan'[c].at = chan[c].at /\ chan'[c].port = chan[c].port
        /\ chan'[c].queue = q /\ chan'[c].window = w /\ chan'[c].inbox = i
        /\ chan'[c].shut = s /\ chan'[c].pending = p /\ chan'[c].read = r
    BY <1>2 DEF Rec
  <1> QED
    BY <1>1, <1>2, <1>3 DEF Steady

LEMMA UpdateCounts ==
  ASSUME TypeOK, NEW c \in 1..Created, SendWindowUpdate(c)
  PROVE  CountersOnly
  <1> DEFINE d == table[chan[c].at][chan[c].port]
  <1> DEFINE cleared == [chan EXCEPT ![c].read = 0]
  <1>1. chan \in Seq(Channels) /\ c \in 1..Len(chan) /\ Created = Len(chan) /\ Created' = Len(chan')
    BY DEF TypeOK, Created
  <1>2. /\ cleared \in Seq(Channels) /\ Len(cleared) = Len(chan)
        /\ \A k \in 1..Len(chan) :
             /\ cleared[k].at = chan[k].at /\ cleared[k].port = chan[k].port
             /\ cleared[k].queue = chan[k].queue /\ cleared[k].inbox = chan[k].inbox
             /\ cleared[k].shut = chan[k].shut /\ cleared[k].window = chan[k].window
    <2> DEFINE r == [chan[c] EXCEPT !.read = 0]
    <2>1. cleared = [chan EXCEPT ![c] = r]
      BY Zenon
    <2>2. chan[c] \in Channels /\ 0 \in Nat
      BY ChannelTypes
    <2> HIDE DEF cleared
    <2>3. /\ r \in Channels
          /\ r.at = chan[c].at /\ r.port = chan[c].port /\ r.queue = chan[c].queue
          /\ r.inbox = chan[c].inbox /\ r.shut = chan[c].shut /\ r.window = chan[c].window
      BY <2>2, CounterForms
    <2> HIDE DEF r
    <2> QED
      BY <1>1, <2>1, <2>3, CounterSet
  <1>4. d \in 0..Created
    BY ChannelTypes DEF TypeOK
  <1>5. \/ chan' = cleared
        \/ d # 0 /\ \E n \in Nat : chan' = [cleared EXCEPT ![d].pending = n]
    <2>1. d # 0 => chan[d].pending + chan[c].read \in Nat
      BY <1>1, <1>4, ChannelTypes
    <2>2. 0 \in Nat
      OBVIOUS
    <2> QED
      BY <2>1, <2>2 DEF SendWindowUpdate, PendingAfter
  <1> HIDE DEF cleared, d
  <1>6. CASE chan' = cleared
    BY <1>1, <1>2, <1>6 DEF CountersOnly
  <1>7. ASSUME d # 0, NEW n \in Nat, chan' = [cleared EXCEPT ![d].pending = n]
        PROVE  CountersOnly
    <2>1. d \in 1..Len(cleared)
      <3>1. Created \in Nat
        BY ChannelTypes
      <3>2. Len(cleared) = Created
        BY <1>1, <1>2 DEF Created
      <3> QED
        BY <1>4, <1>7, <3>1, <3>2, SMTT(30)
    <2>2. /\ chan' \in Seq(Channels) /\ Len(chan') = Len(cleared)
          /\ \A k \in 1..Len(cleared) :
               /\ chan'[k].at = cleared[k].at /\ chan'[k].port = cleared[k].port
               /\ chan'[k].queue = cleared[k].queue /\ chan'[k].inbox = cleared[k].inbox
               /\ chan'[k].shut = cleared[k].shut /\ chan'[k].window = cleared[k].window
      <3> HIDE DEF d
      <3> DEFINE r == [cleared[d] EXCEPT !.pending = n]
      <3>1. chan' = [cleared EXCEPT ![d] = r]
        BY <1>7, Zenon
      <3>2. cleared[d] \in Channels
        BY <1>2, <2>1, ElementOfSeq
      <3>3. /\ r \in Channels
            /\ r.at = cleared[d].at /\ r.port = cleared[d].port /\ r.queue = cleared[d].queue
            /\ r.inbox = cleared[d].inbox /\ r.shut = cleared[d].shut
            /\ r.window = cleared[d].window
        BY <3>2, CounterForms
      <3> HIDE DEF r
      <3> QED
        BY <1>2, <2>1, <3>1, <3>3, CounterSet
    <2> QED
      BY <1>1, <1>2, <2>2 DEF CountersOnly
  <1> QED
    BY <1>5, <1>6, <1>7

LEMMA ChannelAdded ==
  ASSUME TypeOK, NEW e \in Ends, NEW p \in Ports,
         chan' = Append(chan, NewChannel(e, p))
  PROVE  /\ Steady /\ Created' = Created + 1
         /\ chan'[Created + 1] = NewChannel(e, p)
         /\ \A c \in 1..Created : chan'[c] = chan[c]
         /\ \A c \in 1..Created' : c \in 1..Created \/ c = Created + 1
  <1>1. chan \in Seq(Channels) /\ Created \in Nat
    BY ChannelTypes DEF TypeOK
  <1>2. NewChannel(e, p) \in Channels
    BY EmptySeq, WindowAssumption DEF NewChannel, Channels
  <1>3. /\ chan' \in Seq(Channels) /\ Len(chan') = Len(chan) + 1
        /\ chan'[Len(chan) + 1] = NewChannel(e, p)
        /\ \A c \in 1..Len(chan) : chan'[c] = chan[c]
    BY <1>1, <1>2, AppendProperties
  <1> QED
    BY <1>1, <1>3 DEF Steady, Created

LEMMA ChannelShut ==
  ASSUME TypeOK, NEW e \in Ends, NEW p \in Ports, CloseLocal(e, p)
  PROVE  /\ Steady /\ Created' = Created /\ table[e][p] \in 0..Created
         /\ table' = [table EXCEPT ![e][p] = 0]
         /\ table[e][p] = 0 => chan' = chan
         /\ \A c \in 1..Created :
              /\ c # table[e][p] => chan'[c] = chan[c]
              /\ c = table[e][p] => /\ chan'[c].queue = <<>> /\ chan'[c].shut = TRUE
                                    /\ chan'[c].window = chan[c].window
                                    /\ chan'[c].inbox = chan[c].inbox
  <1> DEFINE c == table[e][p]
  <1>1. c \in 0..Created /\ Created \in Nat
    BY ChannelTypes DEF TypeOK
  <1>2. table' = [table EXCEPT ![e][p] = 0]
    BY DEF CloseLocal
  <1>3. CASE c = 0
    <2>1. chan' = chan
      BY <1>3 DEF CloseLocal
    <2> QED
      BY <1>1, <1>2, <1>3, <2>1, ChannelTypes DEF Steady, TypeOK, Created
  <1>4. CASE c # 0
    <2>1. PICK t \in BOOLEAN : t = TRUE
      OBVIOUS
    <2>2. chan' = [chan EXCEPT ![c].queue = <<>>, ![c].shut = t]
      BY <1>4, <2>1 DEF CloseLocal
    <2>3. c \in 1..Created /\ <<>> \in Seq(Messages)
      BY <1>1, <1>4, EmptySeq
    <2> HIDE DEF c
    <2>4. Becomes(c, Rec(c, <<>>, chan[c].window, chan[c].inbox, t, chan[c].pending, chan[c].read))
      BY <2>2, <2>3, ShutSet
    <2>5. /\ Steady /\ Created' = Created
          /\ chan'[c].queue = <<>> /\ chan'[c].shut = t
          /\ chan'[c].window = chan[c].window /\ chan'[c].inbox = chan[c].inbox
          /\ \A d \in 1..Created : d # c => chan'[d] = chan[d]
      BY <2>4, BecomesSteady
    <2> QED
      BY <1>1, <1>2, <1>4, <2>1, <2>5 DEF c
  <1> QED
    BY <1>3, <1>4

LEMMA ChannelsShut ==
  ASSUME TypeOK, NEW e \in Ends, ReadEnds(e)
  PROVE  /\ Steady /\ Created' = Created
         /\ \A c \in 1..Created :
              /\ chan'[c].queue = chan[c].queue /\ chan'[c].inbox = chan[c].inbox
              /\ chan'[c].window = chan[c].window
              /\ (\A p \in Ports : table[e][p] # c) => chan'[c] = chan[c]
              /\ (\E p \in Ports : table[e][p] = c) => chan'[c].shut = TRUE
  <1> DEFINE open == {table[e][p] : p \in Ports} \ {0}
  <1> DEFINE R(c) == IF c \in open THEN [chan[c] EXCEPT !.shut = TRUE] ELSE chan[c]
  <1>1. Created \in Nat /\ DOMAIN chan = 1..Created /\ \A c \in 1..Created : chan[c] \in Channels
    BY ChannelTypes
  <1>2. chan' = [c \in 1..Created |-> R(c)]
    BY <1>1 DEF ReadEnds
  <1>3. \A c \in 1..Created :
          /\ R(c) \in Channels
          /\ R(c).at = chan[c].at /\ R(c).port = chan[c].port
          /\ R(c).queue = chan[c].queue /\ R(c).inbox = chan[c].inbox
          /\ R(c).window = chan[c].window
          /\ c \notin open => R(c) = chan[c]
          /\ c \in open => R(c).shut = TRUE
    <2> TAKE c \in 1..Created
    <2>1. CASE c \in open
      <3>1. R(c) = [chan[c] EXCEPT !.shut = TRUE] /\ chan[c] \in Channels
        BY <1>1, <2>1
      <3> QED
        BY <2>1, <3>1 DEF Channels
    <2>2. CASE c \notin open
      BY <1>1, <2>2
    <2> QED
      BY <2>1, <2>2
  <1>4. chan' \in [1..Created -> Channels]
    <2> HIDE DEF R
    <2> QED
      BY <1>2, <1>3
  <1>5. chan' \in Seq(Channels) /\ Len(chan') = Created
    <2>1. chan' \in Seq(Channels)
      BY <1>1, <1>4, SeqDef
    <2>2. Len(chan') \in Nat /\ DOMAIN chan' = 1..Len(chan')
      BY <2>1, LenProperties
    <2>3. 1..Len(chan') = 1..Created
      BY <1>4, <2>2
    <2>4. \A m, n \in Nat : 1..m = 1..n => m = n
      <3> TAKE m, n \in Nat
      <3>1. ASSUME 1..m = 1..n PROVE m <= n
        BY <3>1, m = 0 \/ m \in 1..m
      <3>2. ASSUME 1..m = 1..n PROVE n <= m
        BY <3>2, n = 0 \/ n \in 1..n
      <3> QED
        BY <3>1, <3>2
    <2> QED
      BY <1>1, <2>1, <2>2, <2>3, <2>4
  <1>6. \A c \in 1..Created : chan'[c] = R(c)
    <2> HIDE DEF R
    <2> QED
      BY <1>2
  <1>7. \A c \in 1..Created : c \in open <=> \E p \in Ports : table[e][p] = c
    BY <1>1
  <1> HIDE DEF R, open
  <1> QED
    BY <1>1, <1>3, <1>5, <1>6, <1>7 DEF Steady, Created

(* The types of the parts of the state that name channels are kept as      *)
(* channels are created, and the type of a wire as a frame is written.     *)
WriterTypes == [pc : {"round", "data", "wait", "empty", "stopped"},
                todo : SUBSET (1..Created), progress : BOOLEAN]
SenderTypes == [pc : {"idle", "window", "take", "enqueue", "notify"},
                ch : 0..Created, msg : 0..MaxMessages]
WireFrames == DataFrames \cup CloseFrames \cup Updates

LEMMA TypesGrow ==
  ASSUME TypeOK, Steady
  PROVE  /\ 0..Created \subseteq 0..Created' /\ 1..Created \subseteq 1..Created'
         /\ Held \subseteq Held'
         /\ WriterTypes \subseteq WriterTypes'
         /\ SenderTypes \subseteq SenderTypes'
         /\ table \in [Ends -> [Ports -> 0..Created']]
         /\ held \in [Ends -> SUBSET Held']
         /\ writer \in [Ends -> WriterTypes']
         /\ sender \in [Senders -> SenderTypes']
  <1>1. Created \in Nat /\ Created' \in Nat /\ Created <= Created'
    BY ChannelTypes DEF Steady
  <1>2. 0..Created \subseteq 0..Created' /\ 1..Created \subseteq 1..Created'
    BY <1>1
  <1>3. Held \subseteq Held'
    BY <1>2 DEF Held
  <1>4. WriterTypes \subseteq WriterTypes'
    BY <1>2 DEF WriterTypes
  <1>5. SenderTypes \subseteq SenderTypes'
    BY <1>2 DEF SenderTypes
  <1>6. table \in [Ends -> [Ports -> 0..Created']]
    <2>1. table \in [Ends -> [Ports -> 0..Created]]
      BY DEF TypeOK
    <2> QED
      BY <1>2, <2>1
  <1>7. held \in [Ends -> SUBSET Held] /\ writer \in [Ends -> WriterTypes]
        /\ sender \in [Senders -> SenderTypes]
    BY DEF TypeOK, WriterTypes, SenderTypes
  <1> QED
    BY <1>2, <1>3, <1>4, <1>5, <1>6, <1>7

LEMMA WrittenType ==
  ASSUME TypeOK, NEW e \in Ends, NEW f \in WireFrames
  PROVE  /\ Written(e, f) \in [Ends -> Seq(WireFrames)]
         /\ Written(e, f)[Peer(e)] = IF up[Peer(e)] THEN Append(wire[Peer(e)], f)
                                     ELSE wire[Peer(e)]
         /\ \A g \in Ends : g # Peer(e) => Written(e, f)[g] = wire[g]
  <1>1. wire \in [Ends -> Seq(WireFrames)]
    BY DEF TypeOK, WireFrames
  <1>2. Peer(e) \in Ends
    BY PeerFacts
  <1>3. Append(wire[Peer(e)], f) \in Seq(WireFrames)
    BY <1>1, <1>2, SeqTypes
  <1> QED
    BY <1>1, <1>2, <1>3 DEF Written

(* The frames of the model.                                                *)
LEMMA FrameTypes ==
  /\ \A p \in Ports, m \in Messages : Data(p, m) \in DataFrames
  /\ \A p \in Ports, n \in Nat : CloseFrame(p, n) \in CloseFrames /\ Update(p, n) \in Updates
  /\ \A f \in DataFrames : f.type = "data" /\ f.port \in Ports /\ f.n \in Messages
  /\ \A f \in CloseFrames : f.type = "close" /\ f.port \in Ports /\ f.n \in Nat
  /\ \A f \in Updates : f.type = "window" /\ f.port \in Ports /\ f.n \in Nat
  /\ \A f \in WireFrames : f.type = "data" => f \in DataFrames
  /\ \A f \in WireFrames : f.type = "close" => f \in CloseFrames
  /\ \A f \in WireFrames : f.type = "window" => f \in Updates
  /\ \A f \in WireFrames : f.port \in Ports
  <1>1. /\ \A p \in Ports, m \in Messages : Data(p, m) \in DataFrames
        /\ \A p \in Ports, n \in Nat : CloseFrame(p, n) \in CloseFrames /\ Update(p, n) \in Updates
    BY DEF Data, CloseFrame, Update, DataFrames, CloseFrames, Updates
  <1>2. /\ \A f \in DataFrames : f.type = "data" /\ f.port \in Ports /\ f.n \in Messages
        /\ \A f \in CloseFrames : f.type = "close" /\ f.port \in Ports /\ f.n \in Nat
        /\ \A f \in Updates : f.type = "window" /\ f.port \in Ports /\ f.n \in Nat
    BY DEF DataFrames, CloseFrames, Updates
  <1> QED
    BY <1>1, <1>2 DEF WireFrames

(* Frames taken by the workers.                                            *)
LEMMA HeldTypes ==
  ASSUME TypeOK, NEW e \in Ends, NEW j \in held[e]
  PROVE  /\ j = [frame |-> j.frame, ch |-> j.ch, fresh |-> j.fresh]
         /\ j.ch \in 0..Created /\ j.fresh \in BOOLEAN
         /\ j.frame \in DataFrames \cup CloseFrames
         /\ j.ch # 0 => j.frame \in DataFrames
         /\ j.frame.type = "data" <=> j.frame \in DataFrames
         /\ j.frame.type = "close" => j.frame \in CloseFrames
         /\ j.frame.port \in Ports
  <1>1. j \in Held /\ Created \in Nat
    BY ChannelTypes DEF TypeOK
  <1>2. /\ j = [frame |-> j.frame, ch |-> j.ch, fresh |-> j.fresh]
        /\ j.ch \in 0..Created /\ j.fresh \in BOOLEAN
        /\ j.frame \in DataFrames \cup CloseFrames
        /\ j.ch # 0 => j.frame \in DataFrames
    <2>1. CASE j \in [frame : DataFrames, ch : 0..Created, fresh : BOOLEAN]
      BY <2>1
    <2>2. CASE j \in [frame : CloseFrames, ch : {0}, fresh : {FALSE}]
      <3>1. /\ j = [frame |-> j.frame, ch |-> j.ch, fresh |-> j.fresh]
            /\ j.ch = 0 /\ j.frame \in CloseFrames
        BY <2>2
      <3>2. j.fresh \in {FALSE}
        BY <2>2
      <3>3. j.fresh \in BOOLEAN
        BY <3>2, Zenon
      <3> QED
        BY <1>1, <3>1, <3>3
    <2> QED
      BY <1>1, <2>1, <2>2 DEF Held
  <1> QED
    BY <1>2, FrameTypes DEF WireFrames

(* The parts of TypeOK.                                                    *)
FlagsOK == up \in [Ends -> BOOLEAN] /\ reading \in [Ends -> BOOLEAN]
TokensOK == notify \in [Ends -> BOOLEAN]
TableOK == table \in [Ends -> [Ports -> 0..Created]]
CtrlOK == ctrl \in [Ends -> Seq(CloseFrames)]
WireOK == wire \in [Ends -> Seq(WireFrames)]
HeldOK == held \in [Ends -> SUBSET Held]
WriterOK == writer \in [Ends -> WriterTypes]
SenderOK == sender \in [Senders -> SenderTypes]
SentOK == sent \subseteq Messages /\ offered \in 0..MaxMessages
GotOK == got \in Seq(Messages)
ClosesOK == closes \in 0..MaxCloses /\ ended \in BOOLEAN

LEMMA TypeParts ==
  TypeOK <=> /\ chan \in Seq(Channels) /\ Created <= MaxChannels
             /\ FlagsOK /\ TokensOK /\ TableOK /\ CtrlOK /\ WireOK /\ HeldOK
             /\ WriterOK /\ SenderOK /\ SentOK /\ GotOK /\ ClosesOK
  BY Zenon DEF TypeOK, FlagsOK, TokensOK, TableOK, CtrlOK, WireOK, HeldOK, WriterOK, SenderOK,
     SentOK, GotOK, ClosesOK, WriterTypes, SenderTypes, WireFrames

LEMMA TypePartsNext ==
  ASSUME Steady, Created' <= MaxChannels,
         FlagsOK', TokensOK', TableOK', CtrlOK', WireOK', HeldOK',
         WriterOK', SenderOK', SentOK', GotOK', ClosesOK'
  PROVE  TypeOK'
  BY Zenon DEF Steady, TypeOK, FlagsOK, TokensOK, TableOK, CtrlOK, WireOK, HeldOK, WriterOK,
     SenderOK, SentOK, GotOK, ClosesOK, WriterTypes, SenderTypes, WireFrames

LEMMA TypeKept ==
  ASSUME TypeOK, Steady
  PROVE  /\ UNCHANGED <<up, reading>> => FlagsOK'
         /\ UNCHANGED notify => TokensOK'
         /\ UNCHANGED table => TableOK'
         /\ UNCHANGED ctrl => CtrlOK'
         /\ UNCHANGED wire => WireOK'
         /\ UNCHANGED held => HeldOK'
         /\ UNCHANGED writer => WriterOK'
         /\ UNCHANGED sender => SenderOK'
         /\ UNCHANGED <<sent, offered>> => SentOK'
         /\ UNCHANGED got => GotOK'
         /\ UNCHANGED <<closes, ended>> => ClosesOK'
         /\ Created' = Created => Created' <= MaxChannels
  <1>1. /\ table \in [Ends -> [Ports -> 0..Created']]
        /\ held \in [Ends -> SUBSET Held']
        /\ writer \in [Ends -> WriterTypes']
        /\ sender \in [Senders -> SenderTypes']
    BY TypesGrow
  <1>2. /\ Created <= MaxChannels
        /\ FlagsOK /\ TokensOK /\ CtrlOK /\ WireOK /\ SentOK /\ GotOK /\ ClosesOK
    BY TypeParts
  <1>3. UNCHANGED table => TableOK'
    BY <1>1 DEF TableOK
  <1>4. UNCHANGED held => HeldOK'
    BY <1>1, Zenon DEF HeldOK
  <1>5. UNCHANGED writer => WriterOK'
    BY <1>1, Zenon DEF WriterOK
  <1>6. UNCHANGED sender => SenderOK'
    BY <1>1, Zenon DEF SenderOK
  <1>7. /\ UNCHANGED <<up, reading>> => FlagsOK'
        /\ UNCHANGED notify => TokensOK'
        /\ UNCHANGED ctrl => CtrlOK'
        /\ UNCHANGED wire => WireOK'
        /\ UNCHANGED <<sent, offered>> => SentOK'
        /\ UNCHANGED got => GotOK'
        /\ UNCHANGED <<closes, ended>> => ClosesOK'
    BY <1>2, Zenon DEF FlagsOK, TokensOK, CtrlOK, WireOK, SentOK, GotOK, ClosesOK
  <1> QED
    BY <1>2, <1>3, <1>4, <1>5, <1>6, <1>7

LEMMA SameChannels ==
  ASSUME TypeOK, chan' = chan
  PROVE  Steady /\ Created' = Created
  BY ChannelTypes DEF Steady, TypeOK, Created

LEMMA OpenTypes ==
  ASSUME TypeOK, NEW e \in Ends, NEW p \in Ports, OpenChannel(e, p)
  PROVE  TypeOK' /\ Steady
  <1>1. Steady /\ Created' = Created + 1
    BY ChannelAdded DEF OpenChannel
  <1>2. Created \in Nat /\ MaxChannels \in Nat /\ Created < MaxChannels
    BY ChannelTypes, EndsAssumption DEF OpenChannel
  <1>3. TableOK'
    <2>1. table \in [Ends -> [Ports -> 0..Created']] /\ Created + 1 \in 0..Created'
      BY <1>1, <1>2, TypesGrow
    <2> QED
      BY <2>1 DEF TableOK, OpenChannel
  <1>4. UNCHANGED <<up, reading, ctrl, notify, writer, wire, held, sender, sent, offered,
                    got, closes, ended>>
    BY DEF OpenChannel, senderVars, historyVars
  <1>5. /\ FlagsOK' /\ TokensOK' /\ CtrlOK' /\ WireOK' /\ HeldOK' /\ WriterOK' /\ SenderOK'
        /\ SentOK' /\ GotOK' /\ ClosesOK'
    BY <1>1, <1>4, TypeKept
  <1> QED
    BY <1>1, <1>2, <1>3, <1>5, TypePartsNext

LEMMA CloseTypes ==
  ASSUME TypeOK, NEW e \in Ends, NEW p \in Ports, CloseChannel(e, p)
  PROVE  TypeOK' /\ Steady /\ chan' = chan
  <1>1. chan' = chan /\ Steady /\ Created' = Created
    BY SameChannels DEF CloseChannel
  <1>2. closes \in Nat /\ MaxCloses \in Nat /\ closes < MaxCloses
    BY EndsAssumption DEF TypeOK, CloseChannel
  <1>3. ClosesOK'
    <2>1. closes' \in 0..MaxCloses
      BY <1>2 DEF CloseChannel
    <2>2. ended' \in BOOLEAN
      BY Zenon DEF CloseChannel
    <2> QED
      BY <2>1, <2>2 DEF ClosesOK
  <1>4. UNCHANGED <<reading, table, chan, writer, held, sender, sent, offered, got>>
    BY DEF CloseChannel, senderVars
  <1>5. /\ TableOK' /\ HeldOK' /\ WriterOK' /\ SenderOK' /\ SentOK' /\ GotOK'
        /\ Created' <= MaxChannels
    BY <1>1, <1>4, TypeKept
  <1>6. CtrlOK'
    <2>1. CloseFrame(p, closes + 1) \in CloseFrames
      BY <1>2, FrameTypes
    <2>2. ctrl \in [Ends -> Seq(CloseFrames)]
      BY DEF TypeOK
    <2>3. Append(ctrl[e], CloseFrame(p, closes + 1)) \in Seq(CloseFrames)
      BY <2>1, <2>2, SeqTypes
    <2>4. ctrl' = [ctrl EXCEPT ![e] = Append(ctrl[e], CloseFrame(p, closes + 1))]
      BY DEF CloseChannel, EnqueueCtrl
    <2> QED
      BY <2>2, <2>3, <2>4 DEF CtrlOK
  <1>7. TokensOK'
    BY DEF TokensOK, TypeOK, CloseChannel, EnqueueCtrl
  <1>8. FlagsOK' /\ WireOK'
    BY <1>1, TypeKept DEF CloseChannel
  <1> QED
    BY <1>1, <1>3, <1>5, <1>6, <1>7, <1>8, TypePartsNext

LEMMA CloseEndTypes ==
  ASSUME TypeOK, NEW e \in Ends, Close(e)
  PROVE  TypeOK' /\ Steady /\ chan' = chan
  <1>1. chan' = chan /\ Steady /\ Created' = Created
    BY SameChannels DEF Close
  <1>2. closes \in Nat /\ MaxCloses \in Nat /\ closes < MaxCloses
    BY EndsAssumption DEF TypeOK, Close
  <1>3. ClosesOK'
    <2>1. closes' \in 0..MaxCloses
      BY <1>2 DEF Close
    <2>2. ended' \in BOOLEAN
      BY Zenon DEF Close
    <2> QED
      BY <2>1, <2>2 DEF ClosesOK
  <1>4. UNCHANGED <<reading, table, chan, writer, held, sender, sent, offered, got>>
    BY DEF Close, senderVars
  <1>5. /\ TableOK' /\ HeldOK' /\ WriterOK' /\ SenderOK' /\ SentOK' /\ GotOK'
        /\ Created' <= MaxChannels
    BY <1>1, <1>4, TypeKept
  <1>6. WireOK'
    BY EmptySeq DEF WireOK, TypeOK, WireFrames, Close
  <1>7. FlagsOK'
    BY DEF FlagsOK, TypeOK, Close
  <1>8. CtrlOK' /\ TokensOK'
    BY <1>1, TypeKept DEF Close
  <1> QED
    BY <1>1, <1>3, <1>5, <1>6, <1>7, <1>8, TypePartsNext

LEMMA SendTypes ==
  ASSUME TypeOK, NEW s \in Senders, Send(s)
  PROVE  TypeOK' /\ Steady
  <1>1. Steady /\ Created' = Created
    BY SameChannels DEF Send
  <1>2. At[s] \in Ends /\ PortOf[s] \in Ports /\ MaxMessages \in Nat
    BY EndsAssumption
  <1>3. table[At[s]][PortOf[s]] \in 0..Created
    BY <1>2 DEF TypeOK
  <1>4. offered + 1 \in 0..MaxMessages
    BY <1>2 DEF TypeOK, Send
  <1>5. SentOK'
    BY <1>4 DEF Send, SentOK, TypeOK
  <1>6. SenderOK'
    <2>1. sender \in [Senders -> SenderTypes']
      BY <1>1, TypesGrow
    <2>2. [pc |-> "window", ch |-> table[At[s]][PortOf[s]], msg |-> offered + 1] \in SenderTypes'
      BY <1>1, <1>3, <1>4 DEF SenderTypes
    <2> QED
      BY <2>1, <2>2, Zenon DEF SenderOK, Send
  <1>7. UNCHANGED <<up, reading, table, ctrl, notify, writer, wire, held, got, closes, ended>>
    BY DEF Send, historyVars
  <1> QED
    BY <1>1, <1>5, <1>6, <1>7, TypeKept, TypePartsNext

(* A step of a call of Send.                                               *)
SenderAt(s, x) == sender' = [sender EXCEPT ![s].pc = x]

LEMMA SenderMoves ==
  ASSUME TypeOK, Steady, Created' = Created, NEW s \in Senders,
         NEW x \in {"idle", "window", "take", "enqueue", "notify"}, SenderAt(s, x)
  PROVE  /\ SenderOK' /\ sender'[s] = [pc |-> x, ch |-> sender[s].ch, msg |-> sender[s].msg]
         /\ \A t \in Senders : t # s => sender'[t] = sender[t]
  <1>1. sender \in [Senders -> SenderTypes] /\ sender \in [Senders -> SenderTypes']
    BY TypesGrow, TypeParts DEF SenderOK
  <1>2. [sender[s] EXCEPT !.pc = x] = [pc |-> x, ch |-> sender[s].ch, msg |-> sender[s].msg]
    BY <1>1 DEF SenderTypes
  <1>3. [pc |-> x, ch |-> sender[s].ch, msg |-> sender[s].msg] \in SenderTypes'
    BY <1>1 DEF SenderTypes
  <1>4. sender' = [sender EXCEPT ![s] = [sender[s] EXCEPT !.pc = x]]
    BY Zenon DEF SenderAt
  <1>5. sender' = [sender EXCEPT ![s] = [pc |-> x, ch |-> sender[s].ch, msg |-> sender[s].msg]]
    BY <1>2, <1>4, Zenon
  <1> HIDE DEF SenderTypes
  <1> QED
    BY <1>1, <1>3, <1>5 DEF SenderOK

LEMMA SenderEnds ==
  ASSUME TypeOK, Steady, Created' = Created, NEW s \in Senders,
         sender' = [sender EXCEPT ![s] = Idle]
  PROVE  /\ SenderOK' /\ sender'[s] = Idle
         /\ \A t \in Senders : t # s => sender'[t] = sender[t]
  <1>1. sender \in [Senders -> SenderTypes']
    BY TypesGrow
  <1>2. Idle \in SenderTypes'
    BY ChannelTypes, EndsAssumption DEF SenderTypes, Idle, Steady
  <1> QED
    BY <1>1, <1>2 DEF SenderOK

LEMMA SendStepTypes ==
  ASSUME TypeOK, GoroutinesInStep, NEW s \in Senders, SendStep(s)
  PROVE  TypeOK' /\ Steady /\ Created' = Created
  <1>1. UNCHANGED <<up, reading, table, ctrl, writer, wire, held, offered, got, closes, ended>>
    BY Zenon DEF SendStep, SendSeesWindow, SendTakesWindow, SendEnqueues, SendNotifies, SendFails,
       historyVars
  <1>2. /\ sender[s].ch \in 0..Created /\ sender[s].msg \in 0..MaxMessages
        /\ Created \in Nat /\ MaxMessages \in Nat
    BY ChannelTypes, EndsAssumption DEF TypeOK
  <1>3. sender[s].pc # "idle" => sender[s].ch \in 1..Created /\ sender[s].msg \in Messages
    BY <1>2 DEF GoroutinesInStep, TypeOK, Messages
  <1>4. CASE SendSeesWindow(s)
    <2>1. Steady /\ Created' = Created
      BY <1>4, SameChannels DEF SendSeesWindow
    <2>2. SenderOK'
      BY <1>4, <2>1, SenderMoves DEF SenderAt, SendSeesWindow
    <2>3. UNCHANGED <<notify, sent>>
      BY <1>4 DEF SendSeesWindow
    <2> QED
      BY <1>1, <2>1, <2>2, <2>3, TypeKept, TypePartsNext
  <1>5. CASE SendTakesWindow(s)
    <2> DEFINE c == sender[s].ch
    <2> DEFINE w == chan[c].window - Size[sender[s].msg]
    <2>1. c \in 1..Created /\ sender[s].msg \in Messages
      BY <1>3, <1>5 DEF SendTakesWindow
    <2>2. w \in Int
      BY <2>1, ChannelTypes, WindowAssumption DEF Messages
    <2>3. chan' = [chan EXCEPT ![c].window = w]
      BY <1>5 DEF SendTakesWindow
    <2> HIDE DEF c, w
    <2>4. Becomes(c, Rec(c, chan[c].queue, w, chan[c].inbox, chan[c].shut, chan[c].pending, chan[c].read))
      BY <2>1, <2>2, <2>3, WindowSet
    <2>5. Steady /\ Created' = Created
      BY <2>4, BecomesSteady
    <2>6. SenderOK'
      BY <1>5, <2>5, SenderMoves DEF SenderAt, SendTakesWindow
    <2>7. UNCHANGED <<notify, sent>>
      BY <1>5 DEF SendTakesWindow
    <2> QED
      BY <1>1, <2>5, <2>6, <2>7, TypeKept, TypePartsNext
  <1>6. CASE SendEnqueues(s)
    <2> DEFINE c == sender[s].ch
    <2> DEFINE q == Append(chan[c].queue, sender[s].msg)
    <2>1. c \in 1..Created /\ sender[s].msg \in Messages
      BY <1>3, <1>6 DEF SendEnqueues
    <2>2. q \in Seq(Messages)
      BY <2>1, ChannelTypes, SeqTypes
    <2>3. chan' = [chan EXCEPT ![c].queue = q]
      BY <1>6 DEF SendEnqueues
    <2>4. sent' = sent \cup {sender[s].msg}
      BY <1>6 DEF SendEnqueues
    <2>5. SentOK'
      BY <1>1, <2>1, <2>4 DEF SentOK, TypeOK
    <2> HIDE DEF c, q
    <2>6. Becomes(c, Rec(c, q, chan[c].window, chan[c].inbox, chan[c].shut, chan[c].pending, chan[c].read))
      BY <2>1, <2>2, <2>3, QueueSet
    <2>7. Steady /\ Created' = Created
      BY <2>6, BecomesSteady
    <2>8. SenderOK'
      BY <1>6, <2>7, SenderMoves DEF SenderAt, SendEnqueues
    <2>9. UNCHANGED notify
      BY <1>6 DEF SendEnqueues
    <2> QED
      BY <1>1, <2>5, <2>7, <2>8, <2>9, TypeKept, TypePartsNext
  <1>7. CASE SendNotifies(s)
    <2>1. Steady /\ Created' = Created
      BY <1>7, SameChannels DEF SendNotifies
    <2>2. SenderOK'
      BY <1>7, <2>1, SenderEnds DEF SendNotifies
    <2>3. TokensOK'
      BY <1>7, EndsAssumption DEF SendNotifies, Woken, TokensOK, TypeOK
    <2>4. UNCHANGED sent
      BY <1>7 DEF SendNotifies
    <2> QED
      BY <1>1, <2>1, <2>2, <2>3, <2>4, TypeKept, TypePartsNext
  <1>8. CASE SendFails(s)
    <2>1. Steady /\ Created' = Created
      BY <1>8, SameChannels DEF SendFails
    <2>2. SenderOK'
      BY <1>8, <2>1, SenderEnds DEF SendFails
    <2>3. UNCHANGED <<notify, sent>>
      BY <1>8 DEF SendFails
    <2> QED
      BY <1>1, <2>1, <2>2, <2>3, TypeKept, TypePartsNext
  <1> QED
    BY <1>4, <1>5, <1>6, <1>7, <1>8 DEF SendStep

(* The write loop.                                                         *)
LEMMA WriterSet ==
  ASSUME TypeOK, Steady, NEW e \in Ends, NEW w \in WriterTypes',
         writer' = [writer EXCEPT ![e] = w]
  PROVE  /\ WriterOK' /\ writer'[e] = w
         /\ \A g \in Ends : g # e => writer'[g] = writer[g]
  <1>1. writer \in [Ends -> WriterTypes']
    BY TypesGrow
  <1> QED
    BY <1>1, Zenon DEF WriterOK

LEMMA WriterMoves ==
  ASSUME TypeOK, Steady, Created' = Created, NEW e \in Ends,
         writer' = [writer EXCEPT ![e].pc = "round"]
  PROVE  /\ WriterOK'
         /\ writer'[e] = [pc |-> "round", todo |-> writer[e].todo, progress |-> writer[e].progress]
         /\ \A g \in Ends : g # e => writer'[g] = writer[g]
  <1>1. writer[e] \in WriterTypes
    BY TypeParts DEF WriterOK
  <1>2. [writer[e] EXCEPT !.pc = "round"]
          = [pc |-> "round", todo |-> writer[e].todo, progress |-> writer[e].progress]
    BY <1>1 DEF WriterTypes
  <1>3. [pc |-> "round", todo |-> writer[e].todo, progress |-> writer[e].progress] \in WriterTypes'
    BY <1>1 DEF WriterTypes
  <1>4. writer' = [writer EXCEPT ![e] = [writer[e] EXCEPT !.pc = "round"]]
    BY Zenon
  <1>5. writer' = [writer EXCEPT ![e] =
          [pc |-> "round", todo |-> writer[e].todo, progress |-> writer[e].progress]]
    BY <1>2, <1>4, Zenon
  <1> QED
    BY <1>3, <1>5, WriterSet

LEMMA WriterStopsTypes ==
  ASSUME TypeOK, NEW e \in Ends, WriterStops(e)
  PROVE  TypeOK' /\ Steady
  <1>1. Steady /\ Created' = Created
    BY SameChannels DEF WriterStops
  <1>2. CtrlOK'
    BY EmptySeq DEF WriterStops, CtrlOK, TypeOK
  <1>3. WriterOK'
    <2>1. [pc |-> "stopped", todo |-> {}, progress |-> FALSE] \in WriterTypes'
      BY DEF WriterTypes
    <2> QED
      BY <1>1, <2>1, WriterSet DEF WriterStops
  <1>4. UNCHANGED <<up, reading, table, notify, wire, held, sender, sent, offered, got,
                    closes, ended>>
    BY DEF WriterStops, senderVars, historyVars
  <1> QED
    BY <1>1, <1>2, <1>3, <1>4, TypeKept, TypePartsNext

(* What the loop does with the control frame of a round.                   *)
LEMMA CtrlWritten ==
  ASSUME TypeOK, NEW e \in Ends, ctrl[e] # <<>>,
         ctrl' = [ctrl EXCEPT ![e] = Tail(@)], wire' = Written(e, Head(ctrl[e]))
  PROVE  /\ CtrlOK' /\ WireOK' /\ Head(ctrl[e]) \in CloseFrames /\ Head(ctrl[e]).port \in Ports
  <1>1. ctrl \in [Ends -> Seq(CloseFrames)]
    BY DEF TypeOK
  <1>2. Head(ctrl[e]) \in CloseFrames /\ Tail(ctrl[e]) \in Seq(CloseFrames)
    BY <1>1, SeqTypes
  <1>3. CtrlOK'
    BY <1>1, <1>2 DEF CtrlOK
  <1>4. WireOK'
    BY <1>2, WrittenType DEF WireOK, WireFrames
  <1> QED
    BY <1>2, <1>3, <1>4, FrameTypes

LEMMA RoundEffect ==
  ASSUME TypeOK, NEW e \in Ends, WriterRound(e)
  PROVE  /\ Steady /\ Created' = Created /\ TableOK' /\ CtrlOK' /\ WireOK' /\ WriterOK'
         /\ writer'[e].todo = {table'[e][p] : p \in Ports} \ {0}
         /\ writer'[e].pc \in {"round", "data", "empty"}
         /\ writer'[e].pc # "data" => writer'[e].todo = {}
         /\ \A g \in Ends : g # e => writer'[g] = writer[g]
  <1> DEFINE open == {table'[e][p] : p \in Ports} \ {0}
  <1>1. /\ Steady /\ Created' = Created /\ TableOK' /\ CtrlOK' /\ WireOK'
    <2>1. CASE ctrl[e] = <<>>
      <3>1. UNCHANGED <<ctrl, wire, table, chan>>
        BY <2>1 DEF WriterRound
      <3> QED
        BY <3>1, SameChannels, TypeKept
    <2>2. CASE ctrl[e] # <<>>
      <3>1. /\ ctrl' = [ctrl EXCEPT ![e] = Tail(@)] /\ wire' = Written(e, Head(ctrl[e]))
            /\ CloseLocal(e, Head(ctrl[e]).port)
        BY <2>2 DEF WriterRound
      <3>2. CtrlOK' /\ WireOK' /\ Head(ctrl[e]).port \in Ports
        BY <2>2, <3>1, CtrlWritten
      <3>3. Steady /\ Created' = Created /\ table' = [table EXCEPT ![e][Head(ctrl[e]).port] = 0]
        BY <3>1, <3>2, ChannelShut
      <3>4. TableOK'
        BY <3>2, <3>3, TypesGrow, ChannelTypes DEF TableOK
      <3> QED
        BY <3>2, <3>3, <3>4
    <2> QED
      BY <2>1, <2>2
  <1>2. \A p \in Ports : table'[e][p] \in 0..Created'
    BY <1>1 DEF TableOK
  <1>3. open \in SUBSET (1..Created')
    BY <1>1, <1>2, ChannelTypes
  <1> DEFINE w == [pc |-> IF open # {} THEN "data" ELSE IF ctrl[e] # <<>> THEN "round" ELSE "empty",
                   todo |-> open, progress |-> ctrl[e] # <<>>]
  <1>4. writer' = [writer EXCEPT ![e] = w]
    BY DEF WriterRound
  <1>5. w \in WriterTypes'
    <2> HIDE DEF open
    <2> QED
      BY <1>3 DEF WriterTypes
  <1>6. /\ w.todo = open /\ w.pc \in {"round", "data", "empty"}
        /\ w.pc # "data" => w.todo = {}
    <2> HIDE DEF open
    <2> QED
      OBVIOUS
  <1> HIDE DEF w
  <1>7. WriterOK' /\ writer'[e] = w /\ \A g \in Ends : g # e => writer'[g] = writer[g]
    BY <1>1, <1>4, <1>5, WriterSet
  <1> QED
    BY <1>1, <1>6, <1>7

LEMMA WriterRoundTypes ==
  ASSUME TypeOK, NEW e \in Ends, WriterRound(e)
  PROVE  TypeOK' /\ Steady
  <1>1. Steady /\ Created' = Created /\ TableOK' /\ CtrlOK' /\ WireOK' /\ WriterOK'
    BY RoundEffect
  <1>2. UNCHANGED <<up, reading, notify, held, sender, sent, offered, got, closes, ended>>
    BY DEF WriterRound, senderVars, historyVars
  <1> QED
    BY <1>1, <1>2, TypeKept, TypePartsNext

LEMMA DataEffect ==
  ASSUME TypeOK, NEW e \in Ends, NEW c \in 1..Created, WriterData(e, c)
  PROVE  /\ Steady /\ Created' = Created /\ WireOK' /\ WriterOK'
         /\ chan'[c].queue = IF chan[c].queue = <<>> THEN <<>> ELSE Tail(chan[c].queue)
         /\ chan'[c].inbox = chan[c].inbox /\ chan'[c].shut = chan[c].shut
         /\ chan'[c].window = chan[c].window
         /\ \A d \in 1..Created : d # c => chan'[d] = chan[d]
         /\ writer'[e].todo = writer[e].todo \ {c}
         /\ writer'[e].progress = (writer[e].progress \/ chan[c].queue # <<>>)
         /\ writer'[e].pc = IF writer'[e].todo # {} THEN "data"
                            ELSE IF writer'[e].progress THEN "round" ELSE "wait"
         /\ \A g \in Ends : g # e => writer'[g] = writer[g]
  <1> DEFINE q == chan[c].queue
  <1>1. /\ Steady /\ Created' = Created /\ WireOK'
        /\ chan'[c].queue = IF q = <<>> THEN <<>> ELSE Tail(q)
        /\ chan'[c].inbox = chan[c].inbox /\ chan'[c].shut = chan[c].shut
        /\ chan'[c].window = chan[c].window
        /\ \A d \in 1..Created : d # c => chan'[d] = chan[d]
    <2>1. CASE q = <<>>
      <3>1. UNCHANGED <<chan, wire>>
        BY <2>1 DEF WriterData
      <3>2. Steady /\ Created' = Created /\ WireOK'
        BY <3>1, SameChannels, TypeKept
      <3> QED
        BY <2>1, <3>1, <3>2
    <2>2. CASE q # <<>>
      <3>1. /\ chan' = [chan EXCEPT ![c].queue = Tail(q)]
            /\ wire' = Written(e, Data(chan[c].port, Head(q)))
        BY <2>2 DEF WriterData
      <3>2. Head(q) \in Messages /\ Tail(q) \in Seq(Messages) /\ chan[c].port \in Ports
        BY <2>2, ChannelTypes, SeqTypes
      <3>3. WireOK'
        BY <3>1, <3>2, FrameTypes, WrittenType DEF WireOK, WireFrames
      <3>4. Becomes(c, Rec(c, Tail(q), chan[c].window, chan[c].inbox, chan[c].shut,
                           chan[c].pending, chan[c].read))
        BY <3>1, <3>2, QueueSet
      <3>5. /\ Steady /\ Created' = Created
            /\ chan'[c].queue = Tail(q) /\ chan'[c].window = chan[c].window
            /\ chan'[c].inbox = chan[c].inbox /\ chan'[c].shut = chan[c].shut
            /\ \A d \in 1..Created : d # c => chan'[d] = chan[d]
        BY <3>4, BecomesSteady
      <3> HIDE DEF q
      <3> QED
        BY <2>2, <3>3, <3>5
    <2> QED
      BY <2>1, <2>2
  <1> DEFINE todo == writer[e].todo \ {c}
  <1> DEFINE progress == writer[e].progress \/ q # <<>>
  <1> DEFINE w == [pc |-> IF todo # {} THEN "data" ELSE IF progress THEN "round" ELSE "wait",
                   todo |-> todo, progress |-> progress]
  <1>2. writer' = [writer EXCEPT ![e] = w]
    BY DEF WriterData
  <1>3. writer[e].todo \subseteq 1..Created /\ writer[e].progress \in BOOLEAN
    BY DEF TypeOK
  <1>4. w \in WriterTypes'
    <2>1. todo \in SUBSET (1..Created') /\ progress \in BOOLEAN
      BY <1>1, <1>3
    <2> HIDE DEF todo, progress
    <2> QED
      BY <2>1 DEF WriterTypes
  <1>5. /\ w.todo = todo
        /\ w.pc = IF todo # {} THEN "data" ELSE IF progress THEN "round" ELSE "wait"
    OBVIOUS
  <1>6. w.progress = progress
    BY Zenon
  <1> HIDE DEF w
  <1>7. WriterOK' /\ writer'[e] = w /\ \A g \in Ends : g # e => writer'[g] = writer[g]
    BY <1>1, <1>2, <1>4, WriterSet
  <1>8. writer'[e].progress = progress
    BY <1>6, <1>7, Zenon
  <1> HIDE DEF progress
  <1>9. /\ writer'[e].todo = writer[e].todo \ {c}
        /\ writer'[e].pc = IF writer'[e].todo # {} THEN "data"
                            ELSE IF writer'[e].progress THEN "round" ELSE "wait"
    BY <1>5, <1>7, <1>8
  <1> QED
    BY <1>1, <1>7, <1>8, <1>9, Zenon DEF progress

LEMMA WriterDataTypes ==
  ASSUME TypeOK, NEW e \in Ends, NEW c \in 1..Created, WriterData(e, c)
  PROVE  TypeOK' /\ Steady
  <1>1. Steady /\ Created' = Created /\ WireOK' /\ WriterOK'
    BY DataEffect
  <1>2. UNCHANGED <<up, reading, table, ctrl, notify, held, sender, sent, offered, got,
                    closes, ended>>
    BY DEF WriterData, senderVars, historyVars
  <1> QED
    BY <1>1, <1>2, TypeKept, TypePartsNext

LEMMA WriterWaitTypes ==
  ASSUME TypeOK, NEW e \in Ends, WriterWakes(e) \/ WriterWaitCtrl(e)
  PROVE  TypeOK' /\ Steady
  <1>1. Steady /\ Created' = Created
    BY SameChannels DEF WriterWakes, WriterWaitCtrl
  <1>2. WriterOK'
    BY <1>1, WriterMoves DEF WriterWakes, WriterWaitCtrl
  <1>3. UNCHANGED <<up, reading, table, held, sender, sent, offered, got, closes, ended>>
    BY DEF WriterWakes, WriterWaitCtrl, senderVars, historyVars
  <1>4. CASE WriterWakes(e)
    <2>1. TokensOK'
      BY <1>4 DEF WriterWakes, TokensOK, TypeOK
    <2>2. UNCHANGED <<ctrl, wire>>
      BY <1>4 DEF WriterWakes
    <2> QED
      BY <1>1, <1>2, <1>3, <2>1, <2>2, TypeKept, TypePartsNext
  <1>5. CASE WriterWaitCtrl(e)
    <2>1. CtrlOK' /\ WireOK' /\ UNCHANGED notify
      BY <1>5, CtrlWritten DEF WriterWaitCtrl
    <2> QED
      BY <1>1, <1>2, <1>3, <2>1, TypeKept, TypePartsNext
  <1> QED
    BY <1>1, <1>4, <1>5

(* The read loop and its workers.                                          *)
LEMMA ReadEndsTypes ==
  ASSUME TypeOK, NEW e \in Ends, ReadEnds(e)
  PROVE  TypeOK' /\ Steady
  <1>1. Steady /\ Created' = Created
    BY ChannelsShut
  <1>2. FlagsOK'
    BY DEF ReadEnds, FlagsOK, TypeOK
  <1>3. TableOK'
    <2>1. [p \in Ports |-> 0] \in [Ports -> 0..Created'] /\ table \in [Ends -> [Ports -> 0..Created']]
      BY <1>1, ChannelTypes, TypesGrow
    <2> QED
      BY <2>1, Zenon DEF ReadEnds, TableOK
  <1>4. UNCHANGED <<ctrl, notify, writer, wire, held, sender, sent, offered, got, closes, ended>>
    BY DEF ReadEnds, senderVars, historyVars
  <1> QED
    BY <1>1, <1>2, <1>3, <1>4, TypeKept, TypePartsNext

LEMMA FrameTaken ==
  ASSUME TypeOK, NEW e \in Ends, wire[e] # <<>>, wire' = [wire EXCEPT ![e] = Tail(@)]
  PROVE  /\ WireOK' /\ Head(wire[e]) \in WireFrames /\ Tail(wire[e]) \in Seq(WireFrames)
         /\ wire'[e] = Tail(wire[e]) /\ \A g \in Ends : g # e => wire'[g] = wire[g]
  <1>1. wire \in [Ends -> Seq(WireFrames)]
    BY TypeParts DEF WireOK
  <1>2. Head(wire[e]) \in WireFrames /\ Tail(wire[e]) \in Seq(WireFrames)
    BY <1>1, SeqTypes
  <1> QED
    BY <1>1, <1>2 DEF WireOK

LEMMA WorkerTakesTypes ==
  ASSUME TypeOK, NEW e \in Ends, WorkerTakes(e)
  PROVE  TypeOK' /\ Steady
  <1> DEFINE j == [frame |-> Head(wire[e]), ch |-> 0, fresh |-> FALSE]
  <1>1. Steady /\ Created' = Created
    BY SameChannels DEF WorkerTakes
  <1>2. WireOK' /\ Head(wire[e]) \in WireFrames
    BY FrameTaken DEF WorkerTakes
  <1>3. Head(wire[e]) \in DataFrames \cup CloseFrames
    BY <1>2, FrameTypes DEF WorkerTakes, WireFrames
  <1>4. j \in Held'
    BY <1>1, <1>3, ChannelTypes DEF Held
  <1>5. HeldOK'
    <2>1. held \in [Ends -> SUBSET Held'] /\ held' = [held EXCEPT ![e] = held[e] \cup {j}]
      BY <1>1, TypesGrow DEF WorkerTakes
    <2> HIDE DEF j
    <2> QED
      BY <1>4, <2>1 DEF HeldOK
  <1>6. UNCHANGED <<up, reading, table, ctrl, notify, writer, sender, sent, offered, got,
                    closes, ended>>
    BY DEF WorkerTakes, senderVars, historyVars
  <1> QED
    BY <1>1, <1>2, <1>5, <1>6, TypeKept, TypePartsNext

LEMMA UpdateEffect ==
  ASSUME TypeOK, NEW e \in Ends, HandleWindowUpdate(e)
  PROVE  /\ Steady /\ Created' = Created
         /\ \A c \in 1..Created :
              /\ chan'[c].queue = chan[c].queue /\ chan'[c].inbox = chan[c].inbox
              /\ chan'[c].shut = chan[c].shut
              /\ chan'[c].window \in Int /\ chan'[c].window >= chan[c].window
  <1> DEFINE c == table[e][Head(wire[e]).port]
  <1> DEFINE n == Head(wire[e]).n
  <1>1. Head(wire[e]) \in WireFrames
    BY FrameTaken DEF HandleWindowUpdate
  <1>2. n \in Nat /\ Head(wire[e]).port \in Ports
    BY <1>1, FrameTypes DEF HandleWindowUpdate
  <1>3. c \in 0..Created /\ Created \in Nat
    BY <1>2, ChannelTypes DEF TypeOK
  <1>4. CASE c = 0
    <2>1. chan' = chan
      BY <1>4 DEF HandleWindowUpdate
    <2> QED
      BY <2>1, SameChannels, ChannelTypes
  <1>5. CASE c # 0
    <2> DEFINE w == chan[c].window + n
    <2>1. chan' = [chan EXCEPT ![c].window = w] /\ c \in 1..Created
      <3>1. c \in 1..Created
        BY <1>3, <1>5
      <3>2. chan' = [chan EXCEPT ![c].window = w]
        BY <1>5, ZenonT(60) DEF HandleWindowUpdate
      <3> QED
        BY <3>1, <3>2
    <2> HIDE DEF c, n
    <2>2. w \in Int /\ w >= chan[c].window
      BY <1>2, <2>1, ChannelTypes
    <2> HIDE DEF w
    <2>3. Becomes(c, Rec(c, chan[c].queue, w, chan[c].inbox, chan[c].shut, chan[c].pending, chan[c].read))
      BY <2>1, <2>2, WindowSet
    <2>4. /\ Steady /\ Created' = Created
          /\ chan'[c].queue = chan[c].queue /\ chan'[c].window = w
          /\ chan'[c].inbox = chan[c].inbox /\ chan'[c].shut = chan[c].shut
          /\ \A d \in 1..Created : d # c => chan'[d] = chan[d]
      BY <2>3, BecomesSteady
    <2> QED
      BY <2>2, <2>4, ChannelTypes
  <1> QED
    BY <1>4, <1>5

LEMMA UpdateTypes ==
  ASSUME TypeOK, NEW e \in Ends, HandleWindowUpdate(e)
  PROVE  TypeOK' /\ Steady
  <1>1. Steady /\ Created' = Created
    BY UpdateEffect
  <1>2. WireOK'
    BY FrameTaken DEF HandleWindowUpdate
  <1>3. UNCHANGED <<up, reading, table, ctrl, notify, writer, held, sender, sent,
                    offered, got, closes, ended>>
    BY DEF HandleWindowUpdate, senderVars, historyVars
  <1> QED
    BY <1>1, <1>2, <1>3, TypeKept, TypePartsNext

LEMMA HeldSet ==
  ASSUME TypeOK, Steady, NEW e \in Ends, NEW j \in held[e],
         held' = Released(e, j) \/ \E k \in Held' : held' = Replaced(e, j, k)
  PROVE  HeldOK'
  <1>1. held \in [Ends -> SUBSET Held']
    BY TypesGrow
  <1> QED
    BY <1>1 DEF HeldOK, Released, Replaced

(* The three outcomes of looking up the channel of a data frame.           *)
LEMMA DispatchEffect ==
  ASSUME TypeOK, NEW e \in Ends, NEW j \in held[e], DispatchData(e, j)
  PROVE  LET p == j.frame.port  c == table[e][p] IN
         /\ j.frame \in DataFrames /\ p \in Ports /\ Steady /\ TableOK'
         /\ \/ /\ c # 0 /\ c \in 1..Created /\ UNCHANGED <<table, chan>> /\ Created' = Created
               /\ held' = Replaced(e, j, [frame |-> j.frame, ch |-> c, fresh |-> j.fresh])
            \/ /\ c = 0 /\ e \notin Creators /\ UNCHANGED <<table, chan>> /\ Created' = Created
               /\ held' = Released(e, j)
            \/ /\ c = 0 /\ e \in Creators /\ Created < MaxChannels /\ Created' = Created + 1
               /\ chan' = Append(chan, NewChannel(e, p))
               /\ table' = [table EXCEPT ![e][p] = Created + 1]
               /\ held' = Replaced(e, j, [frame |-> j.frame, ch |-> Created + 1, fresh |-> TRUE])
  <1> DEFINE p == j.frame.port
  <1> DEFINE c == table[e][p]
  <1>1. /\ j.frame \in DataFrames /\ p \in Ports
        /\ j = [frame |-> j.frame, ch |-> j.ch, fresh |-> j.fresh]
    BY HeldTypes DEF DispatchData
  <1>2. c \in 0..Created /\ Created \in Nat
    BY <1>1, ChannelTypes DEF TypeOK
  <1>3. \A x : [j EXCEPT !.ch = x] = [frame |-> j.frame, ch |-> x, fresh |-> j.fresh]
    BY <1>1
  <1>4. \A x, y : [j EXCEPT !.ch = x, !.fresh = y] = [frame |-> j.frame, ch |-> x, fresh |-> y]
    <2>1. \A x, y : [j EXCEPT !.ch = x, !.fresh = y] = [[j EXCEPT !.ch = x] EXCEPT !.fresh = y]
      BY Zenon
    <2>2. \A x, y : [[frame |-> j.frame, ch |-> x, fresh |-> j.fresh] EXCEPT !.fresh = y]
            = [frame |-> j.frame, ch |-> x, fresh |-> y]
      OBVIOUS
    <2> QED
      BY <1>3, <2>1, <2>2, Zenon
  <1>5. CASE c # 0 /\ held' = Replaced(e, j, [j EXCEPT !.ch = c]) /\ UNCHANGED <<table, chan>>
    <2>1. held' = Replaced(e, j, [frame |-> j.frame, ch |-> c, fresh |-> j.fresh])
      BY <1>3, <1>5, Zenon
    <2>2. Steady /\ Created' = Created /\ TableOK'
      BY <1>5, SameChannels, TypeKept
    <2> QED
      BY <1>1, <1>2, <1>5, <2>1, <2>2
  <1>6. CASE c = 0 /\ e \notin Creators /\ held' = Released(e, j) /\ UNCHANGED <<table, chan>>
    <2>1. Steady /\ Created' = Created /\ TableOK'
      BY <1>6, SameChannels, TypeKept
    <2> QED
      BY <1>1, <1>6, <2>1
  <1>7. CASE /\ c = 0 /\ e \in Creators /\ Created < MaxChannels
             /\ chan' = Append(chan, NewChannel(e, p))
             /\ table' = [table EXCEPT ![e][p] = Created + 1]
             /\ held' = Replaced(e, j, [j EXCEPT !.ch = Created + 1, !.fresh = TRUE])
    <2>1. held' = Replaced(e, j, [frame |-> j.frame, ch |-> Created + 1, fresh |-> TRUE])
      BY <1>4, <1>7, Zenon
    <2>2. Steady /\ Created' = Created + 1
      BY <1>1, <1>7, ChannelAdded
    <2>3. TableOK'
      BY <1>1, <1>2, <1>7, <2>2, TypesGrow DEF TableOK
    <2> QED
      BY <1>1, <1>7, <2>1, <2>2, <2>3
  <1> QED
    BY <1>5, <1>6, <1>7 DEF DispatchData

LEMMA DispatchTypes ==
  ASSUME TypeOK, NEW e \in Ends, NEW j \in held[e], DispatchData(e, j)
  PROVE  TypeOK' /\ Steady
  <1>1. /\ j.frame \in DataFrames /\ j.fresh \in BOOLEAN /\ Steady /\ TableOK'
        /\ Created \in Nat /\ MaxChannels \in Nat /\ Created <= MaxChannels
    BY DispatchEffect, HeldTypes, ChannelTypes, EndsAssumption DEF TypeOK
  <1>2. Created' <= MaxChannels
    <2>1. Created' = Created \/ (Created < MaxChannels /\ Created' = Created + 1)
      BY DispatchEffect, Zenon
    <2> QED
      BY <1>1, <2>1
  <1>3. HeldOK'
    <2>1. \A c \in 0..Created', b \in BOOLEAN :
            [frame |-> j.frame, ch |-> c, fresh |-> b] \in Held'
      BY <1>1 DEF Held
    <2>2. TRUE \in BOOLEAN
      OBVIOUS
    <2>3. CASE held' = Released(e, j)
      BY <1>1, <2>3, HeldSet
    <2>4. CASE \E c \in 1..Created : /\ Created' = Created
               /\ held' = Replaced(e, j, [frame |-> j.frame, ch |-> c, fresh |-> j.fresh])
      <3>1. PICK c \in 1..Created : /\ Created' = Created
               /\ held' = Replaced(e, j, [frame |-> j.frame, ch |-> c, fresh |-> j.fresh])
        BY <2>4
      <3>2. c \in 0..Created'
        BY <1>1, <3>1
      <3>3. [frame |-> j.frame, ch |-> c, fresh |-> j.fresh] \in Held'
        BY <1>1, <2>1, <3>2, Zenon
      <3> QED
        BY <1>1, <3>1, <3>3, HeldSet
    <2>5. CASE /\ Created' = Created + 1
               /\ held' = Replaced(e, j, [frame |-> j.frame, ch |-> Created + 1, fresh |-> TRUE])
      <3>1. Created + 1 \in 0..Created'
        BY <1>1, <2>5
      <3>2. [frame |-> j.frame, ch |-> Created + 1, fresh |-> TRUE] \in Held'
        BY <2>1, <2>2, <3>1, Zenon
      <3> QED
        BY <1>1, <2>5, <3>2, HeldSet
    <2> QED
      BY <2>3, <2>4, <2>5, DispatchEffect
  <1>4. UNCHANGED <<up, reading, ctrl, notify, writer, wire, sender, sent, offered, got,
                    closes, ended>>
    BY DEF DispatchData, senderVars, historyVars
  <1> QED
    BY <1>1, <1>2, <1>3, <1>4, TypeKept, TypePartsNext

LEMMA DeliverEffect ==
  ASSUME TypeOK, NEW e \in Ends, NEW j \in held[e], DispatchDelivers(e, j)
  PROVE  /\ j.frame \in DataFrames /\ j.ch \in 1..Created /\ Steady /\ Created' = Created
         /\ held' = Released(e, j)
         /\ \A c \in 1..Created :
              /\ c # j.ch => chan'[c] = chan[c]
              /\ chan'[c].queue = chan[c].queue /\ chan'[c].shut = chan[c].shut
              /\ chan'[c].window = chan[c].window
         /\ \/ chan'[j.ch].inbox = Append(chan[j.ch].inbox, j.frame.n)
            \/ chan' = chan /\ GivesUp(e, j)
  <1> DEFINE c == j.ch
  <1>1. /\ j.frame \in DataFrames /\ c \in 1..Created /\ j.frame.n \in Messages
        /\ held' = Released(e, j)
    BY HeldTypes, ChannelTypes, FrameTypes DEF DispatchDelivers
  <1>2. CASE chan' = chan /\ GivesUp(e, j)
    BY <1>1, <1>2, SameChannels
  <1>3. CASE chan' = [chan EXCEPT ![c].inbox = Append(@, j.frame.n)]
    <2> DEFINE i == Append(chan[c].inbox, j.frame.n)
    <2>1. chan' = [chan EXCEPT ![c].inbox = i]
      BY <1>3
    <2>2. i \in Seq(Messages)
      BY <1>1, ChannelTypes, SeqTypes
    <2> HIDE DEF i, c
    <2>3. Becomes(c, Rec(c, chan[c].queue, chan[c].window, i, chan[c].shut, chan[c].pending, chan[c].read))
      BY <1>1, <2>1, <2>2, InboxSet
    <2>4. /\ Steady /\ Created' = Created
          /\ chan'[c].queue = chan[c].queue /\ chan'[c].window = chan[c].window
          /\ chan'[c].inbox = i /\ chan'[c].shut = chan[c].shut
          /\ \A d \in 1..Created : d # c => chan'[d] = chan[d]
      BY <2>3, BecomesSteady
    <2> QED
      BY <1>1, <2>4 DEF i, c
  <1> QED
    BY <1>2, <1>3 DEF DispatchDelivers

LEMMA DeliverTypes ==
  ASSUME TypeOK, NEW e \in Ends, NEW j \in held[e], DispatchDelivers(e, j)
  PROVE  TypeOK' /\ Steady
  <1>1. Steady /\ Created' = Created /\ HeldOK'
    BY DeliverEffect, HeldSet
  <1>2. UNCHANGED <<up, reading, table, ctrl, notify, writer, wire, sender, sent,
                    offered, got, closes, ended>>
    BY DEF DispatchDelivers, senderVars, historyVars
  <1> QED
    BY <1>1, <1>2, TypeKept, TypePartsNext

LEMMA DispatchCloseTypes ==
  ASSUME TypeOK, NEW e \in Ends, NEW j \in held[e], DispatchClose(e, j)
  PROVE  TypeOK' /\ Steady
  <1>1. j.frame.port \in Ports
    BY HeldTypes
  <1>2. Steady /\ Created' = Created /\ table' = [table EXCEPT ![e][j.frame.port] = 0]
    BY <1>1, ChannelShut DEF DispatchClose
  <1>3. TableOK'
    BY <1>1, <1>2, TypesGrow, ChannelTypes DEF TableOK
  <1>4. HeldOK'
    BY <1>2, HeldSet DEF DispatchClose
  <1>5. UNCHANGED <<up, reading, ctrl, notify, writer, wire, sender, sent, offered, got,
                    closes, ended>>
    BY DEF DispatchClose, senderVars, historyVars
  <1> QED
    BY <1>2, <1>3, <1>4, <1>5, TypeKept, TypePartsNext

(* The readers of the channels.                                            *)
LEMMA ReadEffect ==
  ASSUME TypeOK, NEW c \in 1..Created, ChannelRead(c)
  PROVE  /\ Steady /\ Created' = Created
         /\ chan[c].inbox # <<>> /\ Head(chan[c].inbox) \in Messages
         /\ chan'[c].inbox = Tail(chan[c].inbox) /\ got' = Append(got, Head(chan[c].inbox))
         /\ chan'[c].queue = chan[c].queue /\ chan'[c].shut = chan[c].shut
         /\ chan'[c].window = chan[c].window
         /\ \A d \in 1..Created : d # c => chan'[d] = chan[d]
  <1> DEFINE i == Tail(chan[c].inbox)
  <1> DEFINE r == Size[Head(chan[c].inbox)]
  <1>1. chan[c].inbox # <<>> /\ got' = Append(got, Head(chan[c].inbox))
    BY DEF ChannelRead
  <1>2. Head(chan[c].inbox) \in Messages /\ i \in Seq(Messages)
    BY <1>1, ChannelTypes, SeqTypes
  <1>3. r \in Nat
    BY <1>2, WindowAssumption DEF Messages
  <1>4. chan' = [chan EXCEPT ![c].inbox = i, ![c].read = r]
    BY DEF ChannelRead
  <1> HIDE DEF i, r
  <1>5. Becomes(c, Rec(c, chan[c].queue, chan[c].window, i, chan[c].shut, chan[c].pending, r))
    BY <1>2, <1>3, <1>4, ReadTaken
  <1>6. /\ Steady /\ Created' = Created
        /\ chan'[c].queue = chan[c].queue /\ chan'[c].window = chan[c].window
        /\ chan'[c].inbox = i /\ chan'[c].shut = chan[c].shut
        /\ \A d \in 1..Created : d # c => chan'[d] = chan[d]
    BY <1>5, BecomesSteady
  <1> QED
    BY <1>1, <1>2, <1>6 DEF i

LEMMA ReceiveTypes ==
  ASSUME TypeOK, NEW c \in 1..Created, ReceiveStep(c)
  PROVE  TypeOK' /\ Steady
  <1>1. UNCHANGED <<up, reading, table, ctrl, notify, writer, held, sender, sent,
                    offered, closes, ended>>
    BY DEF ReceiveStep, ChannelRead, SendWindowUpdate, senderVars, historyVars
  <1>2. CASE ChannelRead(c)
    <2>1. Steady /\ Created' = Created
      BY <1>2, ReadEffect
    <2>2. GotOK'
      <3>1. Head(chan[c].inbox) \in Messages /\ got' = Append(got, Head(chan[c].inbox))
        BY <1>2, ReadEffect
      <3>2. got \in Seq(Messages)
        BY DEF TypeOK
      <3> QED
        BY <3>1, <3>2, SeqTypes DEF GotOK
    <2>3. UNCHANGED wire
      BY <1>2 DEF ChannelRead
    <2> QED
      BY <1>1, <2>1, <2>2, <2>3, TypeKept, TypePartsNext
  <1>3. CASE SendWindowUpdate(c)
    <2>1. Steady /\ Created' = Created
      BY <1>3, UpdateCounts, ChannelTypes DEF CountersOnly, Steady
    <2>2. UNCHANGED got
      BY <1>3 DEF SendWindowUpdate, historyVars
    <2>3. WireOK'
      <3> DEFINE e == chan[c].at
      <3> DEFINE p == chan[c].port
      <3> DEFINE d == table[e][p]
      <3>1. e \in Ends /\ p \in Ports /\ d \in 0..Created /\ Created \in Nat
        <4>1. e \in Ends /\ p \in Ports
          BY ChannelTypes
        <4>2. table \in [Ends -> [Ports -> 0..Created]] /\ Created \in Nat
          BY ChannelTypes, SMTT(30) DEF TypeOK
        <4> QED
          BY <4>1, <4>2
      <3>2. d # 0 => chan[d].pending + chan[c].read \in Nat
        BY <3>1, ChannelTypes
      <3>3. \/ UNCHANGED wire
            \/ \E n \in Nat : wire' = Written(e, Update(p, n))
        BY <1>3, <3>2 DEF SendWindowUpdate
      <3>4. \A n \in Nat : Update(p, n) \in WireFrames
        BY <3>1, FrameTypes DEF WireFrames
      <3> QED
        BY <2>1, <3>1, <3>3, <3>4, TypeKept, WrittenType DEF WireOK
    <2> QED
      BY <1>1, <2>1, <2>2, <2>3, TypeKept, TypePartsNext
  <1> QED
    BY <1>2, <1>3 DEF ReceiveStep

(* Every step keeps the types and the places of the channels.              *)
LEMMA NextTypes ==
  ASSUME TypeOK, GoroutinesInStep, Next
  PROVE  TypeOK' /\ Steady
  <1>0. Creators \subseteq Ends /\ Closers \subseteq Ends
    BY EndsAssumption
  <1>1. CASE \E e \in Ends \ Creators, p \in Ports : OpenChannel(e, p)
    BY <1>1, OpenTypes
  <1>2. CASE \/ \E e \in Closers, p \in Ports : CloseChannel(e, p)
             \/ \E e \in Closers : Close(e)
    <2>1. CASE \E e \in Closers, p \in Ports : CloseChannel(e, p)
      BY <1>0, <2>1, CloseTypes
    <2>2. CASE \E e \in Closers : Close(e)
      <3>1. PICK e \in Ends : Close(e)
        BY <1>0, <2>2
      <3> QED
        BY <3>1, CloseEndTypes
    <2> QED
      BY <1>2, <2>1, <2>2
  <1>3. CASE \E e \in Ends : Writer(e)
    BY <1>3, WriterStopsTypes, WriterRoundTypes, WriterDataTypes, WriterWaitTypes DEF Writer
  <1>4. CASE \E e \in Ends : ReadEnds(e)
    BY <1>4, ReadEndsTypes
  <1>5. CASE \E e \in Ends : WorkerTakes(e) \/ HandleWindowUpdate(e)
    BY <1>5, WorkerTakesTypes, UpdateTypes
  <1>6. CASE \E e \in Ends, n \in Frames : Dispatch(e, n)
    BY <1>6, DispatchTypes, DeliverTypes, DispatchCloseTypes DEF Dispatch
  <1>7. CASE \E s \in Senders : Send(s) \/ SendStep(s)
    BY <1>7, SendTypes, SendStepTypes
  <1>8. CASE \E c \in 1..Created : ReceiveStep(c)
    BY <1>8, ReceiveTypes
  <1> QED
    BY <1>1, <1>2, <1>3, <1>4, <1>5, <1>6, <1>7, <1>8 DEF Next

-----------------------------------------------------------------------------
(* What a step of a call of Send does to the channels.                     *)
LEMMA SendEffect ==
  ASSUME TypeOK, GoroutinesInStep, NEW s \in Senders, SendStep(s)
  PROVE  LET c == sender[s].ch  m == sender[s].msg IN
         /\ table' = table /\ sender[s].pc # "idle" /\ c \in 1..Created /\ m \in Messages
         /\ Steady /\ Created' = Created
         /\ \A d \in 1..Created :
              /\ chan'[d].shut = chan[d].shut /\ chan'[d].inbox = chan[d].inbox
              /\ d # c => chan'[d] = chan[d]
         /\ SendTakesWindow(s) => /\ chan'[c].window = chan[c].window - Size[m]
                                  /\ chan'[c].queue = chan[c].queue
         /\ SendEnqueues(s) => /\ chan'[c].queue = Append(chan[c].queue, m)
                               /\ chan'[c].window = chan[c].window
         /\ ~SendTakesWindow(s) /\ ~SendEnqueues(s) => chan' = chan
  <1> DEFINE c == sender[s].ch
  <1> DEFINE m == sender[s].msg
  <1>1. table' = table /\ sender[s].pc # "idle"
    BY DEF SendStep, SendSeesWindow, SendTakesWindow, SendEnqueues, SendNotifies, SendFails
  <1>2. c \in 1..Created /\ m \in Messages
    <2>1. c \in 0..Created /\ m \in 0..MaxMessages /\ Created \in Nat /\ MaxMessages \in Nat
      BY ChannelTypes, EndsAssumption DEF TypeOK
    <2>2. c # 0 /\ m \in 1..offered /\ offered \in 0..MaxMessages
      BY <1>1 DEF GoroutinesInStep, TypeOK
    <2> QED
      BY <2>1, <2>2 DEF Messages
  <1>3. CASE SendTakesWindow(s)
    <2> DEFINE w == chan[c].window - Size[m]
    <2>1. w \in Int
      BY <1>2, ChannelTypes, WindowAssumption, SMTT(30) DEF Messages
    <2>2. chan' = [chan EXCEPT ![c].window = w] /\ sender[s].pc = "take"
      BY <1>3 DEF SendTakesWindow
    <2> HIDE DEF w, c, m
    <2>3. Becomes(c, Rec(c, chan[c].queue, w, chan[c].inbox, chan[c].shut, chan[c].pending, chan[c].read))
      BY <1>2, <2>1, <2>2, WindowSet
    <2>4. /\ Steady /\ Created' = Created
          /\ chan'[c].queue = chan[c].queue /\ chan'[c].window = w
          /\ chan'[c].inbox = chan[c].inbox /\ chan'[c].shut = chan[c].shut
          /\ \A d \in 1..Created : d # c => chan'[d] = chan[d]
      BY <2>3, BecomesSteady
    <2>5. ~SendEnqueues(s)
      BY <2>2 DEF SendEnqueues
    <2> QED
      BY <1>1, <1>2, <1>3, <2>4, <2>5 DEF w, c, m
  <1>4. CASE SendEnqueues(s)
    <2> DEFINE q == Append(chan[c].queue, m)
    <2>1. q \in Seq(Messages)
      BY <1>2, ChannelTypes, SeqTypes
    <2>2. chan' = [chan EXCEPT ![c].queue = q] /\ sender[s].pc = "enqueue"
      BY <1>4 DEF SendEnqueues
    <2> HIDE DEF q, c, m
    <2>3. Becomes(c, Rec(c, q, chan[c].window, chan[c].inbox, chan[c].shut, chan[c].pending, chan[c].read))
      BY <1>2, <2>1, <2>2, QueueSet
    <2>4. /\ Steady /\ Created' = Created
          /\ chan'[c].queue = q /\ chan'[c].window = chan[c].window
          /\ chan'[c].inbox = chan[c].inbox /\ chan'[c].shut = chan[c].shut
          /\ \A d \in 1..Created : d # c => chan'[d] = chan[d]
      BY <2>3, BecomesSteady
    <2>5. ~SendTakesWindow(s)
      BY <2>2 DEF SendTakesWindow
    <2> QED
      BY <1>1, <1>2, <1>4, <2>4, <2>5 DEF q, c, m
  <1>5. CASE ~SendTakesWindow(s) /\ ~SendEnqueues(s)
    <2>1. chan' = chan
      BY <1>5 DEF SendStep, SendSeesWindow, SendNotifies, SendFails
    <2>2. Steady /\ Created' = Created
      BY <2>1, SameChannels
    <2> QED
      BY <1>1, <1>2, <1>5, <2>1, <2>2
  <1> QED
    BY <1>3, <1>4, <1>5

(* An open channel is the listed one.                                      *)
LEMMA SameListed ==
  ASSUME TypeOK, OpenIsListed, Created' = Created, table' = table,
         \A c \in 1..Created : /\ chan'[c].at = chan[c].at /\ chan'[c].port = chan[c].port
                               /\ chan'[c].shut = chan[c].shut
  PROVE  OpenIsListed'
  <1>1. \A e \in Ends, p \in Ports : table[e][p] \in 0..Created /\ Created \in Nat
    BY ChannelTypes DEF TypeOK
  <1>2. \A e \in Ends, p \in Ports : table[e][p] # 0 => table[e][p] \in 1..Created
    BY <1>1
  <1>3. \A c \in 1..Created' : ~chan'[c].shut => table'[chan'[c].at][chan'[c].port] = c
    BY DEF OpenIsListed
  <1>4. ASSUME NEW e \in Ends, NEW p \in Ports, table'[e][p] # 0
        PROVE  LET c == chan'[table'[e][p]] IN c.at = e /\ c.port = p /\ ~c.shut
    <2>1. table[e][p] \in 1..Created
      BY <1>2, <1>4
    <2> QED
      BY <1>4, <2>1 DEF OpenIsListed
  <1> QED
    BY <1>3, <1>4 DEF OpenIsListed

LEMMA ListedWith ==
  ASSUME TypeOK, OpenIsListed, NEW e \in Ends, NEW p \in Ports,
         Created' = Created + 1, chan'[Created + 1] = NewChannel(e, p),
         \A c \in 1..Created : chan'[c] = chan[c],
         \A c \in 1..Created' : c \in 1..Created \/ c = Created + 1,
         table[e][p] = 0, table'[e][p] = Created + 1,
         \A g \in Ends, q \in Ports : g # e \/ q # p => table'[g][q] = table[g][q]
  PROVE  OpenIsListed'
  <1>1. Created \in Nat
    BY ChannelTypes
  <1>3. /\ NewChannel(e, p).at = e /\ NewChannel(e, p).port = p /\ ~NewChannel(e, p).shut
    BY DEF NewChannel
  <1>4. ASSUME NEW c \in 1..Created', ~chan'[c].shut
        PROVE  table'[chan'[c].at][chan'[c].port] = c
    <2>1. CASE c = Created + 1
      BY <1>3, <2>1
    <2>2. CASE c \in 1..Created
      <3>0. chan'[c] = chan[c] /\ c # 0
        BY <1>1, <2>2
      <3>1. chan'[c] = chan[c] /\ table[chan[c].at][chan[c].port] = c /\ c # 0
        BY <1>4, <2>2, <3>0, Zenon DEF OpenIsListed
      <3>2. chan[c].at \in Ends /\ chan[c].port \in Ports
        BY <2>2, ChannelTypes
      <3> QED
        BY <3>1, <3>2
    <2> QED
      BY <1>1, <2>1, <2>2
  <1>5. ASSUME NEW g \in Ends, NEW q \in Ports, table'[g][q] # 0
        PROVE  LET c == chan'[table'[g][q]] IN c.at = g /\ c.port = q /\ ~c.shut
    <2>1. CASE g = e /\ q = p
      BY <1>3, <2>1, Zenon
    <2>2. CASE g # e \/ q # p
      <3>1. table'[g][q] = table[g][q] /\ table[g][q] \in 0..Created
        BY <2>2 DEF TypeOK
      <3>2. table[g][q] \in 1..Created
        BY <1>1, <1>5, <3>1
      <3> DEFINE d == table[g][q]
      <3>3. d # 0 /\ table'[g][q] = d
        BY <1>5, <3>1
      <3>4. chan[d].at = g /\ chan[d].port = q /\ ~chan[d].shut
        BY <3>3, Zenon DEF OpenIsListed
      <3>5. d \in 1..Created
        BY <3>2
      <3> HIDE DEF d
      <3>6. chan'[d] = chan[d]
        BY <3>5
      <3> QED
        BY <3>3, <3>4, <3>6, Zenon
    <2> QED
      BY <2>1, <2>2
  <1> QED
    BY <1>4, <1>5 DEF OpenIsListed

LEMMA ListedAdds ==
  ASSUME TypeOK, OpenIsListed, NEW e \in Ends, NEW p \in Ports, table[e][p] = 0,
         chan' = Append(chan, NewChannel(e, p)), table' = [table EXCEPT ![e][p] = Created + 1]
  PROVE  OpenIsListed'
  <1>1. /\ Created' = Created + 1 /\ Created \in Nat
        /\ chan'[Created + 1] = NewChannel(e, p)
        /\ \A c \in 1..Created : chan'[c] = chan[c]
        /\ \A c \in 1..Created' : c \in 1..Created \/ c = Created + 1
    BY ChannelAdded, ChannelTypes
  <1>2. /\ table'[e][p] = Created + 1
        /\ \A g \in Ends, q \in Ports : g # e \/ q # p => table'[g][q] = table[g][q]
    BY DEF TypeOK
  <1> QED
    BY <1>1, <1>2, ListedWith, Zenon

LEMMA ListedRemoves ==
  ASSUME TypeOK, OpenIsListed, NEW e \in Ends, NEW p \in Ports, CloseLocal(e, p)
  PROVE  OpenIsListed'
  <1>1. /\ Created' = Created /\ Created \in Nat
        /\ table' = [table EXCEPT ![e][p] = 0]
        /\ \A c \in 1..Created : /\ c # table[e][p] => chan'[c] = chan[c]
                                 /\ c = table[e][p] => chan'[c].shut
    <2>1. Created \in Nat
      BY ChannelTypes
    <2> QED
      BY <2>1, ChannelShut, ZenonT(60)
  <1>2. /\ table'[e][p] = 0
        /\ \A g \in Ends, q \in Ports : g # e \/ q # p => table'[g][q] = table[g][q]
    BY <1>1 DEF TypeOK
  <1>3. ASSUME NEW c \in 1..Created', ~chan'[c].shut
        PROVE  table'[chan'[c].at][chan'[c].port] = c
    <2>1. c \in 1..Created /\ c # table[e][p] /\ chan'[c] = chan[c]
      BY <1>1, <1>3
    <2>2. table[chan[c].at][chan[c].port] = c /\ chan[c].at \in Ends /\ chan[c].port \in Ports
      BY <1>3, <2>1, ChannelTypes DEF OpenIsListed
    <2> QED
      BY <1>2, <2>1, <2>2
  <1>4. ASSUME NEW g \in Ends, NEW q \in Ports, table'[g][q] # 0
        PROVE  LET c == chan'[table'[g][q]] IN c.at = g /\ c.port = q /\ ~c.shut
    <2>1. table'[g][q] = table[g][q] /\ (g # e \/ q # p) /\ table[g][q] \in 0..Created
      BY <1>2, <1>4 DEF TypeOK
    <2>2. table[g][q] \in 1..Created
      BY <1>1, <1>4, <2>1
    <2>3. chan[table[g][q]].at = g /\ chan[table[g][q]].port = q /\ ~chan[table[g][q]].shut
      BY <1>4, <2>1 DEF OpenIsListed
    <2>4. table[g][q] # table[e][p]
      <3>1. CASE table[e][p] = 0
        BY <1>4, <2>1, <3>1
      <3>2. CASE table[e][p] # 0
        <4>1. chan[table[e][p]].at = e /\ chan[table[e][p]].port = p
          BY <3>2 DEF OpenIsListed
        <4> QED
          BY <2>1, <2>3, <4>1
      <3> QED
        BY <3>1, <3>2
    <2> QED
      BY <1>1, <2>1, <2>2, <2>3, <2>4
  <1> QED
    BY <1>3, <1>4 DEF OpenIsListed

LEMMA ListedEnds ==
  ASSUME TypeOK, OpenIsListed, NEW e \in Ends, ReadEnds(e)
  PROVE  OpenIsListed'
  <1>1. /\ Created' = Created /\ Created \in Nat
        /\ \A c \in 1..Created :
             /\ (\A p \in Ports : table[e][p] # c) => chan'[c] = chan[c]
             /\ (\E p \in Ports : table[e][p] = c) => chan'[c].shut = TRUE
    BY ChannelsShut, ChannelTypes
  <1>2. /\ \A p \in Ports : table'[e][p] = 0
        /\ \A g \in Ends : g # e => table'[g] = table[g]
    BY DEF TypeOK, ReadEnds
  <1>3. ASSUME NEW c \in 1..Created', ~chan'[c].shut
        PROVE  table'[chan'[c].at][chan'[c].port] = c
    <2>1. c \in 1..Created /\ chan'[c] = chan[c] /\ \A p \in Ports : table[e][p] # c
      BY <1>1, <1>3
    <2>2. table[chan[c].at][chan[c].port] = c /\ chan[c].at \in Ends /\ chan[c].port \in Ports
      BY <1>3, <2>1, ChannelTypes DEF OpenIsListed
    <2>3. chan[c].at # e
      BY <2>1, <2>2
    <2> QED
      BY <1>2, <2>1, <2>2, <2>3
  <1>4. ASSUME NEW g \in Ends, NEW q \in Ports, table'[g][q] # 0
        PROVE  LET c == chan'[table'[g][q]] IN c.at = g /\ c.port = q /\ ~c.shut
    <2>1. g # e /\ table'[g][q] = table[g][q] /\ table[g][q] \in 0..Created
      BY <1>2, <1>4 DEF TypeOK
    <2>2. table[g][q] \in 1..Created
      BY <1>1, <1>4, <2>1
    <2>3. chan[table[g][q]].at = g /\ chan[table[g][q]].port = q /\ ~chan[table[g][q]].shut
      BY <1>4, <2>1 DEF OpenIsListed
    <2>4. ASSUME NEW p \in Ports PROVE table[e][p] # table[g][q]
      <3>1. table[e][p] # 0 => chan[table[e][p]].at = e
        BY DEF OpenIsListed
      <3> QED
        BY <1>4, <2>1, <2>3, <3>1
    <2> QED
      BY <1>1, <2>1, <2>2, <2>3, <2>4
  <1> QED
    BY <1>3, <1>4 DEF OpenIsListed

LEMMA NextListed ==
  ASSUME TypeOK, OpenIsListed, GoroutinesInStep, Next
  PROVE  OpenIsListed'
  <1>0. Creators \subseteq Ends /\ Closers \subseteq Ends
    BY EndsAssumption
  <1>1. CASE \E e \in Ends \ Creators, p \in Ports : OpenChannel(e, p)
    BY <1>1, ListedAdds DEF OpenChannel
  <1>2. CASE UNCHANGED <<chan, table>>
    BY <1>2, SameListed, SameChannels
  <1>3. CASE \/ \E e \in Closers, p \in Ports : CloseChannel(e, p)
             \/ \E e \in Closers : Close(e)
    BY <1>2, <1>3 DEF CloseChannel, Close
  <1>4. ASSUME NEW e \in Ends, WriterRound(e)
        PROVE  OpenIsListed'
    <2>1. CASE ctrl[e] = <<>>
      BY <1>2, <1>4, <2>1 DEF WriterRound
    <2>2. CASE ctrl[e] # <<>>
      <3>1. CloseLocal(e, Head(ctrl[e]).port) /\ Head(ctrl[e]).port \in Ports
        BY <1>4, <2>2, CtrlWritten DEF WriterRound
      <3> QED
        BY <3>1, ListedRemoves
    <2> QED
      BY <2>1, <2>2
  <1>5. ASSUME NEW e \in Ends, NEW c \in 1..Created, WriterData(e, c)
        PROVE  OpenIsListed'
    <2>1. /\ Created' = Created /\ table' = table /\ Steady
          /\ chan'[c].shut = chan[c].shut
          /\ \A d \in 1..Created : d # c => chan'[d] = chan[d]
      BY <1>5, DataEffect DEF WriterData
    <2>2. \A d \in 1..Created : chan'[d].shut = chan[d].shut
      BY <2>1
    <2> QED
      BY <2>1, <2>2, SameListed DEF Steady
  <1>6. CASE \E e \in Ends : Writer(e)
    BY <1>2, <1>4, <1>5, <1>6 DEF Writer, WriterStops, WriterWakes, WriterWaitCtrl
  <1>7. CASE \E e \in Ends : ReadEnds(e)
    BY <1>7, ListedEnds
  <1>8. CASE \E e \in Ends : WorkerTakes(e)
    BY <1>2, <1>8 DEF WorkerTakes
  <1>9. CASE \E e \in Ends : HandleWindowUpdate(e)
    <2>1. PICK e \in Ends : HandleWindowUpdate(e)
      BY <1>9
    <2>2. /\ Created' = Created /\ Steady /\ table' = table
          /\ \A c \in 1..Created : chan'[c].shut = chan[c].shut
      BY <2>1, UpdateEffect DEF HandleWindowUpdate
    <2> QED
      BY <2>2, SameListed DEF Steady
  <1>10. ASSUME NEW e \in Ends, NEW j \in held[e], DispatchData(e, j)
         PROVE  OpenIsListed'
    <2>1. j.frame.port \in Ports
      BY <1>10, DispatchEffect
    <2> QED
      BY <1>2, <1>10, <2>1, ListedAdds DEF DispatchData
  <1>11. ASSUME NEW e \in Ends, NEW j \in held[e], DispatchDelivers(e, j)
         PROVE  OpenIsListed'
    <2>1. /\ Created' = Created /\ Steady /\ table' = table
          /\ \A c \in 1..Created : chan'[c].shut = chan[c].shut
      BY <1>11, DeliverEffect DEF DispatchDelivers
    <2> QED
      BY <2>1, SameListed DEF Steady
  <1>12. ASSUME NEW e \in Ends, NEW j \in held[e], DispatchClose(e, j)
         PROVE  OpenIsListed'
    <2>1. j.frame.port \in Ports /\ CloseLocal(e, j.frame.port)
      BY <1>12, HeldTypes DEF DispatchClose
    <2> QED
      BY <2>1, ListedRemoves
  <1>13. CASE \E e \in Ends, n \in Frames : Dispatch(e, n)
    BY <1>10, <1>11, <1>12, <1>13 DEF Dispatch
  <1>14. CASE \E s \in Senders : Send(s)
    BY <1>2, <1>14 DEF Send
  <1>15. ASSUME NEW s \in Senders, SendStep(s)
         PROVE  OpenIsListed'
    <2>1. table' = table /\ \A c \in 1..Created : chan'[c].shut = chan[c].shut
      BY <1>15, SendEffect
    <2>2. Steady /\ Created' = Created
      BY <1>15, SendStepTypes
    <2> QED
      BY <2>1, <2>2, SameListed DEF Steady
  <1>16. ASSUME NEW c \in 1..Created, ReceiveStep(c)
         PROVE  OpenIsListed'
    <2>1. CASE ChannelRead(c)
      <3>1. /\ Created' = Created /\ table' = table /\ Steady
            /\ chan'[c].shut = chan[c].shut
            /\ \A d \in 1..Created : d # c => chan'[d] = chan[d]
        BY <2>1, ReadEffect DEF ChannelRead
      <3>2. \A d \in 1..Created : chan'[d].shut = chan[d].shut
        BY <3>1
      <3> QED
        BY <3>1, <3>2, SameListed DEF Steady
    <2>2. CASE SendWindowUpdate(c)
      <3>1. CountersOnly /\ table' = table
        BY <2>2, UpdateCounts DEF SendWindowUpdate
      <3> QED
        BY <3>1, SameListed DEF CountersOnly
    <2> QED
      BY <1>16, <2>1, <2>2 DEF ReceiveStep
  <1> QED
    BY <1>1, <1>3, <1>6, <1>7, <1>8, <1>9, <1>13, <1>14, <1>15, <1>16 DEF Next

-----------------------------------------------------------------------------
(* The goroutines of the senders and of the write loops.                   *)
SendersInStep ==
  /\ \A s \in Senders : sender[s].pc # "idle" =>
       /\ sender[s].ch # 0 /\ chan[sender[s].ch].at = At[s]
       /\ sender[s].msg \in 1..offered
       /\ sender[s].pc # "notify" => sender[s].msg \notin sent
       /\ \A t \in Senders \ {s} : sender[t].pc # "idle" => sender[t].msg # sender[s].msg
  /\ sent \subseteq 1..offered
WritersInStep == \A e \in Ends : \A c \in writer[e].todo : chan[c].at = e

LEMMA SendersKept ==
  ASSUME TypeOK, GoroutinesInStep, Steady, UNCHANGED senderVars
  PROVE  SendersInStep'
  <1>1. SendersInStep /\ Created \in Nat
    BY ChannelTypes DEF GoroutinesInStep, SendersInStep
  <1>2. ASSUME NEW s \in Senders, sender[s].pc # "idle"
        PROVE  chan'[sender[s].ch].at = chan[sender[s].ch].at
    <2>1. sender[s].ch \in 0..Created /\ sender[s].ch # 0
      BY <1>1, <1>2 DEF SendersInStep, TypeOK
    <2>2. sender[s].ch \in 1..Created
      BY <1>1, <2>1
    <2> QED
      BY <2>2 DEF Steady
  <1>3. sender' = sender /\ sent' = sent /\ offered' = offered
    BY DEF senderVars
  <1> QED
    BY <1>1, <1>2, <1>3 DEF SendersInStep

LEMMA WritersKept ==
  ASSUME TypeOK, GoroutinesInStep, Steady,
         \A e \in Ends : writer'[e].todo \subseteq writer[e].todo
  PROVE  WritersInStep'
  <1>1. ASSUME NEW e \in Ends, NEW c \in writer'[e].todo
        PROVE  chan'[c].at = e
    <2>1. c \in writer[e].todo /\ c \in 1..Created
      BY <1>1 DEF TypeOK
    <2> QED
      BY <2>1 DEF GoroutinesInStep, Steady
  <1> QED
    BY <1>1 DEF WritersInStep

LEMMA SendInStep ==
  ASSUME TypeOK, OpenIsListed, GoroutinesInStep, NEW s \in Senders, Send(s)
  PROVE  SendersInStep'
  <1> DEFINE e == At[s]
  <1> DEFINE c == table[e][PortOf[s]]
  <1> DEFINE m == offered + 1
  <1>1. /\ e \in Ends /\ PortOf[s] \in Ports /\ c # 0 /\ offered \in Nat
        /\ SendersInStep /\ sent' = sent /\ offered' = m /\ chan' = chan
    <2>1. e \in Ends /\ PortOf[s] \in Ports
      BY EndsAssumption
    <2>2. offered \in Nat
      BY EndsAssumption DEF TypeOK
    <2>3. SendersInStep
      BY DEF GoroutinesInStep, SendersInStep
    <2>4. c # 0 /\ sent' = sent /\ offered' = m /\ chan' = chan
      BY DEF Send
    <2> QED
      BY <2>1, <2>2, <2>3, <2>4
  <1>2. chan[c].at = e
    BY <1>1 DEF OpenIsListed
  <1>3. /\ sender'[s] = [pc |-> "window", ch |-> c, msg |-> m]
        /\ \A t \in Senders : t # s => sender'[t] = sender[t]
    BY DEF TypeOK, Send
  <1>4. sender'[s].pc = "window" /\ sender'[s].ch = c /\ sender'[s].msg = m
    BY <1>3
  <1>5. m \notin 1..offered /\ 1..offered \subseteq 1..m /\ m \in 1..m
    BY <1>1
  <1> HIDE DEF c, m, e
  <1>6. m \notin sent /\ sent' \subseteq 1..offered'
    BY <1>1, <1>5 DEF SendersInStep
  <1>7. \A t \in Senders : t # s /\ sender'[t].pc # "idle" =>
          /\ sender[t].pc # "idle" /\ sender'[t].msg = sender[t].msg
          /\ sender[t].msg \in 1..offered /\ sender[t].msg # m
    BY <1>1, <1>3, <1>5 DEF SendersInStep
  <1>8. ASSUME NEW t \in Senders, sender'[t].pc # "idle"
        PROVE  /\ sender'[t].ch # 0 /\ chan'[sender'[t].ch].at = At[t]
               /\ sender'[t].msg \in 1..offered'
               /\ sender'[t].pc # "notify" => sender'[t].msg \notin sent'
               /\ \A u \in Senders \ {t} : sender'[u].pc # "idle" => sender'[u].msg # sender'[t].msg
    <2>1. CASE t = s
      BY <1>1, <1>2, <1>4, <1>5, <1>6, <1>7, <2>1 DEF e
    <2>2. CASE t # s
      <3>1. /\ sender'[t] = sender[t] /\ sender[t].pc # "idle"
            /\ sender[t].ch # 0 /\ chan[sender[t].ch].at = At[t]
            /\ sender[t].pc # "notify" => sender[t].msg \notin sent
            /\ \A u \in Senders \ {t} : sender[u].pc # "idle" => sender[u].msg # sender[t].msg
        BY <1>1, <1>3, <1>8, <2>2 DEF SendersInStep
      <3>2. sender[t].msg \in 1..m /\ sender[t].msg # m
        BY <1>5, <1>7, <1>8, <2>2
      <3>3. \A u \in Senders \ {t} : sender'[u].pc # "idle" => sender'[u].msg # sender[t].msg
        BY <1>3, <1>4, <3>1, <3>2
      <3> QED
        BY <1>1, <3>1, <3>2, <3>3
    <2> QED
      BY <2>1, <2>2
  <1> QED
    BY <1>6, <1>8 DEF SendersInStep

LEMMA SendStepInStep ==
  ASSUME TypeOK, GoroutinesInStep, NEW s \in Senders, SendStep(s)
  PROVE  SendersInStep'
  <1> DEFINE c == sender[s].ch
  <1> DEFINE m == sender[s].msg
  <1>1. /\ SendersInStep /\ Steady /\ Created' = Created
        /\ c \in 1..Created /\ m \in Messages /\ sender[s].pc # "idle"
    BY SendEffect DEF GoroutinesInStep, SendersInStep
  <1>2. offered' = offered
    BY DEF SendStep, SendSeesWindow, SendTakesWindow, SendEnqueues, SendNotifies, SendFails
  <1>3. /\ \A t \in Senders : t # s => sender'[t] = sender[t]
        /\ sender'[s].pc # "idle" => sender'[s].ch = c /\ sender'[s].msg = m
        /\ sender'[s].pc # "idle" /\ sender'[s].pc # "notify" => sent' = sent
        /\ sender'[s].pc # "idle" => sender[s].pc # "notify"
        /\ sent' = sent \/ (sent' = sent \cup {m} /\ sender'[s].pc = "notify")
    <2>1. CASE SendSeesWindow(s)
      <3>1. SenderAt(s, "take") /\ sender[s].pc = "window" /\ sent' = sent
        BY <2>1 DEF SendSeesWindow, SenderAt
      <3>2. /\ sender'[s] = [pc |-> "take", ch |-> c, msg |-> m]
            /\ \A t \in Senders : t # s => sender'[t] = sender[t]
        BY <1>1, <3>1, SenderMoves
      <3>3. sender'[s].pc = "take" /\ sender'[s].ch = c /\ sender'[s].msg = m
        BY <3>2
      <3> HIDE DEF c, m
      <3> QED
        BY <3>1, <3>2, <3>3
    <2>2. CASE SendTakesWindow(s)
      <3>1. SenderAt(s, "enqueue") /\ sender[s].pc = "take" /\ sent' = sent
        BY <2>2 DEF SendTakesWindow, SenderAt
      <3>2. /\ sender'[s] = [pc |-> "enqueue", ch |-> c, msg |-> m]
            /\ \A t \in Senders : t # s => sender'[t] = sender[t]
        BY <1>1, <3>1, SenderMoves
      <3>3. sender'[s].pc = "enqueue" /\ sender'[s].ch = c /\ sender'[s].msg = m
        BY <3>2
      <3> HIDE DEF c, m
      <3> QED
        BY <3>1, <3>2, <3>3
    <2>3. CASE SendEnqueues(s)
      <3>1. SenderAt(s, "notify") /\ sender[s].pc = "enqueue" /\ sent' = sent \cup {m}
        BY <2>3 DEF SendEnqueues, SenderAt
      <3>2. /\ sender'[s] = [pc |-> "notify", ch |-> c, msg |-> m]
            /\ \A t \in Senders : t # s => sender'[t] = sender[t]
        BY <1>1, <3>1, SenderMoves
      <3>3. sender'[s].pc = "notify" /\ sender'[s].ch = c /\ sender'[s].msg = m
        BY <3>2
      <3> HIDE DEF c, m
      <3> QED
        BY <3>1, <3>2, <3>3
    <2>4. CASE SendNotifies(s) \/ SendFails(s)
      <3>1. /\ sender'[s] = Idle /\ sent' = sent
            /\ \A t \in Senders : t # s => sender'[t] = sender[t]
        BY <1>1, <2>4, SenderEnds DEF SendNotifies, SendFails
      <3>2. sender'[s].pc = "idle"
        BY <3>1 DEF Idle
      <3> HIDE DEF c, m
      <3> QED
        BY <3>1, <3>2
    <2> QED
      BY <2>1, <2>2, <2>3, <2>4 DEF SendStep
  <1>4. m \in 1..offered /\ sent' \subseteq 1..offered'
    BY <1>1, <1>2, <1>3 DEF SendersInStep
  <1>5. ASSUME NEW t \in Senders, sender'[t].pc # "idle"
        PROVE  /\ sender'[t].ch # 0 /\ chan'[sender'[t].ch].at = At[t]
               /\ sender'[t].msg \in 1..offered'
               /\ sender'[t].pc # "notify" => sender'[t].msg \notin sent'
               /\ \A u \in Senders \ {t} : sender'[u].pc # "idle" => sender'[u].msg # sender'[t].msg
    <2>1. /\ sender[t].pc # "idle" /\ sender'[t].ch = sender[t].ch /\ sender'[t].msg = sender[t].msg
      BY <1>1, <1>3, <1>5
    <2>2. \A u \in Senders : sender'[u].pc # "idle" =>
            sender[u].pc # "idle" /\ sender'[u].msg = sender[u].msg
      BY <1>1, <1>3
    <2>3. /\ sender[t].ch # 0 /\ chan[sender[t].ch].at = At[t] /\ sender[t].msg \in 1..offered
          /\ sender[t].pc # "notify" => sender[t].msg \notin sent
          /\ \A u \in Senders \ {t} : sender[u].pc # "idle" => sender[u].msg # sender[t].msg
      BY <1>1, <2>1 DEF SendersInStep
    <2>4. sender[t].ch \in 1..Created
      BY <2>3, ChannelTypes DEF TypeOK
    <2>5. chan'[sender[t].ch].at = At[t]
      BY <1>1, <2>3, <2>4 DEF Steady
    <2>6. \A u \in Senders \ {t} : sender'[u].pc # "idle" => sender'[u].msg # sender'[t].msg
      BY <2>1, <2>2, <2>3
    <2>7. sender'[t].pc # "notify" => sender'[t].msg \notin sent'
      <3>1. CASE t = s
        BY <1>3, <1>5, <2>1, <2>3, <3>1
      <3>2. CASE t # s
        <4>1. sender[t].msg # m
          BY <1>1, <2>3, <3>2
        <4> QED
          BY <1>3, <2>1, <2>3, <3>2, <4>1
      <3> QED
        BY <3>1, <3>2
    <2> QED
      BY <1>2, <2>1, <2>3, <2>5, <2>6, <2>7
  <1> QED
    BY <1>4, <1>5 DEF SendersInStep

LEMMA NextGoroutines ==
  ASSUME TypeOK, OpenIsListed, GoroutinesInStep, Next
  PROVE  GoroutinesInStep'
  <1>1. TypeOK' /\ Steady /\ OpenIsListed'
    BY NextTypes, NextListed
  <1>2. SendersInStep'
    <2>1. CASE UNCHANGED senderVars
      BY <1>1, <2>1, SendersKept
    <2>2. CASE \E s \in Senders : Send(s) \/ SendStep(s)
      BY <2>2, SendInStep, SendStepInStep
    <2> QED
      BY <2>1, <2>2, ZenonT(60) DEF Next, OpenChannel, CloseChannel, Close, Writer, WriterStops, WriterRound,
         WriterData, WriterWakes, WriterWaitCtrl, ReadEnds, WorkerTakes, HandleWindowUpdate,
         Dispatch, DispatchData, DispatchDelivers, DispatchClose, ReceiveStep, ChannelRead,
         SendWindowUpdate
  <1>3. WritersInStep'
    <2>1. CASE UNCHANGED writer
      BY <1>1, <2>1, WritersKept
    <2>2. ASSUME NEW e \in Ends, WriterRound(e)
          PROVE  WritersInStep'
      <3>1. /\ writer'[e].todo = {table'[e][p] : p \in Ports} \ {0}
            /\ \A g \in Ends : g # e => writer'[g] = writer[g]
        BY <2>2, RoundEffect
      <3>2. \A c \in writer'[e].todo : chan'[c].at = e
        BY <1>1, <3>1 DEF OpenIsListed
      <3>3. ASSUME NEW g \in Ends, NEW c \in writer'[g].todo, g # e
            PROVE  chan'[c].at = g
        <4>1. c \in writer[g].todo /\ c \in 1..Created
          BY <3>1, <3>3 DEF TypeOK
        <4> QED
          BY <1>1, <4>1 DEF GoroutinesInStep, Steady
      <3> QED
        BY <3>2, <3>3 DEF WritersInStep
    <2>3. ASSUME NEW e \in Ends, NEW c \in 1..Created, WriterData(e, c)
          PROVE  WritersInStep'
      <3>1. \A g \in Ends : writer'[g].todo \subseteq writer[g].todo
        BY <2>3, DataEffect
      <3> QED
        BY <1>1, <3>1, WritersKept
    <2>4. ASSUME NEW e \in Ends, WriterStops(e) \/ WriterWakes(e) \/ WriterWaitCtrl(e)
          PROVE  WritersInStep'
      <3>1. Steady /\ Created' = Created
        BY <2>4, SameChannels DEF WriterStops, WriterWakes, WriterWaitCtrl
      <3>2. CASE WriterStops(e)
        <4>1. writer'[e].todo = {} /\ \A g \in Ends : g # e => writer'[g] = writer[g]
          BY <3>2 DEF WriterStops, TypeOK
        <4> QED
          BY <1>1, <4>1, WritersKept
      <3>3. CASE WriterWakes(e) \/ WriterWaitCtrl(e)
        <4>1. /\ writer'[e].todo = writer[e].todo
              /\ \A g \in Ends : g # e => writer'[g] = writer[g]
          <5>1. writer' = [writer EXCEPT ![e].pc = "round"]
            BY <3>3 DEF WriterWakes, WriterWaitCtrl
          <5>2. /\ writer'[e] = [pc |-> "round", todo |-> writer[e].todo,
                                 progress |-> writer[e].progress]
                /\ \A g \in Ends : g # e => writer'[g] = writer[g]
            BY <3>1, <5>1, WriterMoves
          <5> QED
            BY <5>2
        <4> QED
          BY <1>1, <4>1, WritersKept
      <3> QED
        BY <2>4, <3>2, <3>3
    <2>5. CASE \E e \in Ends : Writer(e)
      BY <2>2, <2>3, <2>4, <2>5 DEF Writer
    <2> QED
      BY <2>1, <2>5, ZenonT(60) DEF Next, OpenChannel, CloseChannel, Close, ReadEnds, WorkerTakes,
         HandleWindowUpdate, Dispatch, DispatchData, DispatchDelivers, DispatchClose, Send,
         SendStep, SendSeesWindow, SendTakesWindow, SendEnqueues, SendNotifies, SendFails,
         ReceiveStep, ChannelRead, SendWindowUpdate
  <1> QED
    BY <1>2, <1>3 DEF GoroutinesInStep, SendersInStep, WritersInStep

-----------------------------------------------------------------------------
(* No wake-up is lost.                                                     *)
Awake(c) ==
  LET e == chan[c].at IN
  \/ notify[e]
  \/ \E s \in Senders : sender[s].pc = "notify" /\ At[s] = e
  \/ writer[e].pc \in {"round", "stopped"}
  \/ writer[e].pc = "data" /\ (c \in writer[e].todo \/ writer[e].progress)

LEMMA WakeupParts ==
  /\ NoLostWakeup <=> \A c \in 1..Created : ~chan[c].shut /\ chan[c].queue # <<>> => Awake(c)
  /\ (\A c \in 1..Created' : ~chan'[c].shut /\ chan'[c].queue # <<>> => Awake(c)') => NoLostWakeup'
  BY Zenon DEF NoLostWakeup, Awake

(* A step that queues nothing, takes no token and leaves the loops alone.  *)
LEMMA WakeupKept ==
  ASSUME TypeOK, NoLostWakeup, Steady,
         \A c \in 1..Created' : ~chan'[c].shut /\ chan'[c].queue # <<>> =>
              c \in 1..Created /\ ~chan[c].shut /\ chan[c].queue # <<>>,
         \A e \in Ends : notify[e] => notify'[e],
         \A s \in Senders : sender[s].pc = "notify" => sender'[s].pc = "notify",
         writer' = writer
  PROVE  NoLostWakeup'
  <1>1. ASSUME NEW c \in 1..Created', ~chan'[c].shut, chan'[c].queue # <<>>
        PROVE  Awake(c)'
    <2>1. c \in 1..Created /\ ~chan[c].shut /\ chan[c].queue # <<>>
      BY <1>1
    <2>2. Awake(c) /\ chan'[c].at = chan[c].at /\ chan[c].at \in Ends
      BY <2>1, WakeupParts, ChannelTypes DEF Steady
    <2> QED
      BY <2>2, Zenon DEF Awake
  <1> QED
    BY <1>1, WakeupParts

(* A step of the write loop of e, seen by the channels of the other end.   *)
LEMMA WakeupElsewhere ==
  ASSUME TypeOK, NoLostWakeup, Steady, Created' = Created, NEW e \in Ends,
         \A g \in Ends : g # e => writer'[g] = writer[g] /\ notify'[g] = notify[g],
         sender' = sender, NEW c \in 1..Created, chan[c].at # e,
         ~chan[c].shut, chan[c].queue # <<>>
  PROVE  Awake(c)'
  <1>1. Awake(c) /\ chan'[c].at = chan[c].at /\ chan[c].at \in Ends
    BY WakeupParts, ChannelTypes DEF Steady
  <1>2. writer'[chan[c].at] = writer[chan[c].at] /\ notify'[chan[c].at] = notify[chan[c].at]
    BY <1>1
  <1> QED
    BY <1>1, <1>2, Zenon DEF Awake

LEMMA WriterWakeup ==
  ASSUME TypeOK, OpenIsListed, GoroutinesInStep, NoLostWakeup, NEW e \in Ends, Writer(e)
  PROVE  NoLostWakeup'
  <1>0. SUFFICES ASSUME NEW c \in 1..Created', ~chan'[c].shut, chan'[c].queue # <<>>
                 PROVE  Awake(c)'
    BY WakeupParts
  <1>1. sender' = sender
    BY DEF Writer, WriterStops, WriterRound, WriterData, WriterWakes, WriterWaitCtrl, senderVars
  <1>2. CASE WriterStops(e) \/ WriterWakes(e) \/ WriterWaitCtrl(e)
    <2>1. chan' = chan /\ Steady /\ Created' = Created
      BY <1>2, SameChannels DEF WriterStops, WriterWakes, WriterWaitCtrl
    <2>2. /\ writer'[e].pc \in {"round", "stopped"}
          /\ \A g \in Ends : g # e => writer'[g] = writer[g] /\ notify'[g] = notify[g]
      <3>1. CASE WriterStops(e)
        BY <3>1 DEF WriterStops, TypeOK
      <3>2. CASE WriterWakes(e) \/ WriterWaitCtrl(e)
        <4>1. writer' = [writer EXCEPT ![e].pc = "round"]
          BY <3>2 DEF WriterWakes, WriterWaitCtrl
        <4>2. /\ writer'[e] = [pc |-> "round", todo |-> writer[e].todo,
                               progress |-> writer[e].progress]
              /\ \A g \in Ends : g # e => writer'[g] = writer[g]
          BY <2>1, <4>1, WriterMoves
        <4>3. \A g \in Ends : g # e => notify'[g] = notify[g]
          BY <3>2 DEF WriterWakes, WriterWaitCtrl, TypeOK
        <4>4. writer'[e].pc = "round"
          BY <4>2
        <4> QED
          BY <4>2, <4>3, <4>4
      <3> QED
        BY <1>2, <3>1, <3>2
    <2>3. CASE chan[c].at = e
      <3>1. chan'[c].at = e
        BY <2>1, <2>3
      <3> QED
        BY <2>2, <3>1, Zenon DEF Awake
    <2>4. CASE chan[c].at # e
      BY <1>0, <1>1, <2>1, <2>2, <2>4, WakeupElsewhere
    <2> QED
      BY <2>3, <2>4
  <1>3. CASE WriterRound(e)
    <2>1. /\ Steady /\ Created' = Created
          /\ writer'[e].todo = {table'[e][p] : p \in Ports} \ {0}
          /\ writer'[e].pc \in {"round", "data", "empty"}
          /\ writer'[e].pc # "data" => writer'[e].todo = {}
          /\ \A g \in Ends : g # e => writer'[g] = writer[g]
      BY <1>3, RoundEffect
    <2>2. notify' = notify /\ Created \in Nat
      BY <1>3, ChannelTypes DEF WriterRound
    <2>3. c \in 1..Created /\ chan'[c].at = chan[c].at /\ chan'[c].port = chan[c].port
      BY <1>0, <2>1 DEF Steady
    <2>4. OpenIsListed'
      BY <1>3, NextListed DEF Next, Writer
    <2>5. CASE chan[c].at = e
      <3>1. table'[e][chan[c].port] = c /\ chan[c].port \in Ports /\ c # 0
        <4>1. table'[chan'[c].at][chan'[c].port] = c
          BY <1>0, <2>4, Zenon DEF OpenIsListed
        <4> QED
          BY <2>2, <2>3, <2>5, <4>1, ChannelTypes
      <3>2. c \in writer'[e].todo
        BY <2>1, <3>1
      <3>3. writer'[e].pc = "data"
        BY <2>1, <3>2
      <3>4. chan'[c].at = e
        BY <2>3, <2>5
      <3> QED
        BY <3>2, <3>3, <3>4, Zenon DEF Awake
    <2>6. CASE chan[c].at # e
      <3>1. ~chan[c].shut /\ chan[c].queue # <<>>
        <4>1. CASE ctrl[e] = <<>>
          <5>1. chan' = chan
            BY <1>3, <4>1 DEF WriterRound
          <5> QED
            BY <1>0, <5>1
        <4>2. CASE ctrl[e] # <<>>
          <5> DEFINE p == Head(ctrl[e]).port
          <5>1. CloseLocal(e, p) /\ p \in Ports
            BY <1>3, <4>2, CtrlWritten DEF WriterRound
          <5>2. table[e][p] # c
            <6>1. table[e][p] # 0 => chan[table[e][p]].at = e
              BY <5>1 DEF OpenIsListed
            <6> QED
              BY <2>2, <2>3, <2>6, <6>1
          <5>3. chan'[c] = chan[c]
            BY <2>3, <5>1, <5>2, ChannelShut
          <5> QED
            BY <1>0, <5>3
        <4> QED
          BY <4>1, <4>2
      <3> QED
        BY <1>1, <2>1, <2>2, <2>3, <2>6, <3>1, WakeupElsewhere
    <2> QED
      BY <2>5, <2>6
  <1>4. ASSUME NEW d \in 1..Created, WriterData(e, d)
        PROVE  Awake(c)'
    <2>1. /\ Steady /\ Created' = Created
          /\ chan'[d].queue = IF chan[d].queue = <<>> THEN <<>> ELSE Tail(chan[d].queue)
          /\ chan'[d].shut = chan[d].shut
          /\ \A x \in 1..Created : x # d => chan'[x] = chan[x]
          /\ writer'[e].todo = writer[e].todo \ {d}
          /\ writer'[e].pc = IF writer'[e].todo # {} THEN "data"
                             ELSE IF writer'[e].progress THEN "round" ELSE "wait"
          /\ \A g \in Ends : g # e => writer'[g] = writer[g]
      BY <1>4, DataEffect
    <2>2. writer'[e].progress = (writer[e].progress \/ chan[d].queue # <<>>)
      BY <1>4, DataEffect, Zenon
    <2>3. notify' = notify /\ d \in writer[e].todo /\ writer[e].pc = "data"
      BY <1>4 DEF WriterData
    <2>4. /\ c \in 1..Created /\ chan'[c].at = chan[c].at /\ chan[c].queue # <<>>
      BY <1>0, <2>1 DEF Steady
    <2>5. ~chan[c].shut
      BY <1>0, <2>1, <2>4
    <2>6. CASE chan[c].at # e
      BY <1>1, <2>1, <2>3, <2>4, <2>5, <2>6, WakeupElsewhere
    <2>7. CASE chan[c].at = e
      <3>1. Awake(c)
        BY <2>4, <2>5, WakeupParts
      <3>2. \/ notify[e]
            \/ \E s \in Senders : sender[s].pc = "notify" /\ At[s] = e
            \/ c \in writer[e].todo \/ writer[e].progress
        BY <2>3, <2>7, <3>1 DEF Awake
      <3>3. chan'[c].at = e
        BY <2>4, <2>7
      <3>4. CASE notify[e] \/ \E s \in Senders : sender[s].pc = "notify" /\ At[s] = e
        BY <1>1, <2>3, <3>3, <3>4, Zenon DEF Awake
      <3>5. CASE c \in writer[e].todo /\ c # d
        <4>1. c \in writer'[e].todo
          BY <2>1, <3>5
        <4>2. writer'[e].pc = "data"
          BY <2>1, <4>1
        <4> QED
          BY <3>3, <4>1, <4>2, Zenon DEF Awake
      <3>6. CASE c = d \/ writer[e].progress
        <4>1. writer'[e].progress
          BY <2>2, <2>4, <3>6
        <4>2. writer'[e].pc \in {"data", "round"}
          BY <2>1, <4>1
        <4> QED
          BY <3>3, <4>1, <4>2 DEF Awake
      <3> QED
        BY <3>2, <3>4, <3>5, <3>6
    <2> QED
      BY <2>6, <2>7
  <1> QED
    BY <1>2, <1>3, <1>4 DEF Writer

LEMMA SendWakeup ==
  ASSUME TypeOK, GoroutinesInStep, NoLostWakeup, NEW s \in Senders, SendStep(s)
  PROVE  NoLostWakeup'
  <1> DEFINE c == sender[s].ch
  <1>1. /\ Steady /\ Created' = Created /\ c \in 1..Created /\ sender[s].pc # "idle"
        /\ \A d \in 1..Created : /\ chan'[d].shut = chan[d].shut
                                 /\ d # c => chan'[d] = chan[d]
    BY SendEffect
  <1>2. writer' = writer
    BY DEF SendStep, SendSeesWindow, SendTakesWindow, SendEnqueues, SendNotifies, SendFails
  <1>3. CASE SendEnqueues(s)
    <2>1. /\ sender'[s] = [pc |-> "notify", ch |-> c, msg |-> sender[s].msg]
          /\ \A t \in Senders : t # s => sender'[t] = sender[t]
      BY <1>1, <1>3, SenderMoves DEF SenderAt, SendEnqueues
    <2>2. sender'[s].pc = "notify" /\ notify' = notify /\ sender[s].pc = "enqueue"
      BY <1>3, <2>1 DEF SendEnqueues
    <2>3. chan[c].at = At[s]
      BY <1>1 DEF GoroutinesInStep
    <2> SUFFICES ASSUME NEW d \in 1..Created', ~chan'[d].shut, chan'[d].queue # <<>>
                 PROVE  Awake(d)'
      BY WakeupParts
    <2>4. d \in 1..Created /\ chan'[d].at = chan[d].at /\ chan[d].at \in Ends /\ ~chan[d].shut
      BY <1>1, ChannelTypes DEF Steady
    <2>5. CASE d = c
      <3>1. chan'[d].at = At[s]
        BY <2>3, <2>4, <2>5
      <3> QED
        BY <2>2, <3>1, Zenon DEF Awake
    <2>6. CASE d # c
      <3>1. chan[d].queue # <<>>
        BY <1>1, <2>4, <2>6
      <3>2. Awake(d)
        BY <2>4, <3>1, WakeupParts
      <3>3. \A t \in Senders : sender[t].pc = "notify" => sender'[t].pc = "notify"
        BY <2>1, <2>2
      <3> QED
        BY <1>2, <2>2, <2>4, <3>2, <3>3, Zenon DEF Awake
    <2> QED
      BY <2>5, <2>6
  <1>4. CASE SendNotifies(s)
    <2>1. /\ \A t \in Senders : t # s => sender'[t] = sender[t]
      BY <1>1, <1>4, SenderEnds DEF SendNotifies
    <2>2. chan' = chan /\ notify'[At[s]] /\ \A g \in Ends : notify[g] => notify'[g]
      BY <1>4, EndsAssumption DEF SendNotifies, Woken, TypeOK
    <2> SUFFICES ASSUME NEW d \in 1..Created', ~chan'[d].shut, chan'[d].queue # <<>>
                 PROVE  Awake(d)'
      BY WakeupParts
    <2>3. d \in 1..Created /\ chan'[d].at = chan[d].at /\ chan[d].at \in Ends
      BY <1>1, ChannelTypes DEF Steady
    <2>4. Awake(d)
      BY <2>2, <2>3, WakeupParts
    <2>5. CASE chan[d].at = At[s]
      <3>1. notify'[chan'[d].at]
        BY <2>2, <2>3, <2>5
      <3> QED
        BY <3>1 DEF Awake
    <2>6. CASE chan[d].at # At[s]
      <3>1. \A t \in Senders : sender[t].pc = "notify" /\ At[t] = chan[d].at => sender'[t].pc = "notify"
        BY <2>1, <2>6
      <3> QED
        BY <1>2, <2>2, <2>3, <2>4, <3>1, Zenon DEF Awake
    <2> QED
      BY <2>5, <2>6
  <1>5. CASE ~SendEnqueues(s) /\ ~SendNotifies(s)
    <2>1. notify' = notify /\ sender[s].pc # "notify"
      BY <1>5 DEF SendStep, SendSeesWindow, SendTakesWindow, SendFails
    <2>2. \A t \in Senders : t # s => sender'[t] = sender[t]
      <3>1. CASE SendSeesWindow(s) \/ SendTakesWindow(s)
        BY <1>1, <3>1, SenderMoves DEF SenderAt, SendSeesWindow, SendTakesWindow
      <3>2. CASE SendFails(s)
        BY <1>1, <3>2, SenderEnds DEF SendFails
      <3> QED
        BY <1>5, <3>1, <3>2 DEF SendStep
    <2>3. \A d \in 1..Created : chan'[d].queue = chan[d].queue
      <3>1. CASE SendTakesWindow(s)
        BY <1>1, <3>1, SendEffect
      <3>2. CASE ~SendTakesWindow(s)
        BY <1>5, <3>2, SendEffect
      <3> QED
        BY <3>1, <3>2
    <2>4. \A t \in Senders : sender[t].pc = "notify" => sender'[t].pc = "notify"
      BY <2>1, <2>2
    <2>5. \A d \in 1..Created' : ~chan'[d].shut /\ chan'[d].queue # <<>> =>
              d \in 1..Created /\ ~chan[d].shut /\ chan[d].queue # <<>>
      BY <1>1, <2>3
    <2> QED
      BY <1>1, <1>2, <2>1, <2>4, <2>5, WakeupKept
  <1> QED
    BY <1>3, <1>4, <1>5

LEMMA NextWakeup ==
  ASSUME TypeOK, OpenIsListed, GoroutinesInStep, NoLostWakeup, Next
  PROVE  NoLostWakeup'
  <1>0. Creators \subseteq Ends /\ Closers \subseteq Ends /\ Created \in Nat
    BY EndsAssumption, ChannelTypes
  <1> DEFINE Fewer == \A c \in 1..Created' : ~chan'[c].shut /\ chan'[c].queue # <<>> =>
                        c \in 1..Created /\ ~chan[c].shut /\ chan[c].queue # <<>>
  <1> DEFINE Told == /\ \A e \in Ends : notify[e] => notify'[e]
                     /\ \A s \in Senders : sender[s].pc = "notify" => sender'[s].pc = "notify"
                     /\ writer' = writer
  <1>1. ASSUME Steady, Fewer, Told PROVE NoLostWakeup'
    BY <1>1, WakeupKept
  <1>2. ASSUME NEW e \in Ends, NEW p \in Ports, chan' = Append(chan, NewChannel(e, p))
        PROVE  Fewer
    <2>1. /\ Created' = Created + 1 /\ chan'[Created + 1] = NewChannel(e, p)
          /\ \A c \in 1..Created : chan'[c] = chan[c]
          /\ \A c \in 1..Created' : c \in 1..Created \/ c = Created + 1
      BY <1>2, ChannelAdded
    <2>2. NewChannel(e, p).queue = <<>>
      BY DEF NewChannel
    <2>3. chan'[Created + 1].queue = <<>>
      BY <2>1, <2>2, Zenon
    <2>4. ASSUME NEW c \in 1..Created', ~chan'[c].shut, chan'[c].queue # <<>>
          PROVE  c \in 1..Created /\ ~chan[c].shut /\ chan[c].queue # <<>>
      <3>1. c \in 1..Created
        BY <2>1, <2>3, <2>4, Zenon
      <3>2. chan'[c] = chan[c]
        BY <2>1, <3>1, Zenon
      <3> QED
        BY <2>4, <3>1, <3>2, Zenon
    <2> QED
      BY <2>4
  <1>3. ASSUME chan' = chan PROVE Fewer /\ Steady
    BY <1>3, SameChannels
  <1>4. ASSUME NEW e \in Ends, NEW p \in Ports, CloseLocal(e, p)
        PROVE  Fewer /\ Steady
    <2>1. /\ Created' = Created /\ Steady
          /\ \A c \in 1..Created : /\ c # table[e][p] => chan'[c] = chan[c]
                                   /\ c = table[e][p] => chan'[c].shut
      BY <1>4, ChannelShut, ZenonT(60)
    <2> QED
      BY <2>1
  <1>5. CASE \E e \in Ends \ Creators, p \in Ports : OpenChannel(e, p)
    <2>1. PICK e \in Ends, p \in Ports : OpenChannel(e, p)
      BY <1>5
    <2>2. Steady /\ Fewer
      BY <1>2, <2>1, OpenTypes DEF OpenChannel
    <2>3. Told
      BY <2>1 DEF OpenChannel, senderVars
    <2> QED
      BY <1>1, <2>2, <2>3
  <1>6. CASE \/ \E e \in Closers, p \in Ports : CloseChannel(e, p)
             \/ \E e \in Closers : Close(e)
    <2>1. Steady /\ Fewer
      BY <1>3, <1>6 DEF CloseChannel, Close
    <2>2. Told
      <3>1. sender' = sender /\ writer' = writer
        BY <1>6 DEF CloseChannel, Close, senderVars
      <3>2. notify' = notify \/ \E e \in Ends : notify' = [notify EXCEPT ![e] = TRUE]
        BY <1>0, <1>6 DEF CloseChannel, Close, EnqueueCtrl
      <3>3. \A e \in Ends : notify[e] => notify'[e]
        BY <3>2 DEF TypeOK
      <3> QED
        BY <3>1, <3>3
    <2> QED
      BY <1>1, <2>1, <2>2
  <1>7. CASE \E e \in Ends : Writer(e)
    BY <1>7, WriterWakeup
  <1>8. CASE \E e \in Ends : ReadEnds(e)
    <2>1. PICK e \in Ends : ReadEnds(e)
      BY <1>8
    <2>2. /\ Steady /\ Created' = Created
          /\ \A c \in 1..Created :
              /\ chan'[c].queue = chan[c].queue
              /\ (\A p \in Ports : table[e][p] # c) => chan'[c] = chan[c]
              /\ (\E p \in Ports : table[e][p] = c) => chan'[c].shut = TRUE
      BY <2>1, ChannelsShut
    <2>3. Fewer
      BY <2>2
    <2>4. Told
      BY <2>1 DEF ReadEnds, senderVars
    <2> QED
      BY <1>1, <2>2, <2>3, <2>4
  <1>9. CASE \E e \in Ends : WorkerTakes(e)
    <2>1. Steady /\ Fewer
      BY <1>3, <1>9 DEF WorkerTakes
    <2>2. Told
      BY <1>9 DEF WorkerTakes, senderVars
    <2> QED
      BY <1>1, <2>1, <2>2
  <1>10. CASE \E e \in Ends : HandleWindowUpdate(e)
    <2>1. PICK e \in Ends : HandleWindowUpdate(e)
      BY <1>10
    <2>2. /\ Steady /\ Created' = Created
          /\ \A c \in 1..Created : chan'[c].queue = chan[c].queue /\ chan'[c].shut = chan[c].shut
      BY <2>1, UpdateEffect
    <2>3. Fewer
      BY <2>2
    <2>4. Told
      BY <2>1 DEF HandleWindowUpdate, senderVars
    <2> QED
      BY <1>1, <2>2, <2>3, <2>4
  <1>11. ASSUME NEW e \in Ends, NEW j \in held[e], DispatchData(e, j)
         PROVE  NoLostWakeup'
    <2>1. Steady /\ j.frame.port \in Ports
      BY <1>11, DispatchTypes, HeldTypes
    <2>2. Fewer
      BY <1>2, <1>3, <1>11, <2>1 DEF DispatchData
    <2>3. Told
      BY <1>11 DEF DispatchData, senderVars
    <2> QED
      BY <1>1, <2>1, <2>2, <2>3
  <1>12. ASSUME NEW e \in Ends, NEW j \in held[e], DispatchDelivers(e, j)
         PROVE  NoLostWakeup'
    <2>1. /\ Steady /\ Created' = Created
          /\ \A c \in 1..Created : chan'[c].queue = chan[c].queue /\ chan'[c].shut = chan[c].shut
      BY <1>12, DeliverEffect
    <2>2. Fewer
      BY <2>1
    <2>3. Told
      BY <1>12 DEF DispatchDelivers, senderVars
    <2> QED
      BY <1>1, <2>1, <2>2, <2>3
  <1>13. ASSUME NEW e \in Ends, NEW j \in held[e], DispatchClose(e, j)
         PROVE  NoLostWakeup'
    <2>1. Steady /\ Fewer
      BY <1>4, <1>13, HeldTypes DEF DispatchClose
    <2>2. Told
      BY <1>13 DEF DispatchClose, senderVars
    <2> QED
      BY <1>1, <2>1, <2>2
  <1>14. CASE \E e \in Ends, n \in Frames : Dispatch(e, n)
    BY <1>11, <1>12, <1>13, <1>14 DEF Dispatch
  <1>15. CASE \E s \in Senders : Send(s)
    <2>1. PICK s \in Senders : Send(s)
      BY <1>15
    <2>2. Steady /\ Fewer
      BY <1>3, <2>1 DEF Send
    <2>3. Told
      <3>1. \A t \in Senders : t # s => sender'[t] = sender[t]
        BY <2>1 DEF Send, TypeOK
      <3>2. sender[s].pc # "notify" /\ writer' = writer /\ notify' = notify
        BY <2>1 DEF Send
      <3> QED
        BY <3>1, <3>2
    <2> QED
      BY <1>1, <2>2, <2>3
  <1>16. CASE \E s \in Senders : SendStep(s)
    BY <1>16, SendWakeup
  <1>17. ASSUME NEW c \in 1..Created, ReceiveStep(c)
         PROVE  NoLostWakeup'
    <2>1. CASE ChannelRead(c)
      <3>1. /\ Steady /\ Created' = Created
            /\ chan'[c].queue = chan[c].queue /\ chan'[c].shut = chan[c].shut
            /\ \A d \in 1..Created : d # c => chan'[d] = chan[d]
        BY <2>1, ReadEffect
      <3>2. Fewer
        BY <3>1
      <3>3. Told
        BY <2>1 DEF ChannelRead, senderVars
      <3> QED
        BY <1>1, <3>1, <3>2, <3>3
    <2>2. CASE SendWindowUpdate(c)
      <3>1. /\ Steady /\ Created' = Created
            /\ \A d \in 1..Created : chan'[d].queue = chan[d].queue /\ chan'[d].shut = chan[d].shut
        BY <1>0, <2>2, UpdateCounts DEF CountersOnly, Steady
      <3>2. Fewer
        BY <3>1
      <3>3. Told
        BY <2>2 DEF SendWindowUpdate, senderVars
      <3> QED
        BY <1>1, <3>1, <3>2, <3>3
    <2> QED
      BY <1>17, <2>1, <2>2 DEF ReceiveStep
  <1> QED
    BY <1>5, <1>6, <1>7, <1>8, <1>9, <1>10, <1>14, <1>15, <1>16, <1>17 DEF Next

-----------------------------------------------------------------------------
(* A set of natural numbers has a least one.                               *)
LEMMA LeastNatural ==
  ASSUME NEW B, B \subseteq Nat, B # {}
  PROVE  \E b \in B : \A c \in B : b <= c
  <1>1. IsWellFoundedOn(OpToRel(<, Nat), Nat)
    BY NatLessThanWellFounded
  <1>2. PICK b \in B : \A y \in B : ~(<<y, b>> \in OpToRel(<, Nat))
    BY <1>1, WFMin
  <1>3. \A y \in B : ~(y < b)
    BY <1>2 DEF OpToRel
  <1> QED
    BY <1>3

(* The window of a channel.                                                *)
LEMMA LargestFacts ==
  /\ Largest \in Nat /\ Largest <= Window /\ Window \in Nat
  /\ \A m \in Messages : Size[m] \in Nat /\ Size[m] <= Largest
  <1> DEFINE S == {Size[m] : m \in Messages}
  <1>1. /\ Window \in Nat /\ \A m \in Messages : Size[m] \in 1..Window
        /\ MaxMessages \in Nat \ {0}
    BY WindowAssumption, EndsAssumption DEF Messages
  <1>2. S \subseteq 1..Window /\ S # {}
    <2>1. 1 \in Messages
      BY <1>1 DEF Messages
    <2> QED
      BY <1>1, <2>1
  <1>3. \E x \in S : \A y \in S : x >= y
    <2> DEFINE B == {n \in Nat : \A y \in S : y <= n}
    <2>1. Window \in B
      BY <1>1, <1>2
    <2>2. B \subseteq Nat /\ B # {}
      BY <2>1
    <2>3. \E b \in B : \A c \in B : b <= c
      BY <2>2, LeastNatural
    <2>4. PICK b \in B : \A c \in B : b <= c
      BY <2>3
    <2>5. b \in S
      <3>1. SUFFICES ASSUME b \notin S PROVE FALSE
        OBVIOUS
      <3>2. b # 0
        BY <1>2, <2>4
      <3>3. b - 1 \in Nat /\ \A y \in S : y <= b - 1
        BY <1>2, <2>4, <3>1, <3>2
      <3>4. b - 1 \in B
        BY <3>3
      <3> QED
        BY <2>4, <3>4
    <2> QED
      BY <1>2, <2>4, <2>5
  <1>4. Largest \in S /\ \A y \in S : Largest >= y
    BY <1>3 DEF Largest, Max
  <1> QED
    BY <1>1, <1>2, <1>4

(* Arithmetic of the overdraft: l is the largest message, w the window, n  *)
(* the number of senders and k the number of those about to take.          *)
LEMMA Products ==
  ASSUME NEW l \in Nat, NEW a \in Int
  PROVE  /\ l * (a + 1) = l * a + l /\ l * a \in Int
         /\ \A b \in Int : a <= b => l * a <= l * b
  <1>1. l * (a + 1) = l * a + l /\ l * a \in Int
    OBVIOUS
  <1>2. ASSUME NEW b \in Int, a <= b PROVE l * a <= l * b
    <2>1. b = a + (b - a) /\ b - a \in Nat
      BY <1>2
    <2>2. l * (a + (b - a)) = l * a + l * (b - a)
      OBVIOUS
    <2>3. l * (b - a) \in Nat
      BY <2>1
    <2> QED
      BY <1>1, <2>1, <2>2, <2>3
  <1> QED
    BY <1>1, <1>2

LEMMA TakersFinite ==
  ASSUME NEW c
  PROVE  /\ Cardinality(Senders) \in Nat /\ IsFiniteSet(Takers(c)) /\ Cardinality(Takers(c)) \in Nat
         /\ Cardinality(Takers(c)) <= Cardinality(Senders)
         /\ Cardinality(Takers(c)) = 0 <=> Takers(c) = {}
  <1>1. IsFiniteSet(Senders) /\ Takers(c) \in SUBSET Senders
    BY EndsAssumption DEF Takers
  <1> QED
    BY <1>1, FS_Subset, FS_CardinalityType, FS_EmptySet

LEMMA TakerMessages ==
  ASSUME TypeOK, GoroutinesInStep, NEW c, NEW t \in Takers(c)
  PROVE  sender[t].msg \in Messages
  <1>1. t \in Senders /\ sender[t].pc = "take"
    BY DEF Takers
  <1>2. sender[t].msg \in 1..offered
    BY <1>1 DEF GoroutinesInStep
  <1>3. offered \in 0..MaxMessages /\ MaxMessages \in Nat
    BY EndsAssumption DEF TypeOK
  <1> QED
    BY <1>2, <1>3 DEF Messages

(* The bound on the overdraft follows.                                     *)
LEMMA OverdraftFollows ==
  ASSUME TypeOK, GoroutinesInStep, WindowInStep
  PROVE  OverdraftBounded
  <1> SUFFICES ASSUME NEW c \in 1..Created
               PROVE  chan[c].window + Largest * (Cardinality(Senders) - 1) >= 0
    BY DEF OverdraftBounded
  <1> DEFINE L == Largest
  <1> DEFINE n == Cardinality(Senders)
  <1> DEFINE k == Cardinality(Takers(c))
  <1> DEFINE w == chan[c].window
  <1>1. n \in Nat /\ k \in Nat /\ k <= n /\ (k = 0 <=> Takers(c) = {}) /\ L \in Nat /\ w \in Int
    BY TakersFinite, LargestFacts, ChannelTypes
  <1>2. w + L * ((n - k) - 1) >= 0 \/ \E s \in Takers(c) : w + L * (n - k) >= Size[sender[s].msg]
    BY DEF WindowInStep
  <1> HIDE DEF L, n, k, w
  <1>3. CASE w + L * ((n - k) - 1) >= 0
    <2>1. L * ((n - k) - 1) <= L * (n - 1) /\ L * (n - 1) \in Int /\ L * ((n - k) - 1) \in Int
      BY <1>1, Products
    <2> QED
      BY <1>1, <1>3, <2>1 DEF L, n, w
  <1>4. CASE \E s \in Takers(c) : w + L * (n - k) >= Size[sender[s].msg]
    <2>1. PICK s \in Takers(c) : w + L * (n - k) >= Size[sender[s].msg]
      BY <1>4
    <2>2. Size[sender[s].msg] \in Nat /\ k >= 1
      <3>1. sender[s].msg \in Messages
        BY TakerMessages
      <3> QED
        BY <1>1, <3>1, LargestFacts
    <2>3. L * (n - k) <= L * (n - 1) /\ L * (n - 1) \in Int /\ L * (n - k) \in Int
      BY <1>1, <2>2, Products
    <2> QED
      BY <1>1, <2>1, <2>2, <2>3 DEF L, n, w
  <1> QED
    BY <1>2, <1>3, <1>4

(* A step that takes nothing from a window.                                *)
LEMMA WindowKept ==
  ASSUME TypeOK, WindowInStep, Created' = Created,
         \A c \in 1..Created : /\ Takers(c)' = Takers(c)
                               /\ chan'[c].window \in Int /\ chan'[c].window >= chan[c].window,
         \A s \in Senders : sender[s].pc = "take" => sender'[s].msg = sender[s].msg,
         GoroutinesInStep
  PROVE  WindowInStep'
  <1> SUFFICES ASSUME NEW c \in 1..Created
               PROVE  LET others == Cardinality(Senders) - Cardinality(Takers(c)') IN
                      \/ chan'[c].window + Largest * (others - 1) >= 0
                      \/ \E s \in Takers(c)' : chan'[c].window + Largest * others >= Size[sender'[s].msg]
    BY Zenon DEF WindowInStep, Largest
  <1> DEFINE L == Largest
  <1> DEFINE o == Cardinality(Senders) - Cardinality(Takers(c))
  <1> DEFINE w == chan[c].window
  <1> DEFINE v == chan'[c].window
  <1>1. o \in Int /\ L \in Nat /\ w \in Int /\ v \in Int /\ v >= w /\ Takers(c)' = Takers(c)
    BY TakersFinite, LargestFacts, ChannelTypes
  <1>2. w + L * (o - 1) >= 0 \/ \E s \in Takers(c) : w + L * o >= Size[sender[s].msg]
    BY DEF WindowInStep
  <1>3. L * (o - 1) \in Int /\ L * o \in Int
    BY <1>1, Products
  <1>4. \A s \in Takers(c) : Size[sender[s].msg] \in Nat /\ sender'[s].msg = sender[s].msg
    <2>1. ASSUME NEW s \in Takers(c) PROVE sender[s].msg \in Messages
      BY TakerMessages
    <2> QED
      BY <2>1, LargestFacts DEF Takers
  <1> HIDE DEF L, o, w, v
  <1>5. v + L * (o - 1) >= 0 \/ \E s \in Takers(c) : v + L * o >= Size[sender'[s].msg]
    BY <1>1, <1>2, <1>3, <1>4
  <1> QED
    BY <1>1, <1>5 DEF L, o, v

LEMMA WindowAdds ==
  ASSUME TypeOK, GoroutinesInStep, WindowInStep, NEW e \in Ends, NEW p \in Ports,
         chan' = Append(chan, NewChannel(e, p)), sender' = sender
  PROVE  WindowInStep'
  <1>1. /\ Created' = Created + 1 /\ Created \in Nat
        /\ chan'[Created + 1] = NewChannel(e, p)
        /\ \A c \in 1..Created : chan'[c] = chan[c]
        /\ \A c \in 1..Created' : c \in 1..Created \/ c = Created + 1
    BY ChannelAdded, ChannelTypes
  <1> SUFFICES ASSUME NEW c \in 1..Created'
               PROVE  LET others == Cardinality(Senders) - Cardinality(Takers(c)) IN
                      \/ chan'[c].window + Largest * (others - 1) >= 0
                      \/ \E s \in Takers(c) : chan'[c].window + Largest * others >= Size[sender[s].msg]
    BY Zenon DEF WindowInStep, Largest, Takers
  <1>2. CASE c \in 1..Created
    <2>1. chan'[c] = chan[c]
      BY <1>1, <1>2, Zenon
    <2> QED
      BY <1>2, <2>1, Zenon DEF WindowInStep
  <1>3. CASE c = Created + 1
    <2>1. Takers(c) = {}
      BY <1>1, <1>3 DEF Takers, TypeOK
    <2>2. NewChannel(e, p).window = Window
      BY DEF NewChannel
    <2>3. chan'[c].window = Window
      BY <1>1, <1>3, <2>2, Zenon
    <2> DEFINE n == Cardinality(Senders)
    <2> DEFINE L == Largest
    <2>4. Cardinality(Takers(c)) = 0 /\ n \in Nat /\ L \in Nat /\ Window \in Nat /\ L <= Window
      BY <2>1, TakersFinite, LargestFacts
    <2> HIDE DEF n, L
    <2>5. L * (0 - 1) <= L * (n - 1) /\ L * (0 - 1) = 0 - L /\ L * (n - 1) \in Int
      BY <2>4, Products
    <2>6. Window + L * (n - 1) >= 0
      BY <2>4, <2>5
    <2>7. (n - 0) - 1 = n - 1
      BY <2>4
    <2> QED
      BY <2>3, <2>4, <2>6, <2>7 DEF n, L
  <1> QED
    BY <1>1, <1>2, <1>3

LEMMA WindowSeen ==
  ASSUME TypeOK, GoroutinesInStep, WindowInStep, NEW s \in Senders, SendSeesWindow(s)
  PROVE  WindowInStep'
  <1> DEFINE d == sender[s].ch
  <1> DEFINE m == sender[s].msg
  <1>1. chan' = chan /\ Steady /\ Created' = Created /\ sender[s].pc = "window"
    BY SameChannels DEF SendSeesWindow
  <1>2. /\ sender'[s] = [pc |-> "take", ch |-> d, msg |-> m]
        /\ \A t \in Senders : t # s => sender'[t] = sender[t]
    BY <1>1, SenderMoves DEF SenderAt, SendSeesWindow
  <1>3. sender'[s].pc = "take" /\ sender'[s].ch = d /\ sender'[s].msg = m
    BY <1>2
  <1>4. d \in 1..Created /\ m \in Messages
    BY SendEffect DEF SendStep
  <1> SUFFICES ASSUME NEW c \in 1..Created
               PROVE  LET others == Cardinality(Senders) - Cardinality(Takers(c)') IN
                      \/ chan[c].window + Largest * (others - 1) >= 0
                      \/ \E t \in Takers(c)' : chan[c].window + Largest * others >= Size[sender'[t].msg]
    BY <1>1, Zenon DEF WindowInStep, Largest
  <1>5. CASE c # d
    <2>1. Takers(c)' = Takers(c)
      BY <1>1, <1>2, <1>3, <1>5 DEF Takers
    <2>2. \A t \in Takers(c) : sender'[t].msg = sender[t].msg
      BY <1>1, <1>2 DEF Takers
    <2> QED
      BY <2>1, <2>2, Zenon DEF WindowInStep
  <1>6. CASE c = d
    <2> DEFINE L == Largest
    <2> DEFINE o == Cardinality(Senders) - Cardinality(Takers(c)')
    <2>1. s \in Takers(c)'
      BY <1>3, <1>6 DEF Takers
    <2>2. o \in Nat /\ L \in Nat /\ chan[c].window \in Int /\ Size[m] \in Nat
      <3>1. /\ IsFiniteSet(Senders) /\ Takers(c)' \in SUBSET Senders
        BY EndsAssumption DEF Takers
      <3>2. PICK T : T = Takers(c)'
        OBVIOUS
      <3>3. Cardinality(T) \in Nat /\ Cardinality(Senders) \in Nat
            /\ Cardinality(T) <= Cardinality(Senders)
        BY <3>1, <3>2, FS_Subset, FS_CardinalityType
      <3>4. o \in Nat
        BY <3>2, <3>3
      <3> QED
        BY <1>4, <3>4, LargestFacts, ChannelTypes
    <2>3. chan[c].window >= Size[m]
      BY <1>6 DEF SendSeesWindow
    <2> HIDE DEF L, o, m
    <2>4. L * o \in Nat
      BY <2>2
    <2>5. chan[c].window + L * o >= Size[m]
      BY <2>2, <2>3, <2>4
    <2>6. chan[c].window + L * o >= Size[sender'[s].msg]
      BY <1>3, <2>5
    <2> QED
      BY <2>1, <2>6 DEF L, o
  <1> QED
    BY <1>5, <1>6

LEMMA WindowTaken ==
  ASSUME TypeOK, GoroutinesInStep, WindowInStep, NEW s \in Senders, SendTakesWindow(s)
  PROVE  WindowInStep'
  <1> DEFINE d == sender[s].ch
  <1> DEFINE m == sender[s].msg
  <1>1. /\ Steady /\ Created' = Created /\ d \in 1..Created /\ m \in Messages
        /\ chan'[d].window = chan[d].window - Size[m]
        /\ \A c \in 1..Created : c # d => chan'[c] = chan[c]
    BY SendEffect DEF SendStep
  <1>2. sender[s].pc = "take"
    BY DEF SendTakesWindow
  <1>3. /\ sender'[s] = [pc |-> "enqueue", ch |-> d, msg |-> m]
        /\ \A t \in Senders : t # s => sender'[t] = sender[t]
    BY <1>1, SenderMoves DEF SenderAt, SendTakesWindow
  <1>4. sender'[s].pc = "enqueue"
    BY <1>3
  <1> SUFFICES ASSUME NEW c \in 1..Created
               PROVE  LET others == Cardinality(Senders) - Cardinality(Takers(c)') IN
                      \/ chan'[c].window + Largest * (others - 1) >= 0
                      \/ \E t \in Takers(c)' : chan'[c].window + Largest * others >= Size[sender'[t].msg]
    BY <1>1, Zenon DEF WindowInStep, Largest
  <1>5. CASE c # d
    <2>1. Takers(c)' = Takers(c)
      BY <1>3, <1>4, <1>5 DEF Takers
    <2>2. \A t \in Takers(c) : sender'[t].msg = sender[t].msg
      BY <1>3, <1>5 DEF Takers
    <2>3. chan'[c] = chan[c]
      BY <1>1, <1>5
    <2> QED
      BY <2>1, <2>2, <2>3, Zenon DEF WindowInStep
  <1>6. CASE c = d
    <2> DEFINE L == Largest
    <2> DEFINE o == Cardinality(Senders) - Cardinality(Takers(c))
    <2> DEFINE w == chan[c].window
    <2> DEFINE z == Size[m]
    <2>1. Takers(c)' = Takers(c) \ {s} /\ s \in Takers(c)
      BY <1>2, <1>3, <1>4, <1>6 DEF Takers
    <2>2. Cardinality(Takers(c)') = Cardinality(Takers(c)) - 1 /\ Cardinality(Takers(c)) \in Nat
      BY <2>1, TakersFinite, FS_RemoveElement
    <2>3. /\ Cardinality(Senders) - Cardinality(Takers(c)') = o + 1 /\ o \in Int
          /\ L \in Nat /\ w \in Int /\ z \in Nat /\ z <= L
      BY <1>1, <2>2, TakersFinite, LargestFacts, ChannelTypes, SMTT(30)
    <2>4. w + L * (o - 1) >= 0 \/ \E t \in Takers(c) : w + L * o >= Size[sender[t].msg]
      BY DEF WindowInStep
    <2>5. \A t \in Takers(c) : Size[sender[t].msg] \in Nat
      <3>1. ASSUME NEW t \in Takers(c) PROVE sender[t].msg \in Messages
        BY TakerMessages
      <3> QED
        BY <3>1, LargestFacts
    <2>6. chan'[c].window = w - z
      BY <1>1, <1>6
    <2> HIDE DEF L, o, w
    <2>7. /\ L * o = L * (o - 1) + L /\ L * (o + 1) = L * o + L /\ L * o \in Int
          /\ L * (o - 1) \in Int /\ (o + 1) - 1 = o
      <3>1. (o - 1) + 1 = o /\ o - 1 \in Int /\ (o + 1) - 1 = o
        BY <2>3
      <3> QED
        BY <2>3, <3>1, Products
    <2>8. CASE w + L * (o - 1) >= 0 \/ w + L * o >= z
      <3>1. (w - z) + L * o >= 0
        <4> HIDE DEF z
        <4> QED
          BY <2>3, <2>7, <2>8
      <3> QED
        BY <2>3, <2>6, <2>7, <3>1 DEF L
    <2>9. ASSUME NEW t \in Takers(c), t # s, w + L * o >= Size[sender[t].msg]
          PROVE  \E u \in Takers(c)' : chan'[c].window + L * (o + 1) >= Size[sender'[u].msg]
      <3>1. t \in Takers(c)' /\ sender'[t].msg = sender[t].msg /\ Size[sender[t].msg] \in Nat
        BY <1>3, <2>1, <2>5, <2>9 DEF Takers
      <3>2. (w - z) + L * (o + 1) >= Size[sender[t].msg]
        <4> HIDE DEF z
        <4> QED
          BY <2>3, <2>7, <2>9, <3>1
      <3> QED
        BY <2>6, <3>1, <3>2
    <2> QED
      BY <2>3, <2>4, <2>8, <2>9 DEF L
  <1> QED
    BY <1>5, <1>6

LEMMA NextWindow ==
  ASSUME TypeOK, GoroutinesInStep, WindowInStep, Next
  PROVE  WindowInStep'
  <1>0. Creators \subseteq Ends /\ Closers \subseteq Ends
    BY EndsAssumption
  <1> DEFINE Grows == /\ Created' = Created
                      /\ \A c \in 1..Created : /\ chan'[c].window \in Int
                                               /\ chan'[c].window >= chan[c].window
  <1>1. ASSUME Grows, sender' = sender
        PROVE  WindowInStep'
    <2>1. \A c \in 1..Created : Takers(c)' = Takers(c)
      BY <1>1 DEF Takers
    <2> QED
      BY <1>1, <2>1, WindowKept
  <1>2. ASSUME chan' = chan PROVE Grows
    BY <1>2, SameChannels, ChannelTypes
  <1>3. ASSUME Created' = Created, \A c \in 1..Created : chan'[c].window = chan[c].window
        PROVE  Grows
    BY <1>3, ChannelTypes
  <1>4. CASE \E e \in Ends \ Creators, p \in Ports : OpenChannel(e, p)
    BY <1>4, WindowAdds DEF OpenChannel, senderVars
  <1>5. CASE \/ \E e \in Closers, p \in Ports : CloseChannel(e, p)
             \/ \E e \in Closers : Close(e)
    <2>1. chan' = chan /\ sender' = sender
      BY <1>5 DEF CloseChannel, Close, senderVars
    <2> QED
      BY <1>1, <1>2, <2>1
  <1>6. ASSUME NEW e \in Ends, NEW p \in Ports, CloseLocal(e, p)
        PROVE  Grows
    <2>1. /\ Created' = Created
          /\ \A c \in 1..Created : /\ c # table[e][p] => chan'[c] = chan[c]
                                   /\ c = table[e][p] => chan'[c].window = chan[c].window
      BY <1>6, ChannelShut, ZenonT(60)
    <2> QED
      BY <1>3, <2>1
  <1>7. ASSUME NEW e \in Ends, Writer(e)
        PROVE  WindowInStep'
    <2>1. sender' = sender
      BY <1>7 DEF Writer, WriterStops, WriterRound, WriterData, WriterWakes, WriterWaitCtrl, senderVars
    <2>2. CASE WriterRound(e)
      <3>1. CASE ctrl[e] = <<>>
        BY <1>1, <1>2, <2>1, <2>2, <3>1 DEF WriterRound
      <3>2. CASE ctrl[e] # <<>>
        <4>1. CloseLocal(e, Head(ctrl[e]).port) /\ Head(ctrl[e]).port \in Ports
          BY <2>2, <3>2, CtrlWritten DEF WriterRound
        <4> QED
          BY <1>1, <1>6, <2>1, <4>1
      <3> QED
        BY <3>1, <3>2
    <2>3. ASSUME NEW c \in 1..Created, WriterData(e, c)
          PROVE  WindowInStep'
      <3>1. /\ Created' = Created /\ chan'[c].window = chan[c].window
            /\ \A d \in 1..Created : d # c => chan'[d] = chan[d]
        BY <2>3, DataEffect
      <3>2. Grows
        BY <1>3, <3>1
      <3> QED
        BY <1>1, <2>1, <3>2
    <2>4. CASE WriterStops(e) \/ WriterWakes(e) \/ WriterWaitCtrl(e)
      BY <1>1, <1>2, <2>1, <2>4 DEF WriterStops, WriterWakes, WriterWaitCtrl
    <2> QED
      BY <1>7, <2>2, <2>3, <2>4 DEF Writer
  <1>8. ASSUME NEW e \in Ends, ReadEnds(e)
        PROVE  WindowInStep'
    <2>1. Created' = Created /\ \A c \in 1..Created : chan'[c].window = chan[c].window
      BY <1>8, ChannelsShut
    <2> QED
      BY <1>1, <1>3, <1>8, <2>1 DEF ReadEnds, senderVars
  <1>9. CASE \E e \in Ends : WorkerTakes(e)
    BY <1>1, <1>2, <1>9 DEF WorkerTakes, senderVars
  <1>10. ASSUME NEW e \in Ends, HandleWindowUpdate(e)
         PROVE  WindowInStep'
    <2>1. Grows
      BY <1>10, UpdateEffect
    <2> QED
      BY <1>1, <1>10, <2>1 DEF HandleWindowUpdate, senderVars
  <1>11. ASSUME NEW e \in Ends, NEW j \in held[e], DispatchData(e, j)
         PROVE  WindowInStep'
    <2>1. j.frame.port \in Ports /\ sender' = sender
      BY <1>11, HeldTypes DEF DispatchData, senderVars
    <2> QED
      BY <1>1, <1>2, <1>11, <2>1, WindowAdds DEF DispatchData
  <1>12. ASSUME NEW e \in Ends, NEW j \in held[e], DispatchDelivers(e, j)
         PROVE  WindowInStep'
    <2>1. Created' = Created /\ \A c \in 1..Created : chan'[c].window = chan[c].window
      BY <1>12, DeliverEffect
    <2> QED
      BY <1>1, <1>3, <1>12, <2>1 DEF DispatchDelivers, senderVars
  <1>13. ASSUME NEW e \in Ends, NEW j \in held[e], DispatchClose(e, j)
         PROVE  WindowInStep'
    <2>1. Grows
      BY <1>6, <1>13, HeldTypes DEF DispatchClose
    <2> QED
      BY <1>1, <1>13, <2>1 DEF DispatchClose, senderVars
  <1>14. CASE \E e \in Ends, n \in Frames : Dispatch(e, n)
    BY <1>11, <1>12, <1>13, <1>14 DEF Dispatch
  <1>15. ASSUME NEW s \in Senders, Grows, sender[s].pc # "take", sender'[s].pc # "take",
                \A t \in Senders : t # s => sender'[t] = sender[t]
         PROVE  WindowInStep'
    <2>1. \A c \in 1..Created : Takers(c)' = Takers(c)
      BY <1>15 DEF Takers
    <2>2. \A t \in Senders : sender[t].pc = "take" => sender'[t].msg = sender[t].msg
      BY <1>15
    <2> QED
      BY <1>15, <2>1, <2>2, WindowKept
  <1>16. ASSUME NEW s \in Senders, Send(s)
         PROVE  WindowInStep'
    <2>1. /\ sender[s].pc = "idle" /\ chan' = chan
          /\ sender' = [sender EXCEPT ![s] = [pc |-> "window", ch |-> table[At[s]][PortOf[s]],
                                              msg |-> offered + 1]]
      BY <1>16 DEF Send
    <2>2. sender'[s].pc = "window" /\ \A t \in Senders : t # s => sender'[t] = sender[t]
      BY <2>1 DEF TypeOK
    <2> QED
      BY <1>2, <1>15, <2>1, <2>2
  <1>17. ASSUME NEW s \in Senders, SendStep(s)
         PROVE  WindowInStep'
    <2>1. Steady /\ Created' = Created
      BY <1>17, SendEffect
    <2>2. CASE SendSeesWindow(s)
      BY <2>2, WindowSeen
    <2>3. CASE SendTakesWindow(s)
      BY <2>3, WindowTaken
    <2>4. CASE SendEnqueues(s)
      <3>1. /\ sender'[s] = [pc |-> "notify", ch |-> sender[s].ch, msg |-> sender[s].msg]
            /\ \A t \in Senders : t # s => sender'[t] = sender[t]
        BY <2>1, <2>4, SenderMoves DEF SenderAt, SendEnqueues
      <3>2. sender'[s].pc = "notify" /\ sender[s].pc = "enqueue"
        BY <2>4, <3>1 DEF SendEnqueues
      <3>3. \A d \in 1..Created : chan'[d].window = chan[d].window
        BY <1>17, <2>4, SendEffect
      <3> QED
        BY <1>3, <1>15, <2>1, <3>1, <3>2, <3>3
    <2>5. CASE SendNotifies(s) \/ SendFails(s)
      <3>1. /\ sender'[s] = Idle /\ chan' = chan /\ sender[s].pc # "take"
            /\ \A t \in Senders : t # s => sender'[t] = sender[t]
        BY <2>1, <2>5, SenderEnds DEF SendNotifies, SendFails
      <3>2. sender'[s].pc = "idle"
        BY <3>1 DEF Idle
      <3> QED
        BY <1>2, <1>15, <3>1, <3>2
    <2> QED
      BY <1>17, <2>2, <2>3, <2>4, <2>5 DEF SendStep
  <1>18. ASSUME NEW c \in 1..Created, ReceiveStep(c)
         PROVE  WindowInStep'
    <2>1. sender' = sender
      BY <1>18 DEF ReceiveStep, ChannelRead, SendWindowUpdate, senderVars
    <2>2. CASE ChannelRead(c)
      <3>1. /\ Created' = Created /\ chan'[c].window = chan[c].window
            /\ \A d \in 1..Created : d # c => chan'[d] = chan[d]
        BY <2>2, ReadEffect
      <3>2. Grows
        BY <1>3, <3>1
      <3> QED
        BY <1>1, <2>1, <3>2
    <2>3. CASE SendWindowUpdate(c)
      <3>1. Grows
        BY <1>3, <2>3, UpdateCounts DEF CountersOnly
      <3> QED
        BY <1>1, <2>1, <3>1
    <2> QED
      BY <1>18, <2>2, <2>3 DEF ReceiveStep
  <1> QED
    BY <1>4, <1>5, <1>7, <1>8, <1>9, <1>10, <1>14, <1>16, <1>17, <1>18 DEF Next

-----------------------------------------------------------------------------
(* Where the frames on the wires and with the workers come from.           *)
LEMMA WrittenElements ==
  ASSUME TypeOK, NEW e \in Ends, NEW f \in WireFrames, NEW g \in Ends
  PROVE  /\ Elements(wire[g]) \subseteq Elements(Written(e, f)[g])
         /\ Elements(Written(e, f)[g]) \subseteq Elements(wire[g]) \cup {f}
         /\ g # Peer(e) => Written(e, f)[g] = wire[g]
  <1>1. /\ Written(e, f)[Peer(e)] = IF up[Peer(e)] THEN Append(wire[Peer(e)], f) ELSE wire[Peer(e)]
        /\ g # Peer(e) => Written(e, f)[g] = wire[g]
    BY WrittenType
  <1>2. wire[g] \in Seq(WireFrames)
    BY TypeParts DEF WireOK
  <1>3. Elements(Append(wire[g], f)) = Elements(wire[g]) \cup {f}
    BY <1>2, SeqElements
  <1> QED
    BY <1>1, <1>3

LEMMA TakenElements ==
  ASSUME TypeOK, NEW e \in Ends, wire[e] # <<>>, wire' = [wire EXCEPT ![e] = Tail(@)], NEW g \in Ends
  PROVE  /\ Elements(wire'[g]) \subseteq Elements(wire[g])
         /\ Elements(wire[e]) = Elements(wire'[e]) \cup {Head(wire[e])}
  <1>1. /\ wire'[e] = Tail(wire[e]) /\ \A h \in Ends : h # e => wire'[h] = wire[h]
        /\ wire[e] \in Seq(WireFrames)
    BY FrameTaken, TypeParts DEF WireOK
  <1>2. Elements(wire[e]) = Elements(Tail(wire[e])) \cup {Head(wire[e])}
    BY <1>1, SeqElements
  <1> QED
    BY <1>1, <1>2

FromQueue(f) == \E c \in 1..Created : f.type = "data" /\ f.port = chan[c].port
FromCtrl(f) == \E e \in Ends : ctrl[e] # <<>> /\ f.type = "close"
FromWire(e, f) == f \in Elements(wire[e]) /\ f.type # "window"

LEMMA WireFlow ==
  ASSUME TypeOK, Next, NEW e \in Ends, NEW f \in Elements(wire'[e])
  PROVE  f \in Elements(wire[e]) \/ f.type = "window" \/ FromQueue(f) \/ FromCtrl(f)
  <1>0. Closers \subseteq Ends
    BY EndsAssumption
  <1>1. CASE wire' = wire
    BY <1>1
  <1>2. ASSUME NEW g \in Ends, NEW h \in WireFrames, wire' = Written(g, h)
        PROVE  f \in Elements(wire[e]) \/ f = h
    BY <1>2, WrittenElements
  <1>3. CASE \E g \in Closers : Close(g)
    <2>1. PICK g \in Ends : wire' = [wire EXCEPT ![g] = <<>>]
      BY <1>0, <1>3 DEF Close
    <2>2. Elements(<<>>) = {}
      BY MessagesOfFrames, EmptySeq
    <2>3. e # g => wire'[e] = wire[e]
      BY <2>1 DEF TypeOK
    <2>4. e = g => wire'[e] = <<>>
      BY <2>1 DEF TypeOK
    <2> QED
      BY <2>2, <2>3, <2>4
  <1>4. ASSUME NEW g \in Ends, WriterRound(g) \/ WriterWaitCtrl(g)
        PROVE  f \in Elements(wire[e]) \/ FromCtrl(f)
    <2>1. CASE wire' = wire
      BY <2>1
    <2>2. CASE ctrl[g] # <<>> /\ wire' = Written(g, Head(ctrl[g]))
      <3>1. Head(ctrl[g]) \in CloseFrames
        BY <2>2, SeqTypes DEF TypeOK
      <3>2. f \in Elements(wire[e]) \/ f = Head(ctrl[g])
        BY <1>2, <2>2, <3>1 DEF WireFrames
      <3> QED
        BY <2>2, <3>1, <3>2, FrameTypes DEF FromCtrl
    <2> QED
      BY <1>4, <2>1, <2>2 DEF WriterRound, WriterWaitCtrl
  <1>5. ASSUME NEW g \in Ends, NEW c \in 1..Created, WriterData(g, c)
        PROVE  f \in Elements(wire[e]) \/ FromQueue(f)
    <2>1. CASE wire' = wire
      BY <2>1
    <2>2. CASE /\ chan[c].queue # <<>>
               /\ wire' = Written(g, Data(chan[c].port, Head(chan[c].queue)))
      <3>1. Data(chan[c].port, Head(chan[c].queue)) \in DataFrames
        BY <2>2, ChannelTypes, SeqTypes, FrameTypes
      <3>2. f \in Elements(wire[e]) \/ f = Data(chan[c].port, Head(chan[c].queue))
        BY <1>2, <2>2, <3>1 DEF WireFrames
      <3>3. /\ Data(chan[c].port, Head(chan[c].queue)).type = "data"
            /\ Data(chan[c].port, Head(chan[c].queue)).port = chan[c].port
        BY DEF Data
      <3> QED
        BY <3>2, <3>3 DEF FromQueue
    <2> QED
      BY <1>5, <2>1, <2>2 DEF WriterData
  <1>6. CASE \E g \in Ends : Writer(g)
    BY <1>1, <1>4, <1>5, <1>6 DEF Writer, WriterStops, WriterWakes
  <1>7. CASE \E g \in Ends : WorkerTakes(g) \/ HandleWindowUpdate(g)
    <2>1. PICK g \in Ends : WorkerTakes(g) \/ HandleWindowUpdate(g)
      BY <1>7
    <2>2. wire[g] # <<>> /\ wire' = [wire EXCEPT ![g] = Tail(@)]
      BY <2>1 DEF WorkerTakes, HandleWindowUpdate
    <2> QED
      BY <2>2, TakenElements
  <1>8. ASSUME NEW c \in 1..Created, SendWindowUpdate(c)
        PROVE  f \in Elements(wire[e]) \/ f.type = "window"
    <2> DEFINE g == chan[c].at
    <2> DEFINE p == chan[c].port
    <2> DEFINE d == table[g][p]
    <2>0. g \in Ends /\ p \in Ports /\ Created \in Nat
      BY ChannelTypes
    <2>1. g \in Ends /\ p \in Ports /\ d \in 0..Created /\ Created \in Nat
      BY <2>0, SMTT(30) DEF TypeOK
    <2>2. d # 0 => chan[d].pending + chan[c].read \in Nat
      BY <2>1, ChannelTypes
    <2>3. \/ UNCHANGED wire
          \/ \E n \in Nat : wire' = Written(g, Update(p, n))
      BY <1>8, <2>2 DEF SendWindowUpdate
    <2>4. \A n \in Nat : Update(p, n) \in WireFrames /\ Update(p, n).type = "window"
      BY <2>1, FrameTypes DEF WireFrames
    <2> HIDE DEF g, p
    <2> QED
      BY <1>1, <1>2, <2>1, <2>3, <2>4
  <1>9. CASE \E c \in 1..Created : ReceiveStep(c)
    BY <1>1, <1>8, <1>9 DEF ReceiveStep, ChannelRead
  <1> QED
    BY <1>1, <1>3, <1>6, <1>7, <1>9 DEF Next, OpenChannel, CloseChannel, ReadEnds, Dispatch,
       DispatchData, DispatchDelivers, DispatchClose, Send, SendStep, SendSeesWindow,
       SendTakesWindow, SendEnqueues, SendNotifies, SendFails

LEMMA HeldFlow ==
  ASSUME TypeOK, Next, NEW e \in Ends, NEW j \in held'[e]
  PROVE  FromWire(e, j.frame) \/ \E k \in held[e] : k.frame = j.frame
  <1>1. CASE held' = held
    BY <1>1
  <1>2. CASE \E g \in Ends : WorkerTakes(g)
    <2>1. PICK g \in Ends : WorkerTakes(g)
      BY <1>2
    <2> DEFINE k == [frame |-> Head(wire[g]), ch |-> 0, fresh |-> FALSE]
    <2>2. held' = [held EXCEPT ![g] = held[g] \cup {k}] /\ Head(wire[g]).type # "window"
      BY <2>1 DEF WorkerTakes
    <2>3. k.frame = Head(wire[g])
      OBVIOUS
    <2>4. Head(wire[g]) \in Elements(wire[g])
      BY <2>1, TakenElements DEF WorkerTakes
    <2> HIDE DEF k
    <2>5. j \in held[e] \/ (e = g /\ j = k)
      BY <2>2 DEF TypeOK
    <2> QED
      BY <2>2, <2>3, <2>4, <2>5 DEF FromWire
  <1>3. ASSUME NEW g \in Ends, NEW i \in held[g], held' = Released(g, i)
        PROVE  j \in held[e]
    BY <1>3 DEF Released, TypeOK
  <1>4. ASSUME NEW g \in Ends, NEW i \in held[g], NEW k, k.frame = i.frame, held' = Replaced(g, i, k)
        PROVE  \E l \in held[e] : l.frame = j.frame
    BY <1>4 DEF Replaced, TypeOK
  <1>5. ASSUME NEW g \in Ends, NEW i \in held[g], DispatchData(g, i)
        PROVE  \E l \in held[e] : l.frame = j.frame
    <2>1. \/ held' = Released(g, i)
          \/ held' = Replaced(g, i, [frame |-> i.frame, ch |-> table[g][i.frame.port],
                                     fresh |-> i.fresh])
          \/ held' = Replaced(g, i, [frame |-> i.frame, ch |-> Created + 1, fresh |-> TRUE])
      BY <1>5, DispatchEffect, Zenon
    <2>2. \A c, b : [frame |-> i.frame, ch |-> c, fresh |-> b].frame = i.frame
      OBVIOUS
    <2> QED
      BY <1>3, <1>4, <2>1, <2>2, Zenon
  <1>6. CASE \E g \in Ends, n \in Frames : Dispatch(g, n)
    BY <1>3, <1>5, <1>6 DEF Dispatch, DispatchDelivers, DispatchClose
  <1> QED
    BY <1>1, <1>2, <1>6 DEF Next, OpenChannel, CloseChannel, Close, Writer, WriterStops, WriterRound,
       WriterData, WriterWakes, WriterWaitCtrl, ReadEnds, HandleWindowUpdate, Send, SendStep,
       SendSeesWindow, SendTakesWindow, SendEnqueues, SendNotifies, SendFails, ReceiveStep,
       ChannelRead, SendWindowUpdate

-----------------------------------------------------------------------------
(* Before the first close nothing is removed: a step adds a channel under a *)
(* port that has none or leaves the table as it is.                        *)
Adds(e, p) ==
  /\ table[e][p] = 0 /\ chan' = Append(chan, NewChannel(e, p))
  /\ table' = [table EXCEPT ![e][p] = Created + 1]
  /\ e \notin Creators \/ \E j \in held[e] : j.frame.port = p
NoneShut ==
  /\ table' = table /\ Created' = Created
  /\ \A c \in 1..Created : chan'[c].shut = chan[c].shut

LEMMA QuietSteps ==
  ASSUME TypeOK, GoroutinesInStep, CloseIsEnd, Next, ~ended'
  PROVE  /\ ~ended /\ UNCHANGED <<up, ctrl>>
         /\ NoneShut \/ \E e \in Ends, p \in Ports : Adds(e, p)
  <1>1. ~ended
    <2>1. CASE ended' = ended
      BY <2>1
    <2>2. CASE \/ \E e \in Closers, p \in Ports : CloseChannel(e, p)
               \/ \E e \in Closers : Close(e)
      BY <2>2 DEF CloseChannel, Close
    <2> QED
      BY <2>1, <2>2, ZenonT(60) DEF Next, OpenChannel, Writer, WriterStops, WriterRound, WriterData, WriterWakes,
         WriterWaitCtrl, ReadEnds, WorkerTakes, HandleWindowUpdate, Dispatch, DispatchData,
         DispatchDelivers, DispatchClose, Send, SendStep, SendSeesWindow, SendTakesWindow,
         SendEnqueues, SendNotifies, SendFails, ReceiveStep, ChannelRead, SendWindowUpdate,
         historyVars
  <1>2. /\ \A e \in Ends : up[e] /\ ctrl[e] = <<>>
        /\ \A e \in Ends : \A j \in held[e] : j.frame.type # "close"
    BY <1>1 DEF CloseIsEnd
  <1>3. ~(\E e \in Closers, p \in Ports : CloseChannel(e, p)) /\ ~(\E e \in Closers : Close(e))
    BY DEF CloseChannel, Close
  <1>4. CASE UNCHANGED <<up, ctrl, chan, table>>
    BY <1>1, <1>4 DEF NoneShut, Created
  <1>5. CASE \E e \in Ends \ Creators, p \in Ports : OpenChannel(e, p)
    <2>1. PICK e \in Ends \ Creators, p \in Ports : OpenChannel(e, p)
      BY <1>5
    <2>2. Adds(e, p) /\ UNCHANGED <<up, ctrl>>
      BY <2>1 DEF Adds, OpenChannel
    <2> QED
      BY <1>1, <2>2
  <1>6. CASE \E e \in Ends : Writer(e)
    <2>1. PICK e \in Ends : Writer(e)
      BY <1>6
    <2>2. CASE WriterRound(e) \/ WriterWakes(e)
      BY <1>2, <1>4, <2>2 DEF WriterRound, WriterWakes
    <2>3. ~WriterStops(e) /\ ~WriterWaitCtrl(e)
      BY <1>2 DEF WriterStops, WriterWaitCtrl
    <2>4. ASSUME NEW c \in 1..Created, WriterData(e, c)
          PROVE  NoneShut /\ UNCHANGED <<up, ctrl>>
      <3>1. /\ Created' = Created /\ chan'[c].shut = chan[c].shut
            /\ \A d \in 1..Created : d # c => chan'[d] = chan[d]
        BY <2>4, DataEffect
      <3>2. UNCHANGED <<up, ctrl, table>>
        BY <2>4 DEF WriterData
      <3> QED
        BY <3>1, <3>2 DEF NoneShut
    <2> QED
      BY <1>1, <2>1, <2>2, <2>3, <2>4 DEF Writer
  <1>7. ~(\E e \in Ends : ReadEnds(e))
    BY <1>2, PeerFacts DEF ReadEnds
  <1>8. CASE \E e \in Ends : WorkerTakes(e)
    BY <1>4, <1>8 DEF WorkerTakes
  <1>9. CASE \E e \in Ends : HandleWindowUpdate(e)
    <2>1. PICK e \in Ends : HandleWindowUpdate(e)
      BY <1>9
    <2>2. Created' = Created /\ \A c \in 1..Created : chan'[c].shut = chan[c].shut
      BY <2>1, UpdateEffect
    <2> QED
      BY <1>1, <2>1, <2>2 DEF HandleWindowUpdate, NoneShut
  <1>10. CASE \E e \in Ends, n \in Frames : Dispatch(e, n)
    <2>0. PICK e \in Ends : \E n \in Frames : Dispatch(e, n)
      BY <1>10
    <2>1. PICK j \in held[e] :
            DispatchData(e, j) \/ DispatchDelivers(e, j) \/ DispatchClose(e, j)
      BY <2>0 DEF Dispatch
    <2>2. ~DispatchClose(e, j)
      BY <1>2 DEF DispatchClose
    <2>3. UNCHANGED <<up, ctrl>>
      BY <2>1 DEF DispatchData, DispatchDelivers, DispatchClose
    <2>4. CASE DispatchDelivers(e, j)
      <3>1. Created' = Created /\ \A c \in 1..Created : chan'[c].shut = chan[c].shut
        BY <2>4, DeliverEffect
      <3> QED
        BY <1>1, <2>3, <2>4, <3>1 DEF DispatchDelivers, NoneShut
    <2>5. CASE DispatchData(e, j)
      <3>1. j.frame.port \in Ports
        BY <2>5, DispatchEffect
      <3>2. UNCHANGED <<table, chan>> \/ Adds(e, j.frame.port)
        BY <2>5 DEF DispatchData, Adds
      <3> QED
        BY <1>1, <1>4, <2>3, <3>1, <3>2
    <2> QED
      BY <2>1, <2>2, <2>4, <2>5
  <1>11. CASE \E s \in Senders : Send(s)
    BY <1>4, <1>11 DEF Send
  <1>12. CASE \E s \in Senders : SendStep(s)
    <2>1. PICK s \in Senders : SendStep(s)
      BY <1>12
    <2>2. /\ table' = table /\ Created' = Created
          /\ \A c \in 1..Created : chan'[c].shut = chan[c].shut
      BY <2>1, SendEffect
    <2>3. UNCHANGED <<up, ctrl>>
      BY <2>1 DEF SendStep, SendSeesWindow, SendTakesWindow, SendEnqueues, SendNotifies, SendFails
    <2> QED
      BY <1>1, <2>2, <2>3 DEF NoneShut
  <1>13. CASE \E c \in 1..Created : ReceiveStep(c)
    <2>1. PICK c \in 1..Created : ReceiveStep(c)
      BY <1>13
    <2>2. UNCHANGED <<up, ctrl, table>>
      BY <2>1 DEF ReceiveStep, ChannelRead, SendWindowUpdate
    <2>3. CASE ChannelRead(c)
      <3>1. /\ Created' = Created /\ chan'[c].shut = chan[c].shut
            /\ \A d \in 1..Created : d # c => chan'[d] = chan[d]
        BY <2>3, ReadEffect
      <3> QED
        BY <1>1, <2>2, <3>1 DEF NoneShut
    <2>4. CASE SendWindowUpdate(c)
      BY <1>1, <2>2, <2>4, UpdateCounts DEF CountersOnly, NoneShut
    <2> QED
      BY <2>1, <2>3, <2>4 DEF ReceiveStep
  <1> QED
    BY <1>3, <1>5, <1>6, <1>7, <1>8, <1>9, <1>10, <1>11, <1>12, <1>13 DEF Next

LEMMA NextClosed ==
  ASSUME TypeOK, GoroutinesInStep, CloseIsEnd, Next
  PROVE  CloseIsEnd'
  <1> SUFFICES ASSUME ~ended'
               PROVE  /\ \A e \in Ends :
                           /\ up'[e] /\ ctrl'[e] = <<>>
                           /\ \A i \in DOMAIN wire'[e] : wire'[e][i].type # "close"
                           /\ \A j \in held'[e] : j.frame.type # "close"
                      /\ \A c \in 1..Created' : ~chan'[c].shut
    BY DEF CloseIsEnd
  <1>1. /\ ~ended /\ UNCHANGED <<up, ctrl>>
        /\ NoneShut \/ \E e \in Ends, p \in Ports : Adds(e, p)
    BY QuietSteps
  <1>2. /\ \A e \in Ends :
             /\ up[e] /\ ctrl[e] = <<>>
             /\ \A i \in DOMAIN wire[e] : wire[e][i].type # "close"
             /\ \A j \in held[e] : j.frame.type # "close"
        /\ \A c \in 1..Created : ~chan[c].shut
    BY <1>1 DEF CloseIsEnd
  <1>3. \A e \in Ends : \A f \in Elements(wire[e]) : f.type # "close"
    BY <1>2 DEF Elements
  <1>4. \A f : ~FromCtrl(f)
    BY <1>2 DEF FromCtrl
  <1>5. ASSUME NEW e \in Ends, NEW i \in DOMAIN wire'[e]
        PROVE  wire'[e][i].type # "close"
    <2>1. wire'[e][i] \in Elements(wire'[e])
      BY DEF Elements
    <2>2. \A f \in Elements(wire'[e]) :
            f \in Elements(wire[e]) \/ f.type = "window" \/ FromQueue(f) \/ FromCtrl(f)
      BY WireFlow
    <2> QED
      BY <1>3, <1>4, <2>1, <2>2 DEF FromQueue
  <1>6. ASSUME NEW e \in Ends, NEW j \in held'[e]
        PROVE  j.frame.type # "close"
    <2>1. FromWire(e, j.frame) \/ \E k \in held[e] : k.frame = j.frame
      BY HeldFlow
    <2> QED
      BY <1>2, <1>3, <2>1 DEF FromWire
  <1>7. \A c \in 1..Created' : ~chan'[c].shut
    <2>1. CASE NoneShut
      BY <1>2, <2>1 DEF NoneShut
    <2>2. ASSUME NEW e \in Ends, NEW p \in Ports, Adds(e, p)
          PROVE  \A c \in 1..Created' : ~chan'[c].shut
      <3>1. /\ chan'[Created + 1] = NewChannel(e, p)
            /\ \A c \in 1..Created : chan'[c] = chan[c]
            /\ \A c \in 1..Created' : c \in 1..Created \/ c = Created + 1
        BY <2>2, ChannelAdded DEF Adds
      <3>2. ~NewChannel(e, p).shut
        BY DEF NewChannel
      <3> QED
        BY <1>2, <3>1, <3>2, Zenon
    <2> QED
      BY <1>1, <2>1, <2>2
  <1> QED
    BY <1>1, <1>2, <1>5, <1>6, <1>7

(* Until its channel is opened there is nothing on a port.                 *)
LEMMA NextPorts ==
  ASSUME TypeOK, GoroutinesInStep, CloseIsEnd, PortsInStep, Next
  PROVE  PortsInStep'
  <1> SUFFICES ASSUME ~ended', NEW e \in Ends \ Creators, NEW p \in Ports, table'[e][p] = 0
               PROVE  Silent(p)'
    BY DEF PortsInStep
  <1>1. /\ ~ended
        /\ NoneShut \/ \E g \in Ends, q \in Ports : Adds(g, q)
    BY QuietSteps
  <1>2. Steady /\ Created \in Nat
    BY NextTypes, ChannelTypes
  <1>3. \A g \in Ends, q \in Ports : Adds(g, q) =>
          table'[e][p] = IF g = e /\ q = p THEN Created + 1 ELSE table[e][p]
    BY DEF Adds, TypeOK
  <1>4. table[e][p] = 0
    BY <1>1, <1>2, <1>3 DEF NoneShut
  <1>5. Silent(p)
    BY <1>1, <1>4 DEF PortsInStep
  <1>6. /\ \A c \in 1..Created : chan[c].port # p
        /\ \A g \in Ends : \A j \in held[g] : j.frame.port # p
        /\ \A g \in Ends : \A f \in Elements(wire[g]) : f.type = "data" => f.port # p
    BY <1>5 DEF Silent, Elements
  <1>7. \A c \in 1..Created' : chan'[c].port # p
    <2>1. CASE NoneShut
      BY <1>2, <1>6, <2>1 DEF NoneShut, Steady
    <2>2. ASSUME NEW g \in Ends, NEW q \in Ports, Adds(g, q)
          PROVE  \A c \in 1..Created' : chan'[c].port # p
      <3>1. /\ chan'[Created + 1] = NewChannel(g, q)
            /\ \A c \in 1..Created : chan'[c] = chan[c]
            /\ \A c \in 1..Created' : c \in 1..Created \/ c = Created + 1
        BY <2>2, ChannelAdded DEF Adds
      <3>2. NewChannel(g, q).port = q
        BY DEF NewChannel
      <3>3. q # p
        <4>1. g \notin Creators => g = e
          BY PeerFacts
        <4>2. ~(g = e /\ q = p)
          BY <1>2, <1>3, <2>2
        <4>3. g \in Creators => q # p
          BY <1>6, <2>2 DEF Adds
        <4> QED
          BY <4>1, <4>2, <4>3
      <3> QED
        BY <1>6, <3>1, <3>2, <3>3, Zenon
    <2> QED
      BY <1>1, <2>1, <2>2
  <1>8. ASSUME NEW g \in Ends, NEW i \in DOMAIN wire'[g], wire'[g][i].type = "data"
        PROVE  wire'[g][i].port # p
    <2>1. wire'[g][i] \in Elements(wire'[g])
      BY DEF Elements
    <2>2. \A f \in Elements(wire'[g]) :
            f \in Elements(wire[g]) \/ f.type = "window" \/ FromQueue(f) \/ FromCtrl(f)
      BY WireFlow
    <2> QED
      BY <1>6, <1>8, <2>1, <2>2 DEF FromQueue, FromCtrl
  <1>9. ASSUME NEW g \in Ends, NEW j \in held'[g]
        PROVE  j.frame.port # p
    <2>1. FromWire(g, j.frame) \/ \E k \in held[g] : k.frame = j.frame
      BY HeldFlow
    <2>2. \A f \in Elements(wire[g]) : f.type # "close" /\ f.type \in {"data", "close", "window"}
      <3>1. \A f \in Elements(wire[g]) : f.type # "close"
        BY <1>1 DEF CloseIsEnd, Elements
      <3>2. wire[g] \in Seq(WireFrames)
        BY TypeParts DEF WireOK
      <3>3. Elements(wire[g]) \subseteq WireFrames
        BY <3>2, SeqElements
      <3>4. \A f \in WireFrames : f.type \in {"data", "close", "window"}
        BY DEF WireFrames, DataFrames, CloseFrames, Updates
      <3> QED
        BY <3>1, <3>3, <3>4
    <2> QED
      BY <1>6, <2>1, <2>2 DEF FromWire
  <1> QED
    BY <1>7, <1>8, <1>9 DEF Silent

-----------------------------------------------------------------------------
(* A message is in one place, once.                                        *)
Apart ==
  \A k, l \in Places, x, y \in Slots :
    k # l \/ x # y => MessagesAt(k, x) \cap MessagesAt(l, y) = {}
Accounted == \A k \in Places, x \in Slots : MessagesAt(k, x) \subseteq sent
QueuesOnce == \A c \in 1..Created : Distinct(chan[c].queue)
InboxesOnce == \A c \in 1..Created : Distinct(chan[c].inbox)
GotOnce == Distinct(got)
FramesOnce(q) ==
  \A i, j \in DOMAIN q : q[i].type = "data" /\ q[j].type = "data" /\ q[i].n = q[j].n => i = j
WiresOnce == \A e \in Ends : FramesOnce(wire[e])
HeldOnce ==
  \A e \in Ends : \A j, k \in held[e] :
    j.frame.type = "data" /\ k.frame.type = "data" /\ j.frame.n = k.frame.n => j = k

LEMMA OnePlaceParts ==
  OnePlace <=> /\ Apart /\ Accounted /\ QueuesOnce /\ InboxesOnce /\ GotOnce
               /\ WiresOnce /\ HeldOnce
  BY Zenon DEF OnePlace, Apart, Accounted, QueuesOnce, InboxesOnce, GotOnce, FramesOnce, WiresOnce,
     HeldOnce

LEMMA OnePlacePartsNext ==
  ASSUME Apart', Accounted', QueuesOnce', InboxesOnce', GotOnce', WiresOnce', HeldOnce'
  PROVE  OnePlace'
  BY Zenon DEF OnePlace, Apart, Accounted, QueuesOnce, InboxesOnce, GotOnce, FramesOnce, WiresOnce,
     HeldOnce

(* The places by their names.                                              *)
LEMMA PlacesNow ==
  /\ \A x : MessagesAt("queue", x) = IF x \in 1..Created THEN Elements(chan[x].queue) ELSE {}
  /\ \A x : MessagesAt("inbox", x) = IF x \in 1..Created THEN Elements(chan[x].inbox) ELSE {}
  /\ \A x : MessagesAt("wire", x) = IF x \in Ends THEN MessagesIn(wire[x]) ELSE {}
  /\ \A x : MessagesAt("held", x) = IF x \in Ends THEN HeldMessages(x) ELSE {}
  /\ \A x : MessagesAt("got", x) = IF x = 0 THEN Elements(got) ELSE {}
  BY DEF MessagesAt

LEMMA PlacesNext ==
  /\ \A x : MessagesAt("queue", x)' = IF x \in 1..Created' THEN Elements(chan'[x].queue) ELSE {}
  /\ \A x : MessagesAt("inbox", x)' = IF x \in 1..Created' THEN Elements(chan'[x].inbox) ELSE {}
  /\ \A x : MessagesAt("wire", x)' = IF x \in Ends THEN MessagesIn(wire'[x]) ELSE {}
  /\ \A x : MessagesAt("held", x)' = IF x \in Ends THEN HeldMessages(x)' ELSE {}
  /\ \A x : MessagesAt("got", x)' = IF x = 0 THEN Elements(got') ELSE {}
  BY DEF MessagesAt, Elements, MessagesIn, HeldMessages

(* A place loses messages; it may also get message m.                      *)
Loses(k) == \A x \in Slots : MessagesAt(k, x)' \subseteq MessagesAt(k, x)
Gets(k, y, m) ==
  /\ \A x \in Slots : x # y => MessagesAt(k, x)' \subseteq MessagesAt(k, x)
  /\ MessagesAt(k, y)' \subseteq MessagesAt(k, y) \cup {m}

LEMMA AllLose ==
  ASSUME Apart, Accounted, sent \subseteq sent', \A k \in Places : Loses(k)
  PROVE  Apart' /\ Accounted'
  BY DEF Apart, Accounted, Loses

(* A message that was in no place, or leaves the one it was in, gets to    *)
(* another one.                                                            *)
LEMMA OneMoves ==
  ASSUME Apart, Accounted, sent \subseteq sent', NEW l \in Places, NEW y \in Slots, NEW m \in sent',
         Gets(l, y, m), \A k \in Places : k # l => Loses(k),
         \/ m \notin sent
         \/ \E k \in Places, x \in Slots : m \in MessagesAt(k, x) /\ m \notin MessagesAt(k, x)'
  PROVE  Apart' /\ Accounted'
  <1>1. \A k \in Places, x \in Slots :
          MessagesAt(k, x)' \subseteq MessagesAt(k, x) \cup (IF k = l /\ x = y THEN {m} ELSE {})
    BY DEF Gets, Loses
  <1>2. \A k \in Places, x \in Slots : k # l \/ x # y => m \notin MessagesAt(k, x)'
    <2>1. CASE m \notin sent
      BY <1>1, <2>1 DEF Accounted
    <2>2. CASE \E k \in Places, x \in Slots : m \in MessagesAt(k, x) /\ m \notin MessagesAt(k, x)'
      <3>1. PICK k \in Places, x \in Slots : m \in MessagesAt(k, x) /\ m \notin MessagesAt(k, x)'
        BY <2>2
      <3>2. \A j \in Places, z \in Slots : j # k \/ z # x => m \notin MessagesAt(j, z)
        BY <3>1 DEF Apart
      <3> QED
        BY <1>1, <3>1, <3>2
    <2> QED
      BY <2>1, <2>2
  <1>3. Accounted'
    BY <1>1 DEF Accounted
  <1>4. Apart'
    BY <1>1, <1>2 DEF Apart
  <1> QED
    BY <1>3, <1>4

(* What becomes of the queues, the inboxes, the wires and the workers in a  *)
(* step that moves no message: they keep or lose what they have.           *)
QueuesKept ==
  \A c \in 1..Created' :
    \/ chan'[c].queue = <<>>
    \/ c \in 1..Created /\ chan'[c].queue = chan[c].queue
    \/ /\ c \in 1..Created /\ chan[c].queue # <<>>
       /\ chan'[c].queue = Tail(chan[c].queue)
InboxesKept ==
  \A c \in 1..Created' :
    \/ chan'[c].inbox = <<>>
    \/ c \in 1..Created /\ chan'[c].inbox = chan[c].inbox
WireKept(e) ==
  \/ wire'[e] = wire[e] \/ wire'[e] = <<>>
  \/ wire[e] # <<>> /\ wire'[e] = Tail(wire[e])
  \/ \E f \in WireFrames : f.type # "data" /\ wire'[e] = Append(wire[e], f)
HeldKept(e) ==
  \/ held'[e] = held[e]
  \/ \E k : k.frame.type # "data" /\ held'[e] = held[e] \cup {k}
  \/ \E j \in held[e] :
       \/ held'[e] = held[e] \ {j}
       \/ \E k : k.frame = j.frame /\ held'[e] = (held[e] \ {j}) \cup {k}

LEMMA NothingInEmpty ==
  /\ Elements(<<>>) = {} /\ MessagesIn(<<>>) = {}
  /\ Distinct(<<>>) /\ FramesOnce(<<>>)
  <1>1. DOMAIN <<>> = {}
    BY EmptySeq, LenProperties
  <1> QED
    BY <1>1 DEF Elements, MessagesIn, Distinct, FramesOnce

LEMMA QueuesLose ==
  ASSUME TypeOK, QueuesKept
  PROVE  Loses("queue") /\ (QueuesOnce => QueuesOnce')
  <1>1. ASSUME NEW c \in 1..Created, chan[c].queue # <<>>
        PROVE  /\ Elements(Tail(chan[c].queue)) \subseteq Elements(chan[c].queue)
               /\ Distinct(chan[c].queue) => Distinct(Tail(chan[c].queue))
    <2>1. chan[c].queue \in Seq(Messages)
      BY ChannelTypes
    <2> QED
      BY <1>1, <2>1, SeqElements, SeqDistinct
  <1>2. Loses("queue")
    BY <1>1, PlacesNow, PlacesNext, NothingInEmpty DEF QueuesKept, Loses
  <1>3. ASSUME QueuesOnce PROVE QueuesOnce'
    <2>1. \A c \in 1..Created' : Distinct(chan'[c].queue)
      BY <1>1, <1>3, NothingInEmpty DEF QueuesKept, QueuesOnce
    <2> QED
      BY <2>1 DEF QueuesOnce, Distinct
  <1> QED
    BY <1>2, <1>3

LEMMA InboxesLose ==
  ASSUME InboxesKept
  PROVE  Loses("inbox") /\ (InboxesOnce => InboxesOnce')
  <1>1. Loses("inbox")
    BY PlacesNow, PlacesNext, NothingInEmpty DEF InboxesKept, Loses
  <1>2. ASSUME InboxesOnce PROVE InboxesOnce'
    <2>1. \A c \in 1..Created' : Distinct(chan'[c].inbox)
      BY <1>2, NothingInEmpty DEF InboxesKept, InboxesOnce
    <2> QED
      BY <2>1 DEF InboxesOnce, Distinct
  <1> QED
    BY <1>1, <1>2

LEMMA GotLoses ==
  ASSUME got' = got
  PROVE  Loses("got") /\ (GotOnce => GotOnce')
  <1>1. Elements(got') = Elements(got) /\ (Distinct(got) => Distinct(got'))
    BY Zenon
  <1>2. Loses("got")
    BY <1>1, PlacesNow, PlacesNext DEF Loses
  <1> QED
    BY <1>1, <1>2 DEF GotOnce, Distinct

(* The frames of a wire.                                                   *)
LEMMA FrameSequences ==
  ASSUME NEW q \in Seq(WireFrames), FramesOnce(q)
  PROVE  /\ \A f \in WireFrames : f.type # "data" \/ f.n \notin MessagesIn(q) =>
              FramesOnce(Append(q, f))
         /\ q # <<>> =>
              /\ FramesOnce(Tail(q))
              /\ Head(q).type = "data" => Head(q).n \notin MessagesIn(Tail(q))
  <1>1. /\ DOMAIN q = 1..Len(q) /\ Len(q) \in Nat
        /\ \A x \in WireFrames :
             /\ DOMAIN Append(q, x) = 1..(Len(q) + 1)
             /\ Append(q, x)[Len(q) + 1] = x
             /\ \A i \in 1..Len(q) : Append(q, x)[i] = q[i]
        /\ q # <<>> => /\ Len(q) >= 1 /\ Head(q) = q[1]
                       /\ DOMAIN Tail(q) = 1..(Len(q) - 1)
                       /\ \A i \in 1..(Len(q) - 1) : Tail(q)[i] = q[i + 1]
    BY SeqPlaces
  <1>2. \A i, j \in 1..Len(q) : q[i].type = "data" /\ q[j].type = "data" /\ q[i].n = q[j].n => i = j
    BY <1>1 DEF FramesOnce
  <1>3. ASSUME NEW f \in WireFrames, f.type # "data" \/ f.n \notin MessagesIn(q)
        PROVE  FramesOnce(Append(q, f))
    <2>1. \A i \in 1..Len(q) : q[i].type = "data" => q[i].n # f.n \/ f.type # "data"
      BY <1>1, <1>3 DEF MessagesIn
    <2>2. \A i \in 1..(Len(q) + 1) : i \in 1..Len(q) \/ i = Len(q) + 1
      BY <1>1
    <2> QED
      BY <1>1, <1>2, <2>1, <2>2 DEF FramesOnce
  <1>4. ASSUME q # <<>>
        PROVE  /\ FramesOnce(Tail(q))
               /\ Head(q).type = "data" => Head(q).n \notin MessagesIn(Tail(q))
    <2>1. \A i \in 1..(Len(q) - 1) : i + 1 \in 1..Len(q) /\ i + 1 # 1
      BY <1>1
    <2>2. \A i, j \in 1..(Len(q) - 1) : i + 1 = j + 1 => i = j
      BY <1>1
    <2>3. 1 \in 1..Len(q)
      BY <1>1, <1>4
    <2>4. \A i \in 1..(Len(q) - 1) : Head(q).type = "data" /\ Tail(q)[i].type = "data" =>
            Tail(q)[i].n # Head(q).n
      BY <1>1, <1>2, <1>4, <2>1, <2>3
    <2>5. FramesOnce(Tail(q))
      BY <1>1, <1>2, <1>4, <2>1, <2>2 DEF FramesOnce
    <2> QED
      BY <1>1, <1>4, <2>4, <2>5 DEF MessagesIn
  <1> QED
    BY <1>3, <1>4

LEMMA MessagesMove ==
  ASSUME NEW q \in Seq(WireFrames)
  PROVE  /\ \A f \in WireFrames :
              MessagesIn(Append(q, f)) = MessagesIn(q) \cup (IF f.type = "data" THEN {f.n} ELSE {})
         /\ q # <<>> =>
              MessagesIn(q) = MessagesIn(Tail(q)) \cup
                                (IF Head(q).type = "data" THEN {Head(q).n} ELSE {})
  <1>1. MessagesIn(q) = {f.n : f \in {g \in Elements(q) : g.type = "data"}}
    BY MessagesOfFrames
  <1>2. ASSUME NEW f \in WireFrames
        PROVE  MessagesIn(Append(q, f)) = MessagesIn(q) \cup (IF f.type = "data" THEN {f.n} ELSE {})
    <2>1. Append(q, f) \in Seq(WireFrames) /\ Elements(Append(q, f)) = Elements(q) \cup {f}
      BY SeqTypes, SeqElements
    <2>2. MessagesIn(Append(q, f)) = {g.n : g \in {h \in Elements(Append(q, f)) : h.type = "data"}}
      BY <2>1, MessagesOfFrames
    <2> QED
      BY <1>1, <2>1, <2>2
  <1>3. ASSUME q # <<>>
        PROVE  MessagesIn(q) = MessagesIn(Tail(q)) \cup
                                 (IF Head(q).type = "data" THEN {Head(q).n} ELSE {})
    <2>1. Tail(q) \in Seq(WireFrames) /\ Elements(q) = Elements(Tail(q)) \cup {Head(q)}
      BY <1>3, SeqTypes, SeqElements
    <2>2. MessagesIn(Tail(q)) = {g.n : g \in {h \in Elements(Tail(q)) : h.type = "data"}}
      BY <2>1, MessagesOfFrames
    <2> QED
      BY <1>1, <2>1, <2>2
  <1> QED
    BY <1>2, <1>3

LEMMA WiresLose ==
  ASSUME TypeOK, \A e \in Ends : WireKept(e)
  PROVE  Loses("wire") /\ (WiresOnce => WiresOnce')
  <1>1. \A e \in Ends : wire[e] \in Seq(WireFrames)
    BY TypeParts DEF WireOK
  <1>2. ASSUME NEW e \in Ends
        PROVE  /\ MessagesIn(wire'[e]) \subseteq MessagesIn(wire[e])
               /\ FramesOnce(wire[e]) => FramesOnce(wire'[e])
    <2>1. CASE wire'[e] = wire[e]
      BY <2>1
    <2>2. CASE wire'[e] = <<>>
      BY <2>2, NothingInEmpty
    <2>3. CASE wire[e] # <<>> /\ wire'[e] = Tail(wire[e])
      BY <1>1, <2>3, MessagesMove, FrameSequences
    <2>4. CASE \E f \in WireFrames : f.type # "data" /\ wire'[e] = Append(wire[e], f)
      BY <1>1, <2>4, MessagesMove, FrameSequences
    <2> QED
      BY <2>1, <2>2, <2>3, <2>4 DEF WireKept
  <1>3. Loses("wire")
    BY <1>2, PlacesNow, PlacesNext DEF Loses
  <1>4. ASSUME WiresOnce PROVE WiresOnce'
    <2>1. \A e \in Ends : FramesOnce(wire'[e])
      BY <1>2, <1>4 DEF WiresOnce
    <2> QED
      BY <2>1 DEF WiresOnce, FramesOnce
  <1> QED
    BY <1>3, <1>4

LEMMA HeldLose ==
  ASSUME \A e \in Ends : HeldKept(e)
  PROVE  Loses("held") /\ (HeldOnce => HeldOnce')
  <1>1. ASSUME NEW e \in Ends
        PROVE  HeldMessages(e)' \subseteq HeldMessages(e)
    <2>1. \A j \in held'[e] : j.frame.type = "data" => \E k \in held[e] : j.frame = k.frame
      BY DEF HeldKept
    <2> QED
      BY <2>1 DEF HeldMessages
  <1>2. Loses("held")
    BY <1>1, PlacesNow, PlacesNext DEF Loses
  <1>3. ASSUME HeldOnce PROVE HeldOnce'
    <2> SUFFICES ASSUME NEW e \in Ends, NEW a \in held'[e], NEW b \in held'[e],
                        a.frame.type = "data", b.frame.type = "data", a.frame.n = b.frame.n
                 PROVE  a = b
      BY DEF HeldOnce
    <2>1. \A j, k \in held[e] :
            j.frame.type = "data" /\ k.frame.type = "data" /\ j.frame.n = k.frame.n => j = k
      BY <1>3 DEF HeldOnce
    <2> QED
      BY <2>1 DEF HeldKept
  <1> QED
    BY <1>2, <1>3

(* A place gets a message.                                                 *)
LEMMA QueueGets ==
  ASSUME TypeOK, NEW c \in 1..Created, NEW m \in Messages, Created' = Created,
         chan'[c].queue = Append(chan[c].queue, m), m \notin Elements(chan[c].queue),
         \A d \in 1..Created : d # c => chan'[d].queue = chan[d].queue
  PROVE  Gets("queue", c, m) /\ (QueuesOnce => QueuesOnce')
  <1>1. chan[c].queue \in Seq(Messages)
    BY ChannelTypes
  <1>2. Elements(chan'[c].queue) = Elements(chan[c].queue) \cup {m}
    BY <1>1, SeqElements
  <1>3. Distinct(chan[c].queue) => Distinct(chan'[c].queue)
    BY <1>1, SeqDistinct
  <1>4. Gets("queue", c, m)
    BY <1>2, PlacesNow, PlacesNext DEF Gets
  <1>5. ASSUME QueuesOnce PROVE QueuesOnce'
    <2>1. \A d \in 1..Created' : Distinct(chan'[d].queue)
      BY <1>3, <1>5 DEF QueuesOnce
    <2> QED
      BY <2>1 DEF QueuesOnce, Distinct
  <1> QED
    BY <1>4, <1>5

LEMMA InboxGets ==
  ASSUME TypeOK, NEW c \in 1..Created, NEW m \in Messages, Created' = Created,
         chan'[c].inbox = Append(chan[c].inbox, m), m \notin Elements(chan[c].inbox),
         \A d \in 1..Created : d # c => chan'[d].inbox = chan[d].inbox
  PROVE  Gets("inbox", c, m) /\ (InboxesOnce => InboxesOnce')
  <1>1. chan[c].inbox \in Seq(Messages)
    BY ChannelTypes
  <1>2. Elements(chan'[c].inbox) = Elements(chan[c].inbox) \cup {m}
    BY <1>1, SeqElements
  <1>3. Distinct(chan[c].inbox) => Distinct(chan'[c].inbox)
    BY <1>1, SeqDistinct
  <1>4. Gets("inbox", c, m)
    BY <1>2, PlacesNow, PlacesNext DEF Gets
  <1>5. ASSUME InboxesOnce PROVE InboxesOnce'
    <2>1. \A d \in 1..Created' : Distinct(chan'[d].inbox)
      BY <1>3, <1>5 DEF InboxesOnce
    <2> QED
      BY <2>1 DEF InboxesOnce, Distinct
  <1> QED
    BY <1>4, <1>5

LEMMA WireGets ==
  ASSUME TypeOK, NEW e \in Ends, NEW f \in WireFrames, f.type = "data", f.n \notin MessagesIn(wire[e]),
         wire'[e] = Append(wire[e], f), \A g \in Ends : g # e => wire'[g] = wire[g]
  PROVE  Gets("wire", e, f.n) /\ (WiresOnce => WiresOnce')
  <1>1. wire[e] \in Seq(WireFrames)
    BY TypeParts DEF WireOK
  <1>2. MessagesIn(wire'[e]) = MessagesIn(wire[e]) \cup {f.n}
    BY <1>1, MessagesMove
  <1>3. FramesOnce(wire[e]) => FramesOnce(wire'[e])
    BY <1>1, FrameSequences
  <1>4. Gets("wire", e, f.n)
    BY <1>2, PlacesNow, PlacesNext DEF Gets
  <1>5. ASSUME WiresOnce PROVE WiresOnce'
    <2>1. \A g \in Ends : FramesOnce(wire'[g])
      BY <1>3, <1>5 DEF WiresOnce
    <2> QED
      BY <2>1 DEF WiresOnce, FramesOnce
  <1> QED
    BY <1>4, <1>5

LEMMA HeldGets ==
  ASSUME NEW e \in Ends, NEW k, k.frame.type = "data", k.frame.n \notin HeldMessages(e),
         held'[e] = held[e] \cup {k}, \A g \in Ends : g # e => held'[g] = held[g]
  PROVE  Gets("held", e, k.frame.n) /\ (HeldOnce => HeldOnce')
  <1>1. /\ HeldMessages(e)' \subseteq HeldMessages(e) \cup {k.frame.n}
        /\ \A g \in Ends : g # e => HeldMessages(g)' \subseteq HeldMessages(g)
    BY DEF HeldMessages
  <1>2. Gets("held", e, k.frame.n)
    BY <1>1, PlacesNow, PlacesNext DEF Gets
  <1>3. \A j \in held[e] : j.frame.type = "data" => j.frame.n # k.frame.n
    BY DEF HeldMessages
  <1>4. HeldOnce => HeldOnce'
    BY <1>3 DEF HeldOnce
  <1> QED
    BY <1>2, <1>4

LEMMA GotGets ==
  ASSUME TypeOK, NEW m \in Messages, m \notin Elements(got), got' = Append(got, m)
  PROVE  /\ Gets("got", 0, m) /\ (GotOnce => GotOnce')
         /\ Elements(got') = Elements(got) \cup {m}
  <1>1. got \in Seq(Messages)
    BY DEF TypeOK
  <1>2. PICK g : g = got'
    OBVIOUS
  <1>3. Elements(g) = Elements(got) \cup {m} /\ (Distinct(got) => Distinct(g))
    BY <1>1, <1>2, SeqElements, SeqDistinct
  <1>4. Elements(got') = Elements(got) \cup {m}
    BY <1>2, <1>3
  <1>5. Gets("got", 0, m)
    BY <1>4, PlacesNow, PlacesNext DEF Gets
  <1>6. GotOnce => GotOnce'
    BY <1>2, <1>3 DEF GotOnce, Distinct
  <1> QED
    BY <1>4, <1>5, <1>6

(* The messages under way are those of all places but the readers'.        *)
LEMMA SlotFacts ==
  ASSUME TypeOK
  PROVE  1..Created \subseteq Slots /\ Ends \subseteq Slots /\ 0 \in Slots
  <1>1. Created \in Nat /\ MaxChannels \in Nat /\ Created <= MaxChannels
    BY ChannelTypes, EndsAssumption DEF TypeOK
  <1>2. 1..Created \subseteq 0..MaxChannels /\ 0 \in 0..MaxChannels
    BY <1>1
  <1> QED
    BY <1>2 DEF Slots

LEMMA UnderWayNow ==
  ASSUME TypeOK, NEW m
  PROVE  m \in UnderWay <=> \E k \in Places \ {"got"}, x \in Slots : m \in MessagesAt(k, x)
  <1>1. m \in UnderWay <=>
          \/ \E c \in 1..Created : m \in Elements(chan[c].queue) \/ m \in Elements(chan[c].inbox)
          \/ \E e \in Ends : m \in MessagesIn(wire[e]) \/ m \in HeldMessages(e)
    <2> DEFINE Q(c) == Elements(chan[c].queue) \cup Elements(chan[c].inbox)
    <2> DEFINE W(e) == MessagesIn(wire[e]) \cup HeldMessages(e)
    <2>1. UnderWay = UNION ({Q(c) : c \in 1..Created} \cup {W(e) : e \in Ends})
      BY DEF UnderWay
    <2>2. m \in UnderWay <=> (\E c \in 1..Created : m \in Q(c)) \/ (\E e \in Ends : m \in W(e))
      <3> HIDE DEF Q, W
      <3> QED
        BY <2>1, Zenon
    <2> QED
      BY <2>2, Zenon
  <1>2. Places \ {"got"} = {"queue", "inbox", "wire", "held"}
    BY DEF Places
  <1> QED
    BY <1>1, <1>2, SlotFacts, PlacesNow, SMTT(60)

LEMMA UnderWayNext ==
  ASSUME TypeOK', NEW m
  PROVE  m \in UnderWay' <=> \E k \in Places \ {"got"}, x \in Slots : m \in MessagesAt(k, x)'
  <1>1. m \in UnderWay' <=>
          \/ \E c \in 1..Created' : m \in Elements(chan'[c].queue) \/ m \in Elements(chan'[c].inbox)
          \/ \E e \in Ends : m \in MessagesIn(wire'[e]) \/ m \in HeldMessages(e)'
    <2> DEFINE Q(c) == Elements(chan'[c].queue) \cup Elements(chan'[c].inbox)
    <2> DEFINE W(e) == MessagesIn(wire'[e]) \cup HeldMessages(e)'
    <2>1. UnderWay' = UNION ({Q(c) : c \in 1..Created'} \cup {W(e) : e \in Ends})
      BY DEF UnderWay, Elements, MessagesIn
    <2>2. m \in UnderWay' <=> (\E c \in 1..Created' : m \in Q(c)) \/ (\E e \in Ends : m \in W(e))
      <3> HIDE DEF Q, W
      <3> QED
        BY <2>1, Zenon
    <2> QED
      BY <2>2, Zenon
  <1>2. Places \ {"got"} = {"queue", "inbox", "wire", "held"}
    BY DEF Places
  <1>3. 1..Created' \subseteq Slots /\ Ends \subseteq Slots
    <2>1. chan' \in Seq(Channels)' /\ Created' <= MaxChannels /\ MaxChannels \in Nat
      BY EndsAssumption, Zenon DEF TypeOK
    <2>2. Created' \in Nat
      BY <2>1, LenProperties DEF Created
    <2>3. 1..Created' \subseteq 0..MaxChannels
      BY <2>1, <2>2
    <2> QED
      BY <2>3 DEF Slots
  <1> QED
    BY <1>1, <1>2, <1>3, PlacesNext

(* A step that brings no message to the channels or to the readers.        *)
Kept == OnePlace' /\ sent' = sent /\ got' = got /\ UnderWay' \subseteq UnderWay

LEMMA NothingMoves ==
  ASSUME TypeOK, TypeOK', OnePlace, UNCHANGED <<sent, got>>, QueuesKept, InboxesKept,
         \A e \in Ends : WireKept(e), \A e \in Ends : HeldKept(e)
  PROVE  Kept
  <1>1. Apart /\ Accounted /\ QueuesOnce /\ InboxesOnce /\ GotOnce /\ WiresOnce /\ HeldOnce
    BY OnePlaceParts
  <1>2. /\ Loses("queue") /\ Loses("inbox") /\ Loses("wire") /\ Loses("held") /\ Loses("got")
        /\ QueuesOnce' /\ InboxesOnce' /\ GotOnce' /\ WiresOnce' /\ HeldOnce'
    BY <1>1, QueuesLose, InboxesLose, GotLoses, WiresLose, HeldLose
  <1>3. \A k \in Places : Loses(k)
    BY <1>2 DEF Places
  <1>4. Apart' /\ Accounted'
    BY <1>1, <1>3, AllLose
  <1>5. UnderWay' \subseteq UnderWay
    <2>1. \A m : m \in UnderWay' => m \in UnderWay
      BY <1>3, UnderWayNow, UnderWayNext DEF Loses
    <2> QED
      BY <2>1
  <1> QED
    BY <1>2, <1>4, <1>5, OnePlacePartsNext DEF Kept

LEMMA MessageMoves ==
  ASSUME TypeOK, TypeOK', OnePlace, sent' = sent, got' = got,
         NEW l \in Places \ {"got"}, NEW y \in Slots, NEW m, Gets(l, y, m),
         \A k \in Places : k # l => Loses(k),
         NEW h \in Places \ {"got"}, NEW x \in Slots,
         m \in MessagesAt(h, x), m \notin MessagesAt(h, x)',
         QueuesOnce', InboxesOnce', WiresOnce', HeldOnce'
  PROVE  Kept
  <1>1. Apart /\ Accounted /\ GotOnce
    BY OnePlaceParts
  <1>2. m \in sent'
    BY <1>1 DEF Accounted
  <1>3. Apart' /\ Accounted'
    BY <1>1, <1>2, OneMoves
  <1>4. GotOnce'
    BY <1>1, GotLoses
  <1>5. UnderWay' \subseteq UnderWay
    <2>1. m \in UnderWay
      BY UnderWayNow
    <2>2. \A n : n \in UnderWay' => n \in UnderWay
      BY <2>1, UnderWayNow, UnderWayNext DEF Loses, Gets
    <2> QED
      BY <2>2
  <1> QED
    BY <1>3, <1>4, <1>5, OnePlacePartsNext DEF Kept

(* The parts of the state that a step leaves alone.                        *)
LEMMA PlacesStay ==
  ASSUME TypeOK
  PROVE  /\ chan' = chan => QueuesKept /\ InboxesKept
         /\ wire' = wire => \A e \in Ends : WireKept(e)
         /\ held' = held => \A e \in Ends : HeldKept(e)
  BY DEF QueuesKept, InboxesKept, WireKept, HeldKept, Created

LEMMA ChannelsStay ==
  ASSUME Created' = Created,
         \A c \in 1..Created : /\ chan'[c].queue = chan[c].queue
                               /\ chan'[c].inbox = chan[c].inbox
  PROVE  QueuesKept /\ InboxesKept
  BY DEF QueuesKept, InboxesKept

LEMMA AddedIsEmpty ==
  ASSUME TypeOK, NEW e \in Ends, NEW p \in Ports, chan' = Append(chan, NewChannel(e, p))
  PROVE  QueuesKept /\ InboxesKept
  <1>1. /\ chan'[Created + 1] = NewChannel(e, p)
        /\ \A c \in 1..Created : chan'[c] = chan[c]
        /\ \A c \in 1..Created' : c \in 1..Created \/ c = Created + 1
    BY ChannelAdded
  <1>2. NewChannel(e, p).queue = <<>> /\ NewChannel(e, p).inbox = <<>>
    BY DEF NewChannel
  <1> QED
    BY <1>1, <1>2, Zenon DEF QueuesKept, InboxesKept

LEMMA ShutKeeps ==
  ASSUME TypeOK, NEW e \in Ends, NEW p \in Ports, CloseLocal(e, p)
  PROVE  QueuesKept /\ InboxesKept
  <1>1. Created' = Created
    BY ChannelShut, Zenon
  <1>2. \A c \in 1..Created : c # table[e][p] => chan'[c] = chan[c]
    <2> TAKE c \in 1..Created
    <2> HAVE c # table[e][p]
    <2> QED
      BY ChannelShut, ZenonT(60)
  <1>3. \A c \in 1..Created :
          c = table[e][p] => chan'[c].queue = <<>> /\ chan'[c].inbox = chan[c].inbox
    <2> TAKE c \in 1..Created
    <2> HAVE c = table[e][p]
    <2> QED
      BY ChannelShut, Zenon
  <1> QED
    BY <1>1, <1>2, <1>3 DEF QueuesKept, InboxesKept

LEMMA WrittenKeeps ==
  ASSUME TypeOK, NEW e \in Ends, NEW f \in WireFrames, f.type # "data", wire' = Written(e, f)
  PROVE  \A g \in Ends : WireKept(g)
  <1>1. Peer(e) \in Ends
    BY PeerFacts
  <1>2. /\ Written(e, f)[Peer(e)] = IF up[Peer(e)] THEN Append(wire[Peer(e)], f) ELSE wire[Peer(e)]
        /\ \A g \in Ends : g # Peer(e) => Written(e, f)[g] = wire[g]
    BY WrittenType
  <1> QED
    BY <1>1, <1>2 DEF WireKept

LEMMA TakenKeeps ==
  ASSUME TypeOK, NEW e \in Ends, wire[e] # <<>>, wire' = [wire EXCEPT ![e] = Tail(@)]
  PROVE  \A g \in Ends : WireKept(g)
  BY FrameTaken DEF WireKept

LEMMA ReleasedKeeps ==
  ASSUME TypeOK, NEW e \in Ends, NEW j \in held[e],
         held' = Released(e, j) \/ \E k : k.frame = j.frame /\ held' = Replaced(e, j, k)
  PROVE  \A g \in Ends : HeldKept(g)
  <1>1. held \in [Ends -> SUBSET Held]
    BY DEF TypeOK
  <1> QED
    BY <1>1 DEF HeldKept, Released, Replaced

(* The steps of the write loop.                                            *)
LEMMA WriterMovesData ==
  ASSUME TypeOK, TypeOK', OnePlace, NEW e \in Ends, NEW c \in 1..Created, WriterData(e, c)
  PROVE  Kept
  <1> DEFINE m == Head(chan[c].queue)
  <1> DEFINE f == Data(chan[c].port, m)
  <1>1. /\ Created' = Created
        /\ chan'[c].queue = IF chan[c].queue = <<>> THEN <<>> ELSE Tail(chan[c].queue)
        /\ chan'[c].inbox = chan[c].inbox
        /\ \A d \in 1..Created : d # c => chan'[d] = chan[d]
    BY DataEffect
  <1>2. QueuesKept /\ InboxesKept
    BY <1>1 DEF QueuesKept, InboxesKept
  <1>3. UNCHANGED <<held, sent, got>>
    BY DEF WriterData, senderVars, historyVars
  <1>4. \A g \in Ends : HeldKept(g)
    BY <1>3, PlacesStay
  <1>5. CASE wire' = wire
    <2>1. \A g \in Ends : WireKept(g)
      BY <1>5, PlacesStay
    <2> QED
      BY <1>2, <1>3, <1>4, <2>1, NothingMoves
  <1>6. CASE wire' # wire
    <2>1. chan[c].queue # <<>> /\ wire' = Written(e, f)
      BY <1>6 DEF WriterData
    <2>2. m \in Messages /\ chan[c].queue \in Seq(Messages)
      BY <2>1, ChannelTypes, SeqTypes
    <2>3. f \in DataFrames /\ f \in WireFrames
      BY <2>2, ChannelTypes, FrameTypes DEF WireFrames
    <2>4. f.type = "data" /\ f.n = m
      BY DEF Data
    <2> HIDE DEF f
    <2>5. Peer(e) \in Ends /\ \A g \in Ends : g # Peer(e) => wire'[g] = wire[g]
      BY <2>1, <2>3, PeerFacts, WrittenType
    <2>6. wire'[Peer(e)] = Append(wire[Peer(e)], f)
      <3>1. wire'[Peer(e)] = Append(wire[Peer(e)], f) \/ wire'[Peer(e)] = wire[Peer(e)]
        BY <2>1, <2>3, WrittenType
      <3>2. wire \in [Ends -> Seq(WireFrames)] /\ wire' \in [Ends -> Seq(WireFrames)]
        BY <2>1, <2>3, WrittenType, TypeParts DEF WireOK
      <3>3. ASSUME wire'[Peer(e)] = wire[Peer(e)] PROVE FALSE
        <4>1. \A g \in Ends : wire'[g] = wire[g]
          BY <2>5, <3>3
        <4> QED
          BY <1>6, <3>2, <4>1
      <3> QED
        BY <3>1, <3>3
    <2>7. /\ Apart /\ QueuesOnce /\ InboxesOnce /\ WiresOnce /\ HeldOnce
      BY OnePlaceParts
    <2>8. Elements(chan[c].queue) = Elements(Tail(chan[c].queue)) \cup {m}
      BY <2>1, <2>2, SeqElements
    <2>9. m \notin Elements(Tail(chan[c].queue))
      BY <2>1, <2>2, <2>7, SeqDistinct DEF QueuesOnce
    <2>10. m \in MessagesAt("queue", c) /\ m \notin MessagesAt("queue", c)'
      BY <1>1, <2>1, <2>8, <2>9, PlacesNow, PlacesNext
    <2>11. c \in Slots /\ Peer(e) \in Slots
      BY <2>5, SlotFacts
    <2>12. "queue" \in Places \ {"got"} /\ "wire" \in Places \ {"got"}
      BY DEF Places
    <2>13. m \notin MessagesIn(wire[Peer(e)])
      <3>1. m \notin MessagesAt("wire", Peer(e))
        BY <2>7, <2>10, <2>11, <2>12 DEF Apart
      <3> QED
        BY <2>5, <3>1, PlacesNow
    <2> HIDE DEF m
    <2>14. Gets("wire", Peer(e), m) /\ WiresOnce'
      BY <2>3, <2>4, <2>5, <2>6, <2>7, <2>13, WireGets
    <2>15. /\ Loses("queue") /\ Loses("inbox") /\ Loses("held") /\ Loses("got")
           /\ QueuesOnce' /\ InboxesOnce' /\ HeldOnce'
      BY <1>2, <1>3, <1>4, <2>7, QueuesLose, InboxesLose, HeldLose, GotLoses
    <2>16. \A k \in Places : k # "wire" => Loses(k)
      BY <2>15 DEF Places
    <2> QED
      BY <1>3, <2>10, <2>11, <2>12, <2>14, <2>15, <2>16, MessageMoves
  <1> QED
    BY <1>5, <1>6

LEMMA WriterKeeps ==
  ASSUME TypeOK, TypeOK', OnePlace, NEW e \in Ends, Writer(e)
  PROVE  Kept
  <1>1. UNCHANGED <<held, sent, got>>
    BY DEF Writer, WriterStops, WriterRound, WriterData, WriterWakes, WriterWaitCtrl, senderVars,
       historyVars
  <1>2. \A g \in Ends : HeldKept(g)
    BY <1>1, PlacesStay
  <1>3. ASSUME QueuesKept, InboxesKept, \A g \in Ends : WireKept(g)
        PROVE  Kept
    BY <1>1, <1>2, <1>3, NothingMoves
  <1>4. ASSUME ctrl[e] # <<>>, ctrl' = [ctrl EXCEPT ![e] = Tail(@)], wire' = Written(e, Head(ctrl[e]))
        PROVE  Head(ctrl[e]).port \in Ports /\ \A g \in Ends : WireKept(g)
    <2>1. Head(ctrl[e]) \in CloseFrames /\ Head(ctrl[e]).port \in Ports
      BY <1>4, CtrlWritten
    <2>2. Head(ctrl[e]) \in WireFrames /\ Head(ctrl[e]).type # "data"
      BY <2>1 DEF WireFrames, CloseFrames
    <2> QED
      BY <1>4, <2>1, <2>2, WrittenKeeps
  <1>5. CASE UNCHANGED <<chan, wire>>
    BY <1>3, <1>5, PlacesStay
  <1>6. CASE WriterRound(e) /\ ctrl[e] # <<>>
    <2>1. /\ ctrl' = [ctrl EXCEPT ![e] = Tail(@)] /\ wire' = Written(e, Head(ctrl[e]))
          /\ CloseLocal(e, Head(ctrl[e]).port)
      BY <1>6 DEF WriterRound
    <2>2. Head(ctrl[e]).port \in Ports /\ \A g \in Ends : WireKept(g)
      BY <1>4, <1>6, <2>1
    <2>3. QueuesKept /\ InboxesKept
      BY <2>1, <2>2, ShutKeeps
    <2> QED
      BY <1>3, <2>2, <2>3
  <1>7. CASE WriterRound(e) /\ ctrl[e] = <<>>
    BY <1>5, <1>7 DEF WriterRound
  <1>8. CASE WriterWaitCtrl(e)
    <2>1. /\ ctrl[e] # <<>> /\ ctrl' = [ctrl EXCEPT ![e] = Tail(@)]
          /\ wire' = Written(e, Head(ctrl[e])) /\ chan' = chan
      BY <1>8 DEF WriterWaitCtrl
    <2> QED
      BY <1>3, <1>4, <2>1, PlacesStay
  <1>9. CASE \E c \in 1..Created : WriterData(e, c)
    BY <1>9, WriterMovesData
  <1>10. CASE WriterStops(e) \/ WriterWakes(e)
    BY <1>5, <1>10 DEF WriterStops, WriterWakes
  <1> QED
    BY <1>6, <1>7, <1>8, <1>9, <1>10 DEF Writer

(* The steps of the workers.                                               *)
LEMMA TakeMoves ==
  ASSUME TypeOK, TypeOK', OnePlace, NEW e \in Ends, WorkerTakes(e)
  PROVE  Kept
  <1> DEFINE f == Head(wire[e])
  <1> DEFINE k == [frame |-> f, ch |-> 0, fresh |-> FALSE]
  <1>1. wire[e] # <<>> /\ wire' = [wire EXCEPT ![e] = Tail(@)] /\ UNCHANGED <<chan, sent, got>>
    BY DEF WorkerTakes, senderVars, historyVars
  <1>2. QueuesKept /\ InboxesKept /\ \A g \in Ends : WireKept(g)
    BY <1>1, PlacesStay, TakenKeeps
  <1>3. held'[e] = held[e] \cup {k} /\ \A g \in Ends : g # e => held'[g] = held[g]
    BY DEF WorkerTakes, TypeOK
  <1>4. k.frame = f
    OBVIOUS
  <1>5. wire[e] \in Seq(WireFrames) /\ wire'[e] = Tail(wire[e])
    BY <1>1, FrameTaken, TypeParts DEF WireOK
  <1> HIDE DEF k, f
  <1>6. CASE f.type # "data"
    <2>1. \A g \in Ends : HeldKept(g)
      BY <1>3, <1>4, <1>6 DEF HeldKept
    <2> QED
      BY <1>1, <1>2, <2>1, NothingMoves
  <1>7. CASE f.type = "data"
    <2> DEFINE m == f.n
    <2>1. /\ Apart /\ QueuesOnce /\ InboxesOnce /\ WiresOnce /\ HeldOnce
      BY OnePlaceParts
    <2>2. MessagesIn(wire[e]) = MessagesIn(Tail(wire[e])) \cup {m}
      BY <1>1, <1>5, <1>7, MessagesMove DEF f
    <2>3. m \notin MessagesIn(Tail(wire[e]))
      BY <1>1, <1>5, <1>7, <2>1, FrameSequences DEF WiresOnce, f
    <2>4. m \in MessagesAt("wire", e) /\ m \notin MessagesAt("wire", e)'
      BY <1>5, <2>2, <2>3, PlacesNow, PlacesNext
    <2>5. e \in Slots /\ "wire" \in Places \ {"got"} /\ "held" \in Places \ {"got"}
      BY SlotFacts DEF Places
    <2>6. m \notin HeldMessages(e)
      <3>1. m \notin MessagesAt("held", e)
        BY <2>1, <2>4, <2>5 DEF Apart
      <3> QED
        BY <3>1, PlacesNow
    <2>7. Gets("held", e, m) /\ HeldOnce'
      BY <1>3, <1>4, <1>7, <2>1, <2>6, HeldGets
    <2> HIDE DEF m
    <2>8. /\ Loses("queue") /\ Loses("inbox") /\ Loses("wire") /\ Loses("got")
          /\ QueuesOnce' /\ InboxesOnce' /\ WiresOnce'
      BY <1>1, <1>2, <2>1, QueuesLose, InboxesLose, WiresLose, GotLoses
    <2>9. \A h \in Places : h # "held" => Loses(h)
      BY <2>8 DEF Places
    <2> QED
      BY <1>1, <2>4, <2>5, <2>7, <2>8, <2>9, MessageMoves
  <1> QED
    BY <1>6, <1>7

LEMMA DeliverMoves ==
  ASSUME TypeOK, TypeOK', OnePlace, NEW e \in Ends, NEW j \in held[e], DispatchDelivers(e, j)
  PROVE  Kept
  <1> DEFINE c == j.ch
  <1> DEFINE m == j.frame.n
  <1>1. /\ j.frame \in DataFrames /\ c \in 1..Created /\ Created' = Created
        /\ held' = Released(e, j)
        /\ \A d \in 1..Created :
             /\ d # c => chan'[d] = chan[d]
             /\ chan'[d].queue = chan[d].queue
        /\ chan'[c].inbox = Append(chan[c].inbox, m) \/ chan' = chan
    BY DeliverEffect
  <1>2. UNCHANGED <<wire, sent, got>>
    BY DEF DispatchDelivers, senderVars, historyVars
  <1>3. (\A g \in Ends : WireKept(g)) /\ \A g \in Ends : HeldKept(g)
    BY <1>1, <1>2, PlacesStay, ReleasedKeeps
  <1>4. CASE chan' = chan
    BY <1>2, <1>3, <1>4, PlacesStay, NothingMoves
  <1>5. CASE chan'[c].inbox = Append(chan[c].inbox, m)
    <2>1. /\ Apart /\ QueuesOnce /\ InboxesOnce /\ WiresOnce /\ HeldOnce
      BY OnePlaceParts
    <2>2. j.frame.type = "data" /\ m \in Messages
      BY <1>1, FrameTypes
    <2>3. m \in HeldMessages(e) /\ m \notin HeldMessages(e)'
      <3>1. held'[e] = held[e] \ {j}
        BY <1>1 DEF Released, TypeOK
      <3>2. \A k \in held[e] : k.frame.type = "data" /\ k.frame.n = m => k = j
        BY <2>1, <2>2 DEF HeldOnce
      <3> QED
        BY <2>2, <3>1, <3>2 DEF HeldMessages
    <2>4. m \in MessagesAt("held", e) /\ m \notin MessagesAt("held", e)'
      BY <2>3, PlacesNow, PlacesNext
    <2>5. e \in Slots /\ c \in Slots /\ "inbox" \in Places \ {"got"} /\ "held" \in Places \ {"got"}
      BY <1>1, SlotFacts DEF Places
    <2>6. m \notin Elements(chan[c].inbox)
      <3>1. m \notin MessagesAt("inbox", c)
        BY <2>1, <2>4, <2>5 DEF Apart
      <3> QED
        BY <1>1, <3>1, PlacesNow
    <2> HIDE DEF m, c
    <2>7. Gets("inbox", c, m) /\ InboxesOnce'
      BY <1>1, <1>5, <2>1, <2>2, <2>6, InboxGets
    <2>8. QueuesKept
      BY <1>1 DEF QueuesKept
    <2>9. /\ Loses("queue") /\ Loses("held") /\ Loses("wire") /\ Loses("got")
          /\ QueuesOnce' /\ HeldOnce' /\ WiresOnce'
      BY <1>2, <1>3, <2>1, <2>8, QueuesLose, HeldLose, WiresLose, GotLoses
    <2>10. \A h \in Places : h # "inbox" => Loses(h)
      BY <2>9 DEF Places
    <2> QED
      BY <1>2, <2>4, <2>5, <2>7, <2>9, <2>10, MessageMoves
  <1> QED
    BY <1>1, <1>4, <1>5

LEMMA DispatchKeeps ==
  ASSUME TypeOK, TypeOK', OnePlace, NEW e \in Ends, NEW j \in held[e],
         DispatchData(e, j) \/ DispatchDelivers(e, j) \/ DispatchClose(e, j)
  PROVE  Kept
  <1>1. CASE DispatchData(e, j)
    <2>1. UNCHANGED <<wire, sent, got>> /\ \A g \in Ends : WireKept(g)
      BY <1>1, PlacesStay DEF DispatchData, senderVars, historyVars
    <2>2. QueuesKept /\ InboxesKept
      <3>1. j.frame.port \in Ports
        BY <1>1, DispatchEffect
      <3> QED
        BY <1>1, <3>1, PlacesStay, AddedIsEmpty DEF DispatchData
    <2>3. \A g \in Ends : HeldKept(g)
      <3>1. \/ held' = Released(e, j)
            \/ held' = Replaced(e, j, [frame |-> j.frame, ch |-> table[e][j.frame.port],
                                       fresh |-> j.fresh])
            \/ held' = Replaced(e, j, [frame |-> j.frame, ch |-> Created + 1, fresh |-> TRUE])
        BY <1>1, DispatchEffect, Zenon
      <3>2. \A c, b : [frame |-> j.frame, ch |-> c, fresh |-> b].frame = j.frame
        OBVIOUS
      <3>3. held' = Released(e, j) \/ \E k : k.frame = j.frame /\ held' = Replaced(e, j, k)
        BY <3>1, <3>2, Zenon
      <3> QED
        BY <3>3, ReleasedKeeps
    <2> QED
      BY <2>1, <2>2, <2>3, NothingMoves
  <1>2. CASE DispatchDelivers(e, j)
    BY <1>2, DeliverMoves
  <1>3. CASE DispatchClose(e, j)
    <2>1. UNCHANGED <<wire, sent, got>> /\ \A g \in Ends : WireKept(g)
      BY <1>3, PlacesStay DEF DispatchClose, senderVars, historyVars
    <2>2. QueuesKept /\ InboxesKept
      BY <1>3, HeldTypes, ShutKeeps DEF DispatchClose
    <2>3. \A g \in Ends : HeldKept(g)
      BY <1>3, ReleasedKeeps DEF DispatchClose
    <2> QED
      BY <2>1, <2>2, <2>3, NothingMoves
  <1> QED
    BY <1>1, <1>2, <1>3

(* Send accepts a message, and a reader takes one.                         *)
Accepts(m) ==
  /\ OnePlace' /\ m \in Messages \ sent /\ sent' = sent \cup {m}
  /\ got' = got /\ ended' = ended /\ UnderWay' = UnderWay \cup {m}
Takes(m) ==
  /\ OnePlace' /\ sent' = sent /\ ended' = ended /\ m \in Messages \cap sent
  /\ m \notin Elements(got) /\ Elements(got') = Elements(got) \cup {m}
  /\ UnderWay = UnderWay' \cup {m}

LEMMA EnqueueMoves ==
  ASSUME TypeOK, TypeOK', GoroutinesInStep, OnePlace, NEW s \in Senders, SendEnqueues(s)
  PROVE  Accepts(sender[s].msg)
  <1>0. PICK c, m : c = sender[s].ch /\ m = sender[s].msg
    OBVIOUS
  <1>1. /\ c \in 1..Created /\ m \in Messages /\ Created' = Created
        /\ \A d \in 1..Created : /\ chan'[d].inbox = chan[d].inbox
                                 /\ d # c => chan'[d] = chan[d]
        /\ chan'[c].queue = Append(chan[c].queue, m)
    BY <1>0, SendEffect, Zenon DEF SendStep
  <1>2. UNCHANGED <<wire, held, got, ended>> /\ sent' = sent \cup {m}
    BY <1>0 DEF SendEnqueues, historyVars
  <1>3. m \notin sent
    BY <1>0 DEF SendEnqueues, GoroutinesInStep
  <1>4. (\A g \in Ends : WireKept(g)) /\ \A g \in Ends : HeldKept(g)
    BY <1>2, PlacesStay
  <1>5. /\ Apart /\ Accounted /\ QueuesOnce /\ InboxesOnce /\ WiresOnce /\ HeldOnce /\ GotOnce
    BY OnePlaceParts
  <1>6. c \in Slots /\ "queue" \in Places
    BY <1>1, SlotFacts DEF Places
  <1>7. chan[c].queue \in Seq(Messages)
    BY <1>1, ChannelTypes
  <1>8. m \notin Elements(chan[c].queue)
    <2>1. MessagesAt("queue", c) \subseteq sent
      BY <1>5, <1>6 DEF Accounted
    <2> QED
      BY <1>1, <1>3, <2>1, PlacesNow
  <1>9. Gets("queue", c, m) /\ QueuesOnce'
    BY <1>1, <1>5, <1>8, QueueGets
  <1>10. InboxesKept
    BY <1>1 DEF InboxesKept
  <1>11. /\ Loses("inbox") /\ Loses("held") /\ Loses("wire") /\ Loses("got")
         /\ InboxesOnce' /\ HeldOnce' /\ WiresOnce' /\ GotOnce'
    BY <1>2, <1>4, <1>5, <1>10, InboxesLose, HeldLose, WiresLose, GotLoses
  <1>12. \A h \in Places : h # "queue" => Loses(h)
    BY <1>11 DEF Places
  <1>13. Apart' /\ Accounted'
    BY <1>2, <1>3, <1>5, <1>6, <1>9, <1>12, OneMoves
  <1>14. OnePlace'
    BY <1>9, <1>11, <1>13, OnePlacePartsNext
  <1>15. \A n : n \in UnderWay' => n \in UnderWay \cup {m}
    BY <1>9, <1>12, UnderWayNow, UnderWayNext DEF Loses, Gets
  <1>16. \A n : n \in UnderWay \cup {m} => n \in UnderWay'
    <2>1. Elements(chan'[c].queue) = Elements(chan[c].queue) \cup {m}
      BY <1>1, <1>7, SeqElements
    <2>2. \A x \in Slots : MessagesAt("queue", x) \subseteq MessagesAt("queue", x)'
      <3>1. \A d \in 1..Created : Elements(chan[d].queue) \subseteq Elements(chan'[d].queue)
        BY <1>1, <2>1
      <3> QED
        BY <1>1, <3>1, PlacesNow, PlacesNext
    <2>3. \A x \in Slots : MessagesAt("inbox", x) \subseteq MessagesAt("inbox", x)'
      BY <1>1, PlacesNow, PlacesNext
    <2>4. \A x \in Slots : MessagesAt("wire", x) \subseteq MessagesAt("wire", x)'
      BY <1>2, PlacesNow, PlacesNext
    <2>5. \A x \in Slots : MessagesAt("held", x) \subseteq MessagesAt("held", x)'
      BY <1>2, PlacesNow, PlacesNext DEF HeldMessages
    <2>6. \A h \in Places \ {"got"}, x \in Slots : MessagesAt(h, x) \subseteq MessagesAt(h, x)'
      BY <2>2, <2>3, <2>4, <2>5 DEF Places
    <2>7. m \in MessagesAt("queue", c)' /\ "queue" \in Places \ {"got"}
      BY <1>1, <2>1, PlacesNext DEF Places
    <2> QED
      BY <1>6, <2>6, <2>7, UnderWayNow, UnderWayNext
  <1>17. UnderWay' = UnderWay \cup {m}
    BY <1>15, <1>16
  <1> QED
    BY <1>0, <1>1, <1>2, <1>3, <1>14, <1>17 DEF Accepts

LEMMA ReadMoves ==
  ASSUME TypeOK, TypeOK', OnePlace, NEW c \in 1..Created, ChannelRead(c)
  PROVE  Takes(Head(chan[c].inbox))
  <1> DEFINE m == Head(chan[c].inbox)
  <1>1. /\ Created' = Created /\ chan[c].inbox # <<>> /\ m \in Messages
        /\ chan'[c].inbox = Tail(chan[c].inbox) /\ got' = Append(got, m)
        /\ chan'[c].queue = chan[c].queue
        /\ \A d \in 1..Created : d # c => chan'[d] = chan[d]
    BY ReadEffect
  <1>2. UNCHANGED <<wire, held, sent, ended>>
    BY DEF ChannelRead, senderVars
  <1>3. (\A g \in Ends : WireKept(g)) /\ \A g \in Ends : HeldKept(g)
    BY <1>2, PlacesStay
  <1>4. chan[c].inbox \in Seq(Messages)
    BY ChannelTypes
  <1>5. /\ Apart /\ Accounted /\ QueuesOnce /\ InboxesOnce /\ WiresOnce /\ HeldOnce /\ GotOnce
    BY OnePlaceParts
  <1>6. c \in Slots /\ 0 \in Slots /\ "inbox" \in Places \ {"got"} /\ "got" \in Places
    BY SlotFacts DEF Places
  <1>7. Elements(chan[c].inbox) = Elements(Tail(chan[c].inbox)) \cup {m}
    BY <1>1, <1>4, SeqElements
  <1>8. m \notin Elements(Tail(chan[c].inbox)) /\ Distinct(Tail(chan[c].inbox))
    BY <1>1, <1>4, <1>5, SeqDistinct DEF InboxesOnce
  <1> HIDE DEF m
  <1>9. m \in MessagesAt("inbox", c) /\ m \notin MessagesAt("inbox", c)'
    BY <1>1, <1>7, <1>8, PlacesNow, PlacesNext
  <1>10. m \notin Elements(got) /\ m \in sent
    <2>1. m \notin MessagesAt("got", 0) /\ m \in sent
      BY <1>5, <1>6, <1>9 DEF Apart, Accounted
    <2> QED
      BY <2>1, PlacesNow
  <1>11. Gets("got", 0, m) /\ GotOnce' /\ Elements(got') = Elements(got) \cup {m}
    BY <1>1, <1>5, <1>10, GotGets
  <1>12. QueuesKept
    BY <1>1 DEF QueuesKept
  <1>13. Loses("inbox")
    BY <1>1, <1>7, PlacesNow, PlacesNext DEF Loses
  <1>14. InboxesOnce'
    <2>1. \A d \in 1..Created' : Distinct(chan'[d].inbox)
      BY <1>1, <1>5, <1>8 DEF InboxesOnce
    <2> QED
      BY <2>1 DEF InboxesOnce, Distinct
  <1>15. /\ Loses("queue") /\ Loses("held") /\ Loses("wire")
         /\ QueuesOnce' /\ HeldOnce' /\ WiresOnce'
    BY <1>3, <1>5, <1>12, QueuesLose, HeldLose, WiresLose
  <1>16. \A h \in Places : h # "got" => Loses(h)
    BY <1>13, <1>15 DEF Places
  <1>17. Apart' /\ Accounted'
    BY <1>2, <1>5, <1>6, <1>9, <1>10, <1>11, <1>16, OneMoves
  <1>18. OnePlace'
    BY <1>11, <1>14, <1>15, <1>17, OnePlacePartsNext
  <1>19. \A n : n \in UnderWay' \cup {m} => n \in UnderWay
    BY <1>6, <1>9, <1>16, UnderWayNow, UnderWayNext DEF Loses
  <1>20. \A n : n \in UnderWay => n \in UnderWay' \cup {m}
    <2>1. \A x \in Slots : MessagesAt("queue", x) \subseteq MessagesAt("queue", x)'
      BY <1>1, PlacesNow, PlacesNext
    <2>2. \A x \in Slots : MessagesAt("inbox", x) \subseteq MessagesAt("inbox", x)' \cup {m}
      BY <1>1, <1>7, PlacesNow, PlacesNext
    <2>3. \A x \in Slots : MessagesAt("wire", x) \subseteq MessagesAt("wire", x)'
      BY <1>2, PlacesNow, PlacesNext
    <2>4. \A x \in Slots : MessagesAt("held", x) \subseteq MessagesAt("held", x)'
      BY <1>2, PlacesNow, PlacesNext DEF HeldMessages
    <2>5. \A h \in Places \ {"got"}, x \in Slots :
            MessagesAt(h, x) \subseteq MessagesAt(h, x)' \cup {m}
      BY <2>1, <2>2, <2>3, <2>4 DEF Places
    <2> QED
      BY <2>5, UnderWayNow, UnderWayNext
  <1>21. UnderWay = UnderWay' \cup {m}
    BY <1>19, <1>20
  <1> QED
    BY <1>1, <1>2, <1>10, <1>11, <1>18, <1>21 DEF Takes, m

LEMMA UpdateWrites ==
  ASSUME TypeOK, NEW c \in 1..Created, SendWindowUpdate(c)
  PROVE  \/ wire' = wire
         \/ \E f \in WireFrames, e \in Ends : f.type # "data" /\ wire' = Written(e, f)
  <1> DEFINE e == chan[c].at
  <1> DEFINE p == chan[c].port
  <1> DEFINE d == table[e][p]
  <1>1. e \in Ends /\ p \in Ports /\ d \in 0..Created /\ Created \in Nat
    <2>1. e \in Ends /\ p \in Ports
      BY ChannelTypes
    <2>2. table \in [Ends -> [Ports -> 0..Created]] /\ Created \in Nat
      BY ChannelTypes, SMTT(30) DEF TypeOK
    <2> QED
      BY <2>1, <2>2
  <1>2. d # 0 => chan[d].pending + chan[c].read \in Nat
    BY <1>1, ChannelTypes
  <1>3. \/ UNCHANGED wire
        \/ \E n \in Nat : wire' = Written(e, Update(p, n))
    BY <1>2 DEF SendWindowUpdate
  <1>4. \A n \in Nat : Update(p, n) \in WireFrames /\ Update(p, n).type # "data"
    BY <1>1, FrameTypes DEF WireFrames
  <1> HIDE DEF e, p
  <1> QED
    BY <1>1, <1>3, <1>4

LEMMA SendKeeps ==
  ASSUME TypeOK, TypeOK', GoroutinesInStep, OnePlace, NEW s \in Senders, SendStep(s), ~SendEnqueues(s)
  PROVE  Kept
  <1>1. UNCHANGED <<wire, held, sent, got>>
    BY DEF SendStep, SendSeesWindow, SendTakesWindow, SendNotifies, SendFails, historyVars
  <1>2. (\A g \in Ends : WireKept(g)) /\ \A g \in Ends : HeldKept(g)
    BY <1>1, PlacesStay
  <1>3. QueuesKept /\ InboxesKept
    <2>1. PICK c : c = sender[s].ch
      OBVIOUS
    <2>2. /\ c \in 1..Created /\ Created' = Created
          /\ \A d \in 1..Created : /\ chan'[d].inbox = chan[d].inbox
                                   /\ d # c => chan'[d] = chan[d]
          /\ SendTakesWindow(s) => chan'[c].queue = chan[c].queue
          /\ ~SendTakesWindow(s) => chan' = chan
      BY <2>1, SendEffect, Zenon
    <2> QED
      BY <2>2, PlacesStay, ChannelsStay
  <1> QED
    BY <1>1, <1>2, <1>3, NothingMoves

(* No step puts a message into a second place.                             *)
LEMMA NextMoves ==
  ASSUME TypeOK, GoroutinesInStep, OnePlace, Next
  PROVE  Kept \/ \E m : Accepts(m) \/ Takes(m)
  <1>0. TypeOK' /\ Creators \subseteq Ends /\ Closers \subseteq Ends
    BY NextTypes, EndsAssumption
  <1>1. CASE \E e \in Ends \ Creators, p \in Ports : OpenChannel(e, p)
    <2>1. QueuesKept /\ InboxesKept
      BY <1>1, AddedIsEmpty DEF OpenChannel
    <2>2. UNCHANGED <<wire, held, sent, got>>
      BY <1>1 DEF OpenChannel, senderVars, historyVars
    <2> QED
      BY <1>0, <2>1, <2>2, PlacesStay, NothingMoves
  <1>2. CASE \E e \in Closers, p \in Ports : CloseChannel(e, p)
    <2>1. UNCHANGED <<chan, wire, held, sent, got>>
      BY <1>2 DEF CloseChannel, senderVars
    <2> QED
      BY <1>0, <2>1, PlacesStay, NothingMoves
  <1>3. CASE \E e \in Closers : Close(e)
    <2>1. PICK e \in Ends : Close(e)
      BY <1>0, <1>3
    <2>2. UNCHANGED <<chan, held, sent, got>>
      BY <2>1 DEF Close, senderVars
    <2>3. \A g \in Ends : WireKept(g)
      BY <2>1 DEF Close, TypeOK, WireKept
    <2> QED
      BY <1>0, <2>2, <2>3, PlacesStay, NothingMoves
  <1>4. CASE \E e \in Ends : Writer(e)
    BY <1>0, <1>4, WriterKeeps
  <1>5. CASE \E e \in Ends : ReadEnds(e)
    <2>1. QueuesKept /\ InboxesKept
      BY <1>5, ChannelsShut, ChannelsStay
    <2>2. UNCHANGED <<wire, held, sent, got>>
      BY <1>5 DEF ReadEnds, senderVars, historyVars
    <2> QED
      BY <1>0, <2>1, <2>2, PlacesStay, NothingMoves
  <1>6. CASE \E e \in Ends : WorkerTakes(e)
    BY <1>0, <1>6, TakeMoves
  <1>7. CASE \E e \in Ends : HandleWindowUpdate(e)
    <2>1. PICK e \in Ends : HandleWindowUpdate(e)
      BY <1>7
    <2>2. QueuesKept /\ InboxesKept
      BY <2>1, UpdateEffect, ChannelsStay
    <2>3. UNCHANGED <<held, sent, got>> /\ \A g \in Ends : WireKept(g)
      BY <2>1, TakenKeeps DEF HandleWindowUpdate, senderVars, historyVars
    <2> QED
      BY <1>0, <2>2, <2>3, PlacesStay, NothingMoves
  <1>8. CASE \E e \in Ends, n \in Frames : Dispatch(e, n)
    BY <1>0, <1>8, DispatchKeeps DEF Dispatch
  <1>9. CASE \E s \in Senders : Send(s)
    <2>1. UNCHANGED <<chan, wire, held, sent, got>>
      BY <1>9 DEF Send, historyVars
    <2> QED
      BY <1>0, <2>1, PlacesStay, NothingMoves
  <1>10. CASE \E s \in Senders : SendStep(s)
    <2>1. PICK s \in Senders : SendStep(s)
      BY <1>10
    <2> QED
      BY <1>0, <2>1, SendKeeps, EnqueueMoves
  <1>11. CASE \E c \in 1..Created : ReceiveStep(c)
    <2>1. PICK c \in 1..Created : ReceiveStep(c)
      BY <1>11
    <2>2. CASE ChannelRead(c)
      BY <1>0, <2>2, ReadMoves
    <2>3. CASE SendWindowUpdate(c)
      <3>1. QueuesKept /\ InboxesKept
        BY <2>3, UpdateCounts, ChannelsStay DEF CountersOnly
      <3>2. UNCHANGED <<held, sent, got>>
        BY <2>3 DEF SendWindowUpdate, senderVars, historyVars
      <3>3. \A g \in Ends : WireKept(g)
        BY <2>3, UpdateWrites, PlacesStay, WrittenKeeps
      <3> QED
        BY <1>0, <3>1, <3>2, <3>3, PlacesStay, NothingMoves
    <2> QED
      BY <2>1, <2>2, <2>3 DEF ReceiveStep
  <1> QED
    BY <1>1, <1>2, <1>3, <1>4, <1>5, <1>6, <1>7, <1>8, <1>9, <1>10, <1>11 DEF Next

-----------------------------------------------------------------------------
(* A worker has the channel of its end and of the port of its frame.       *)
LEMMA WorkerKept ==
  ASSUME TypeOK, WorkersInStep, Steady, NEW e \in Ends, NEW j \in held[e], j.ch # 0
  PROVE  chan'[j.ch].at = e /\ chan'[j.ch].port = j.frame.port
  <1>1. j.ch \in 0..Created /\ Created \in Nat
    BY HeldTypes, ChannelTypes
  <1>2. j.ch \in 1..Created
    BY <1>1
  <1> QED
    BY <1>2 DEF WorkersInStep, Steady

LEMMA LookupInStep ==
  ASSUME TypeOK, OpenIsListed, WorkersInStep, NEW g \in Ends, NEW i \in held[g], DispatchData(g, i),
         NEW e \in Ends, NEW j \in held'[e], j.ch # 0
  PROVE  chan'[j.ch].at = e /\ chan'[j.ch].port = j.frame.port
  <1>0. PICK p, c : p = i.frame.port /\ c = table[g][p]
    OBVIOUS
  <1>1. /\ p \in Ports /\ Steady
        /\ \/ /\ c # 0 /\ chan' = chan
              /\ held' = Replaced(g, i, [frame |-> i.frame, ch |-> c, fresh |-> i.fresh])
           \/ held' = Released(g, i)
           \/ /\ chan' = Append(chan, NewChannel(g, p))
              /\ held' = Replaced(g, i, [frame |-> i.frame, ch |-> Created + 1, fresh |-> TRUE])
    BY <1>0, DispatchEffect, Zenon
  <1>2. CASE j \in held[e]
    BY <1>1, <1>2, WorkerKept
  <1>3. CASE j \notin held[e]
    <2>1. \A k : held' = Replaced(g, i, k) => e = g /\ j = k
      <3> TAKE k
      <3> HAVE held' = Replaced(g, i, k)
      <3>1. held'[g] = (held[g] \ {i}) \cup {k} /\ \A f \in Ends : f # g => held'[f] = held[f]
        BY DEF Replaced, TypeOK
      <3> QED
        BY <1>3, <3>1
    <2>2. held' # Released(g, i)
      <3>1. held' = Released(g, i) => held'[e] \subseteq held[e]
        BY DEF Released, TypeOK
      <3> QED
        BY <1>3, <3>1
    <2>3. CASE /\ c # 0 /\ chan' = chan
               /\ held' = Replaced(g, i, [frame |-> i.frame, ch |-> c, fresh |-> i.fresh])
      <3>1. e = g /\ j = [frame |-> i.frame, ch |-> c, fresh |-> i.fresh]
        BY <2>1, <2>3
      <3>2. j.ch = c /\ j.frame.port = p
        BY <1>0, <3>1
      <3> QED
        BY <1>0, <1>1, <2>3, <3>1, <3>2 DEF OpenIsListed
    <2>4. CASE /\ chan' = Append(chan, NewChannel(g, p))
               /\ held' = Replaced(g, i, [frame |-> i.frame, ch |-> Created + 1, fresh |-> TRUE])
      <3>1. e = g /\ j = [frame |-> i.frame, ch |-> Created + 1, fresh |-> TRUE]
        BY <2>1, <2>4
      <3>2. j.ch = Created + 1 /\ j.frame.port = p
        BY <1>0, <3>1
      <3>3. chan'[Created + 1] = NewChannel(g, p)
        BY <1>1, <2>4, ChannelAdded
      <3> QED
        BY <3>1, <3>2, <3>3 DEF NewChannel
    <2> QED
      BY <1>1, <2>2, <2>3, <2>4
  <1> QED
    BY <1>2, <1>3

LEMMA NextWorkers ==
  ASSUME TypeOK, OpenIsListed, GoroutinesInStep, WorkersInStep, Next
  PROVE  WorkersInStep'
  <1>1. Steady
    BY NextTypes
  <1> SUFFICES ASSUME NEW e \in Ends, NEW j \in held'[e], j.ch # 0
               PROVE  chan'[j.ch].at = e /\ chan'[j.ch].port = j.frame.port
    BY DEF WorkersInStep
  <1>2. CASE j \in held[e]
    BY <1>1, <1>2, WorkerKept
  <1>3. ASSUME NEW g \in Ends, WorkerTakes(g)
        PROVE  j \in held[e]
    <2> DEFINE k == [frame |-> Head(wire[g]), ch |-> 0, fresh |-> FALSE]
    <2>1. held' = [held EXCEPT ![g] = held[g] \cup {k}]
      BY <1>3 DEF WorkerTakes
    <2>2. k.ch = 0
      OBVIOUS
    <2> HIDE DEF k
    <2> QED
      BY <2>1, <2>2 DEF TypeOK
  <1>4. ASSUME NEW g \in Ends, NEW i \in held[g], held' = Released(g, i)
        PROVE  j \in held[e]
    BY <1>4 DEF Released, TypeOK
  <1>5. CASE \E g \in Ends, n \in Frames : Dispatch(g, n)
    <2>1. PICK g \in Ends : \E n \in Frames : Dispatch(g, n)
      BY <1>5
    <2>2. PICK i \in held[g] : DispatchData(g, i) \/ DispatchDelivers(g, i) \/ DispatchClose(g, i)
      BY <2>1 DEF Dispatch
    <2>3. DispatchDelivers(g, i) \/ DispatchClose(g, i) => j \in held[e]
      BY <1>4 DEF DispatchDelivers, DispatchClose
    <2> QED
      BY <1>2, <2>2, <2>3, LookupInStep
  <1>6. CASE held' = held
    BY <1>2, <1>6
  <1> QED
    BY <1>2, <1>3, <1>5, <1>6 DEF Next, OpenChannel, CloseChannel, Close, Writer, WriterStops,
       WriterRound, WriterData, WriterWakes, WriterWaitCtrl, ReadEnds, HandleWindowUpdate, Send,
       SendStep, SendSeesWindow, SendTakesWindow, SendEnqueues, SendNotifies, SendFails,
       ReceiveStep, ChannelRead, SendWindowUpdate

-----------------------------------------------------------------------------
(* The inductive part of the invariant: the bound on the overdraft follows. *)
Core ==
  /\ TypeOK /\ OpenIsListed /\ NoLostWakeup /\ GoroutinesInStep /\ WorkersInStep
  /\ WindowInStep /\ CloseIsEnd /\ PortsInStep /\ OnePlace

LEMMA InitialCore ==
  ASSUME Init
  PROVE  Core
  <1>1. chan = <<>> /\ Created = 0 /\ 1..Created = {} /\ chan \in Seq(Channels)
    BY EmptySeq DEF Init, Created
  <1>2. TypeOK
    <2>1. FlagsOK /\ TokensOK
      BY DEF Init, FlagsOK, TokensOK
    <2>2. TableOK
      BY <1>1 DEF Init, TableOK
    <2>3. CtrlOK /\ WireOK /\ GotOK
      BY EmptySeq DEF Init, CtrlOK, WireOK, GotOK
    <2>4. HeldOK
      BY DEF Init, HeldOK
    <2>5. WriterOK
      <3>1. Started \in WriterTypes
        BY DEF Started, WriterTypes
      <3> QED
        BY <3>1 DEF Init, WriterOK
    <2>6. SenderOK
      <3>1. Idle \in SenderTypes
        BY <1>1, EndsAssumption DEF Idle, SenderTypes
      <3> QED
        BY <3>1 DEF Init, SenderOK
    <2>7. SentOK /\ closes \in 0..MaxCloses
      BY EndsAssumption DEF Init, SentOK
    <2>8. ended \in BOOLEAN
      BY Zenon DEF Init
    <2>9. Created <= MaxChannels
      BY <1>1, EndsAssumption
    <2> QED
      BY <1>1, <2>1, <2>2, <2>3, <2>4, <2>5, <2>6, <2>7, <2>8, <2>9, TypeParts DEF ClosesOK
  <1>3. /\ \A e \in Ends : wire[e] = <<>> /\ held[e] = {} /\ ctrl[e] = <<>> /\ writer[e].todo = {}
        /\ \A e \in Ends, p \in Ports : table[e][p] = 0
        /\ \A s \in Senders : sender[s].pc = "idle"
        /\ sent = {} /\ got = <<>>
    BY DEF Init, Started, Idle
  <1>4. \A e \in Ends : up[e]
    BY DEF Init
  <1>5. OpenIsListed /\ NoLostWakeup /\ WindowInStep
    BY <1>1, <1>3, Zenon DEF OpenIsListed, NoLostWakeup, WindowInStep
  <1>6. GoroutinesInStep /\ WorkersInStep
    BY <1>1, <1>3 DEF GoroutinesInStep, WorkersInStep
  <1>7. DOMAIN <<>> = {}
    BY EmptySeq, LenProperties
  <1>8. CloseIsEnd /\ PortsInStep
    <2>1. \A e \in Ends : DOMAIN wire[e] = {}
      BY <1>3, <1>7
    <2>2. \A p \in Ports : Silent(p)
      BY <1>1, <1>3, <2>1 DEF Silent
    <2> QED
      BY <1>1, <1>3, <1>4, <2>1, <2>2 DEF CloseIsEnd, PortsInStep
  <1>9. OnePlace
    <2>1. \A k \in Places, x \in Slots : MessagesAt(k, x) = {}
      <3>1. \A e \in Ends : HeldMessages(e) = {}
        BY <1>3 DEF HeldMessages
      <3> QED
        BY <1>1, <1>3, <3>1, PlacesNow, NothingInEmpty DEF Places
    <2>2. Apart /\ Accounted
      BY <2>1 DEF Apart, Accounted
    <2>3. QueuesOnce /\ InboxesOnce /\ GotOnce /\ WiresOnce /\ HeldOnce
      BY <1>1, <1>3, NothingInEmpty DEF QueuesOnce, InboxesOnce, GotOnce, WiresOnce, HeldOnce
    <2> QED
      BY <2>2, <2>3, OnePlaceParts
  <1> QED
    BY <1>2, <1>5, <1>6, <1>8, <1>9 DEF Core

LEMMA StutterCore ==
  ASSUME Core, UNCHANGED vars
  PROVE  Core'
  <1>1. UNCHANGED <<up, reading, table, chan, ctrl, notify, writer, wire, held,
                    sender, sent, got, offered, closes, ended>>
    BY DEF vars
  <1>2. TypeOK'
    <2>1. Steady /\ Created' = Created
      BY <1>1, SameChannels DEF Core
    <2> QED
      BY <1>1, <2>1, TypeKept, TypePartsNext DEF Core
  <1>3. OpenIsListed' /\ NoLostWakeup'
    <2>1. OpenIsListed'
      BY <1>1, SameListed DEF Core, Created
    <2>2. NoLostWakeup'
      BY <1>1, Zenon DEF Core, NoLostWakeup, Created
    <2> QED
      BY <2>1, <2>2
  <1>4. GoroutinesInStep' /\ WorkersInStep'
    BY <1>1, Zenon DEF Core, GoroutinesInStep, WorkersInStep
  <1>5. WindowInStep'
    BY <1>1, Zenon DEF Core, WindowInStep, Takers, Created
  <1>6. CloseIsEnd' /\ PortsInStep'
    <2>1. CloseIsEnd'
      BY <1>1 DEF Core, CloseIsEnd, Created
    <2>2. \A p : Silent(p) => Silent(p)'
      BY <1>1, Zenon DEF Silent, Created
    <2>3. PortsInStep'
      BY <1>1, <2>2 DEF Core, PortsInStep
    <2> QED
      BY <2>1, <2>3
  <1>7. OnePlace'
    BY <1>1, <1>2, PlacesStay, NothingMoves DEF Core, Kept
  <1> QED
    BY <1>2, <1>3, <1>4, <1>5, <1>6, <1>7 DEF Core

LEMMA NextCore ==
  ASSUME Core, Next
  PROVE  Core'
  <1>1. /\ TypeOK /\ OpenIsListed /\ NoLostWakeup /\ GoroutinesInStep /\ WorkersInStep
        /\ WindowInStep /\ CloseIsEnd /\ PortsInStep /\ OnePlace
    BY DEF Core
  <1>2. /\ TypeOK' /\ OpenIsListed' /\ GoroutinesInStep' /\ WorkersInStep'
        /\ NoLostWakeup' /\ WindowInStep'
    BY <1>1, NextTypes, NextListed, NextGoroutines, NextWorkers, NextWakeup, NextWindow
  <1>3. CloseIsEnd' /\ PortsInStep'
    BY <1>1, NextClosed, NextPorts
  <1>4. OnePlace'
    BY <1>1, NextMoves DEF Kept, Accepts, Takes
  <1> QED
    BY <1>2, <1>3, <1>4 DEF Core

LEMMA CoreInvariant == Spec => []Core
  <1>1. Init => Core
    BY InitialCore
  <1>2. Core /\ [Next]_vars => Core'
    BY NextCore, StutterCore
  <1> QED
    BY <1>1, <1>2, PTL DEF Spec

(* The invariant of the multiplexer (mux.go: writeLoop, readLoop, the       *)
(* workers, Send and Read), for any number of ports, senders, workers and  *)
(* messages and any capacities: an open channel is the one the table lists, *)
(* a queued frame never waits for a wake-up that nobody gives, concurrent   *)
(* senders overdraw a window by at most one message for each but the last, *)
(* and an accepted message is in one place, once.                          *)
THEOREM MultiplexerIsSound == Spec => []MuxInv
  <1>1. Core => MuxInv
    BY OverdraftFollows DEF Core, MuxInv
  <1> QED
    BY <1>1, CoreInvariant, PTL

-----------------------------------------------------------------------------
(* Before the first close no message is lost: the queues, the inboxes, the *)
(* wires and the workers keep what they have, but for the messages of S.   *)
AllStay(S) ==
  /\ \A c \in 1..Created :
       /\ Elements(chan[c].queue) \subseteq Elements(chan'[c].queue) \cup S
       /\ Elements(chan[c].inbox) \subseteq Elements(chan'[c].inbox) \cup S
  /\ \A e \in Ends :
       /\ MessagesIn(wire[e]) \subseteq MessagesIn(wire'[e]) \cup S
       /\ HeldMessages(e) \subseteq HeldMessages(e)' \cup S

LEMMA StayUnderWay ==
  ASSUME TypeOK, TypeOK', Steady, NEW S, AllStay(S), S \subseteq UnderWay'
  PROVE  UnderWay \subseteq UnderWay'
  <1>1. 1..Created \subseteq 1..Created'
    BY ChannelTypes DEF Steady
  <1>2. \A x \in Slots : MessagesAt("queue", x) \subseteq MessagesAt("queue", x)' \cup S
    BY <1>1, PlacesNow, PlacesNext DEF AllStay
  <1>3. \A x \in Slots : MessagesAt("inbox", x) \subseteq MessagesAt("inbox", x)' \cup S
    BY <1>1, PlacesNow, PlacesNext DEF AllStay
  <1>4. \A x \in Slots : MessagesAt("wire", x) \subseteq MessagesAt("wire", x)' \cup S
    BY PlacesNow, PlacesNext DEF AllStay
  <1>5. \A x \in Slots : MessagesAt("held", x) \subseteq MessagesAt("held", x)' \cup S
    BY PlacesNow, PlacesNext DEF AllStay
  <1>6. \A k \in Places \ {"got"}, x \in Slots : MessagesAt(k, x) \subseteq MessagesAt(k, x)' \cup S
    BY <1>2, <1>3, <1>4, <1>5 DEF Places
  <1>7. \A m : m \in UnderWay => m \in UnderWay'
    BY <1>6, UnderWayNow, UnderWayNext
  <1> QED
    BY <1>7

LEMMA WrittenStays ==
  ASSUME TypeOK, NEW e \in Ends, NEW f \in WireFrames, wire' = Written(e, f)
  PROVE  /\ \A g \in Ends : MessagesIn(wire[g]) \subseteq MessagesIn(wire'[g])
         /\ up[Peer(e)] /\ f.type = "data" => f.n \in MessagesIn(wire'[Peer(e)])
  <1>1. \A g \in Ends : wire[g] \in Seq(WireFrames)
    BY TypeParts DEF WireOK
  <1>2. Peer(e) \in Ends
    BY PeerFacts
  <1>3. /\ wire'[Peer(e)] = IF up[Peer(e)] THEN Append(wire[Peer(e)], f) ELSE wire[Peer(e)]
        /\ \A g \in Ends : g # Peer(e) => wire'[g] = wire[g]
    BY WrittenType
  <1>4. MessagesIn(Append(wire[Peer(e)], f))
          = MessagesIn(wire[Peer(e)]) \cup (IF f.type = "data" THEN {f.n} ELSE {})
    BY <1>1, <1>2, MessagesMove
  <1> QED
    BY <1>2, <1>3, <1>4

LEMMA DataStays ==
  ASSUME TypeOK, TypeOK', Steady, \A g \in Ends : up[g],
         NEW e \in Ends, NEW c \in 1..Created, WriterData(e, c)
  PROVE  UnderWay \subseteq UnderWay'
  <1>1. /\ Created' = Created
        /\ chan'[c].queue = IF chan[c].queue = <<>> THEN <<>> ELSE Tail(chan[c].queue)
        /\ chan'[c].inbox = chan[c].inbox
        /\ \A d \in 1..Created : d # c => chan'[d] = chan[d]
    BY DataEffect
  <1>2. \A g \in Ends : HeldMessages(g) \subseteq HeldMessages(g)'
    BY DEF WriterData, HeldMessages
  <1>3. CASE chan[c].queue = <<>>
    <2>1. wire' = wire
      BY <1>3 DEF WriterData
    <2>2. AllStay({})
      BY <1>1, <1>2, <1>3, <2>1 DEF AllStay
    <2> QED
      BY <2>2, StayUnderWay
  <1>4. CASE chan[c].queue # <<>>
    <2>1. PICK m, f : m = Head(chan[c].queue) /\ f = Data(chan[c].port, m)
      OBVIOUS
    <2>2. wire' = Written(e, f) /\ m \in Messages /\ chan[c].queue \in Seq(Messages)
      BY <1>4, <2>1, ChannelTypes, SeqTypes DEF WriterData
    <2>3. f \in DataFrames /\ f \in WireFrames
      BY <2>1, <2>2, ChannelTypes, FrameTypes DEF WireFrames
    <2>4. f.type = "data" /\ f.n = m
      BY <2>1 DEF Data
    <2>5. Peer(e) \in Ends /\ up[Peer(e)]
      BY PeerFacts
    <2>6. /\ \A g \in Ends : MessagesIn(wire[g]) \subseteq MessagesIn(wire'[g])
          /\ m \in MessagesIn(wire'[Peer(e)])
      BY <2>2, <2>3, <2>4, <2>5, WrittenStays
    <2>7. Elements(chan[c].queue) = Elements(chan'[c].queue) \cup {m}
      BY <1>1, <1>4, <2>1, <2>2, SeqElements
    <2>8. AllStay({m})
      BY <1>1, <1>2, <2>6, <2>7 DEF AllStay
    <2>9. m \in UnderWay'
      <3>1. m \in MessagesAt("wire", Peer(e))' /\ "wire" \in Places \ {"got"}
        BY <2>5, <2>6, PlacesNext DEF Places
      <3>2. Peer(e) \in Slots
        BY <2>5, SlotFacts
      <3> QED
        BY <3>1, <3>2, UnderWayNext
    <2> QED
      BY <2>8, <2>9, StayUnderWay
  <1> QED
    BY <1>3, <1>4

LEMMA TakeStays ==
  ASSUME TypeOK, TypeOK', Steady, NEW e \in Ends, WorkerTakes(e) \/ HandleWindowUpdate(e)
  PROVE  UnderWay \subseteq UnderWay'
  <1> DEFINE f == Head(wire[e])
  <1>1. wire[e] # <<>> /\ wire' = [wire EXCEPT ![e] = Tail(@)]
    BY DEF WorkerTakes, HandleWindowUpdate
  <1>2. /\ wire[e] \in Seq(WireFrames) /\ wire'[e] = Tail(wire[e])
        /\ \A g \in Ends : g # e => wire'[g] = wire[g]
    BY <1>1, FrameTaken, TypeParts DEF WireOK
  <1>3. MessagesIn(wire[e]) = MessagesIn(wire'[e]) \cup (IF f.type = "data" THEN {f.n} ELSE {})
    BY <1>1, <1>2, MessagesMove
  <1>4. CASE HandleWindowUpdate(e)
    <2>1. f.type # "data" /\ held' = held
      BY <1>4 DEF HandleWindowUpdate
    <2>2. \A c \in 1..Created : chan'[c].queue = chan[c].queue /\ chan'[c].inbox = chan[c].inbox
      BY <1>4, UpdateEffect
    <2>3. \A g \in Ends : HeldMessages(g) \subseteq HeldMessages(g)'
      BY <2>1 DEF HeldMessages
    <2>4. AllStay({})
      BY <1>2, <1>3, <2>1, <2>2, <2>3 DEF AllStay
    <2> QED
      BY <2>4, StayUnderWay
  <1>5. CASE WorkerTakes(e)
    <2> DEFINE k == [frame |-> f, ch |-> 0, fresh |-> FALSE]
    <2>1. held'[e] = held[e] \cup {k} /\ \A g \in Ends : g # e => held'[g] = held[g]
      BY <1>5 DEF WorkerTakes, TypeOK
    <2>2. k.frame = f /\ chan' = chan
      BY <1>5 DEF WorkerTakes
    <2> HIDE DEF k, f
    <2>3. /\ \A g \in Ends : HeldMessages(g) \subseteq HeldMessages(g)'
          /\ f.type = "data" => f.n \in HeldMessages(e)'
      BY <2>1, <2>2 DEF HeldMessages
    <2> DEFINE S == IF f.type = "data" THEN {f.n} ELSE {}
    <2>4. AllStay(S)
      BY <1>2, <1>3, <2>2, <2>3 DEF AllStay
    <2>5. S \subseteq UnderWay'
      <3>1. e \in Slots /\ "held" \in Places \ {"got"}
        BY SlotFacts DEF Places
      <3>2. f.type = "data" => f.n \in MessagesAt("held", e)'
        BY <2>3, PlacesNext
      <3> QED
        BY <3>1, <3>2, UnderWayNext
    <2> QED
      BY <2>4, <2>5, StayUnderWay
  <1> QED
    BY <1>4, <1>5

LEMMA DispatchStays ==
  ASSUME TypeOK, TypeOK', Steady, CloseIsEnd, PortsInStep, ~ended, NEW e \in Ends, NEW j \in held[e],
         DispatchData(e, j) \/ DispatchDelivers(e, j) \/ DispatchClose(e, j)
  PROVE  UnderWay \subseteq UnderWay'
  <1>1. /\ \A g \in Ends : up[g] /\ \A k \in held[g] : k.frame.type # "close"
        /\ \A c \in 1..Created : ~chan[c].shut
    BY DEF CloseIsEnd
  <1>2. wire' = wire
    BY DEF DispatchData, DispatchDelivers, DispatchClose
  <1>3. ASSUME NEW k, k.frame = j.frame, held' = Replaced(e, j, k)
        PROVE  \A g \in Ends : HeldMessages(g) \subseteq HeldMessages(g)'
    <2>1. /\ held'[e] = (held[e] \ {j}) \cup {k}
          /\ \A g \in Ends : g # e => held'[g] = held[g]
      BY <1>3 DEF Replaced, TypeOK
    <2>2. \A g \in Ends : \A i \in held[g] : \E l \in held'[g] : l.frame = i.frame
      BY <1>3, <2>1
    <2> QED
      BY <2>2 DEF HeldMessages
  <1>4. CASE DispatchData(e, j)
    <2>1. PICK p : p = j.frame.port
      OBVIOUS
    <2>2. p \in Ports /\ ~(table[e][p] = 0 /\ e \notin Creators)
      <3>1. p \in Ports
        BY <1>4, <2>1, DispatchEffect, Zenon
      <3>2. ASSUME table[e][p] = 0, e \notin Creators PROVE FALSE
        <4>1. Silent(p)
          BY <3>1, <3>2 DEF PortsInStep
        <4> QED
          BY <2>1, <4>1 DEF Silent
      <3> QED
        BY <3>1, <3>2
    <2>3. \/ /\ chan' = chan
             /\ held' = Replaced(e, j, [frame |-> j.frame, ch |-> table[e][p], fresh |-> j.fresh])
          \/ /\ chan' = Append(chan, NewChannel(e, p))
             /\ held' = Replaced(e, j, [frame |-> j.frame, ch |-> Created + 1, fresh |-> TRUE])
      BY <1>4, <2>1, <2>2, DispatchEffect, Zenon
    <2>4. \A c, b : [frame |-> j.frame, ch |-> c, fresh |-> b].frame = j.frame
      OBVIOUS
    <2>5. \A g \in Ends : HeldMessages(g) \subseteq HeldMessages(g)'
      BY <1>3, <2>3, <2>4, Zenon
    <2>6. \A c \in 1..Created : chan'[c] = chan[c]
      BY <2>2, <2>3, ChannelAdded
    <2>7. AllStay({})
      BY <1>2, <2>5, <2>6 DEF AllStay
    <2> QED
      BY <2>7, StayUnderWay
  <1>5. CASE DispatchDelivers(e, j)
    <2>1. PICK c, m : c = j.ch /\ m = j.frame.n
      OBVIOUS
    <2>2. /\ j.frame \in DataFrames /\ c \in 1..Created /\ Created' = Created
          /\ held' = Released(e, j)
          /\ \A d \in 1..Created :
               /\ d # c => chan'[d] = chan[d]
               /\ chan'[d].queue = chan[d].queue
          /\ chan'[c].inbox = Append(chan[c].inbox, m) \/ GivesUp(e, j)
      BY <1>5, <2>1, DeliverEffect
    <2>3. chan'[c].inbox = Append(chan[c].inbox, m)
      BY <1>1, <2>1, <2>2 DEF GivesUp
    <2>4. chan[c].inbox \in Seq(Messages) /\ m \in Messages
      BY <2>1, <2>2, ChannelTypes, FrameTypes
    <2>5. Elements(chan'[c].inbox) = Elements(chan[c].inbox) \cup {m}
      BY <2>3, <2>4, SeqElements
    <2>6. \A g \in Ends : HeldMessages(g) \subseteq HeldMessages(g)' \cup {m}
      <3>1. held'[e] = held[e] \ {j} /\ \A g \in Ends : g # e => held'[g] = held[g]
        BY <2>2 DEF Released, TypeOK
      <3> QED
        BY <2>1, <3>1 DEF HeldMessages
    <2>7. AllStay({m})
      BY <1>2, <2>2, <2>5, <2>6 DEF AllStay
    <2>8. m \in UnderWay'
      <3>1. m \in MessagesAt("inbox", c)' /\ "inbox" \in Places \ {"got"}
        BY <2>2, <2>5, PlacesNext DEF Places
      <3>2. c \in Slots
        BY <2>2, SlotFacts
      <3> QED
        BY <3>1, <3>2, UnderWayNext
    <2> QED
      BY <2>7, <2>8, StayUnderWay
  <1>6. ~DispatchClose(e, j)
    BY <1>1 DEF DispatchClose
  <1> QED
    BY <1>4, <1>5, <1>6

(* A step that neither accepts nor takes a message keeps every message     *)
(* under way as long as nothing is closed.                                 *)
LEMMA NextStays ==
  ASSUME Core, Next, ~ended', sent' = sent, got' = got
  PROVE  UnderWay \subseteq UnderWay'
  <1>1. TypeOK /\ GoroutinesInStep /\ CloseIsEnd /\ PortsInStep /\ OnePlace
    BY DEF Core
  <1>2. TypeOK' /\ Steady
    BY <1>1, NextTypes
  <1>3. ~ended
    BY <1>1, QuietSteps
  <1>4. /\ \A e \in Ends : up[e] /\ ctrl[e] = <<>>
        /\ \A c \in 1..Created : ~chan[c].shut
    BY <1>1, <1>3 DEF CloseIsEnd
  <1>5. held' = held => \A g \in Ends : HeldMessages(g) \subseteq HeldMessages(g)'
    BY DEF HeldMessages
  <1>6. ASSUME held' = held, wire' = wire,
               \A c \in 1..Created : chan'[c].queue = chan[c].queue /\ chan'[c].inbox = chan[c].inbox
        PROVE  UnderWay \subseteq UnderWay'
    <2>1. AllStay({})
      BY <1>5, <1>6 DEF AllStay
    <2> QED
      BY <1>1, <1>2, <2>1, StayUnderWay
  <1>7. CASE UNCHANGED <<chan, wire, held>>
    BY <1>6, <1>7
  <1>8. CASE \E e \in Ends \ Creators, p \in Ports : OpenChannel(e, p)
    BY <1>1, <1>6, <1>8, ChannelAdded DEF OpenChannel
  <1>9. ~(\E e \in Closers, p \in Ports : CloseChannel(e, p)) /\ ~(\E e \in Closers : Close(e))
    BY DEF CloseChannel, Close
  <1>10. CASE \E e \in Ends : Writer(e)
    <2>1. PICK e \in Ends : Writer(e)
      BY <1>10
    <2>2. CASE WriterRound(e) \/ WriterWakes(e)
      BY <1>4, <1>7, <2>2 DEF WriterRound, WriterWakes
    <2>3. ~WriterStops(e) /\ ~WriterWaitCtrl(e)
      BY <1>4 DEF WriterStops, WriterWaitCtrl
    <2> QED
      BY <1>1, <1>2, <1>4, <2>1, <2>2, <2>3, DataStays DEF Writer
  <1>11. ~(\E e \in Ends : ReadEnds(e))
    BY <1>4, PeerFacts DEF ReadEnds
  <1>12. CASE \E e \in Ends : WorkerTakes(e) \/ HandleWindowUpdate(e)
    BY <1>1, <1>2, <1>12, TakeStays
  <1>13. CASE \E e \in Ends, n \in Frames : Dispatch(e, n)
    BY <1>1, <1>2, <1>3, <1>13, DispatchStays DEF Dispatch
  <1>14. CASE \E s \in Senders : Send(s)
    BY <1>7, <1>14 DEF Send
  <1>15. CASE \E s \in Senders : SendStep(s)
    <2>1. PICK s \in Senders : SendStep(s)
      BY <1>15
    <2>2. PICK c : c = sender[s].ch
      OBVIOUS
    <2>3. ~SendEnqueues(s)
      <3>1. ASSUME SendEnqueues(s) PROVE FALSE
        <4>1. Accepts(sender[s].msg)
          BY <1>1, <1>2, <3>1, EnqueueMoves
        <4> QED
          BY <4>1 DEF Accepts
      <3> QED
        BY <3>1
    <2>4. /\ c \in 1..Created
          /\ \A d \in 1..Created : /\ chan'[d].inbox = chan[d].inbox
                                   /\ d # c => chan'[d] = chan[d]
          /\ SendTakesWindow(s) => chan'[c].queue = chan[c].queue
          /\ ~SendTakesWindow(s) => chan' = chan
      BY <1>1, <2>1, <2>2, <2>3, SendEffect, Zenon
    <2>5. UNCHANGED <<wire, held>>
      BY <2>1 DEF SendStep, SendSeesWindow, SendTakesWindow, SendEnqueues, SendNotifies, SendFails
    <2> QED
      BY <1>6, <2>4, <2>5
  <1>16. CASE \E c \in 1..Created : ReceiveStep(c)
    <2>1. PICK c \in 1..Created : ReceiveStep(c)
      BY <1>16
    <2>2. ~ChannelRead(c)
      <3>1. ASSUME ChannelRead(c) PROVE FALSE
        <4>1. Takes(Head(chan[c].inbox))
          BY <1>1, <1>2, <3>1, ReadMoves
        <4> QED
          BY <4>1 DEF Takes
      <3> QED
        BY <3>1
    <2>3. SendWindowUpdate(c) /\ held' = held
      BY <2>1, <2>2 DEF ReceiveStep, SendWindowUpdate
    <2>4. \A d \in 1..Created : chan'[d].queue = chan[d].queue /\ chan'[d].inbox = chan[d].inbox
      BY <1>1, <2>3, UpdateCounts DEF CountersOnly
    <2>5. \A g \in Ends : MessagesIn(wire[g]) \subseteq MessagesIn(wire'[g])
      BY <1>1, <2>3, UpdateWrites, WrittenStays
    <2>6. AllStay({})
      BY <1>5, <2>3, <2>4, <2>5 DEF AllStay
    <2> QED
      BY <1>1, <1>2, <2>6, StayUnderWay
  <1> QED
    BY <1>8, <1>9, <1>10, <1>11, <1>12, <1>13, <1>14, <1>15, <1>16 DEF Next

-----------------------------------------------------------------------------
(* Every step is one of the abstract channel, or is not seen there.        *)
Lost == sent \ (Elements(got) \cup UnderWay)

LEMMA PromiseNext ==
  Promise!Next <=>
    \/ \E m \in Messages :
         /\ m \notin sent /\ sent' = sent \cup {m}
         /\ Lost' \in {Lost} \cup (IF ended THEN {Lost \cup {m}} ELSE {})
         /\ Elements(got)' = Elements(got) /\ ended' = ended
    \/ \E m \in Messages :
         /\ m \in sent \ (Elements(got) \cup Lost)
         /\ Elements(got)' = Elements(got) \cup {m}
         /\ sent' = sent /\ Lost' = Lost /\ ended' = ended
    \/ /\ ended' = TRUE
       /\ \E S \in SUBSET (sent \ (Elements(got) \cup Lost)) : Lost' = Lost \cup S
       /\ sent' = sent /\ Elements(got)' = Elements(got)
  BY Zenon DEF Promise!Next, Promise!Accept, Promise!Deliver, Promise!End, Lost

LEMMA PromiseSteps ==
  ASSUME Core, Core', Next
  PROVE  Promise!Next \/ UNCHANGED Promise!vars
  <1>1. OnePlace /\ TypeOK /\ GoroutinesInStep /\ TypeOK'
    BY DEF Core
  <1>2. PICK U, V : U = UnderWay /\ V = UnderWay'
    OBVIOUS
  <1>3. PICK G, H : G = Elements(got) /\ H = Elements(got)'
    OBVIOUS
  <1>4. Lost = sent \ (G \cup U) /\ Lost' = sent' \ (H \cup V)
    BY <1>2, <1>3 DEF Lost
  <1>5. CASE Kept
    <2>1. sent' = sent /\ got' = got /\ V \subseteq U
      BY <1>2, <1>5 DEF Kept
    <2>2. H = G
      BY <1>3, <2>1, Zenon DEF Elements
    <2>3. CASE ended'
      <3>1. ended' = TRUE
        BY <1>1, <2>3 DEF TypeOK
      <3>2. Lost' = Lost \cup (Lost' \ Lost) /\ Lost' \ Lost \in SUBSET (sent \ (G \cup Lost))
        BY <1>4, <2>1, <2>2
      <3> QED
        BY <1>3, <2>1, <2>2, <3>1, <3>2, PromiseNext
    <2>4. CASE ~ended'
      <3>1. U \subseteq V
        BY <1>2, <2>1, <2>4, NextStays
      <3>2. Lost' = Lost
        BY <1>4, <2>1, <2>2, <3>1
      <3>3. ~ended
        BY <1>1, <2>4, QuietSteps DEF Core
      <3>4. ended' = ended
        BY <1>1, <2>4, <3>3 DEF TypeOK
      <3> QED
        BY <1>3, <2>1, <2>2, <3>2, <3>4 DEF Promise!vars, Lost
    <2> QED
      BY <2>3, <2>4
  <1>6. ASSUME NEW m, Accepts(m) PROVE Promise!Next
    <2>1. /\ m \in Messages /\ m \notin sent /\ sent' = sent \cup {m}
          /\ got' = got /\ ended' = ended /\ V = U \cup {m}
      BY <1>2, <1>6 DEF Accepts
    <2>2. H = G
      BY <1>3, <2>1, Zenon DEF Elements
    <2>3. Lost' = Lost
      BY <1>4, <2>1, <2>2
    <2> QED
      BY <1>3, <2>1, <2>2, <2>3, PromiseNext
  <1>7. ASSUME NEW m, Takes(m) PROVE Promise!Next
    <2>1. /\ m \in Messages /\ m \in sent /\ m \notin G /\ sent' = sent
          /\ H = G \cup {m} /\ ended' = ended /\ U = V \cup {m}
      BY <1>2, <1>3, <1>7 DEF Takes, Elements
    <2>2. Lost' = Lost /\ m \notin Lost
      BY <1>4, <2>1
    <2> QED
      BY <1>3, <2>1, <2>2, PromiseNext
  <1> QED
    BY <1>1, <1>5, <1>6, <1>7, NextMoves

(* A pair of multiplexers implements the abstract channel Stream: a        *)
(* message is received at most once and only after Send accepted it, and   *)
(* until a channel or the connection is closed nothing that was accepted   *)
(* is lost (mux.go: Send, writeLoop, dispatchData, closeChannelLocal, Close, *)
(* Channel.Read).                                                          *)
THEOREM MultiplexerKeepsPromise == Spec => PromiseKept
  <1>1. Init => Promise!Init
    <2> SUFFICES ASSUME Init PROVE Promise!Init
      OBVIOUS
    <2>1. sent = {} /\ got = <<>> /\ ended = FALSE
      BY DEF Init
    <2>2. Elements(got) = {}
      BY <2>1, NothingInEmpty
    <2> QED
      BY <2>1, <2>2 DEF Promise!Init
  <1>2. Core /\ Core' /\ [Next]_vars => [Promise!Next]_(Promise!vars)
    <2> SUFFICES ASSUME Core, Core', [Next]_vars PROVE [Promise!Next]_(Promise!vars)
      OBVIOUS
    <2>1. CASE Next
      BY <2>1, PromiseSteps
    <2>2. CASE UNCHANGED vars
      BY <2>2, ZenonT(60) DEF vars, Promise!vars, UnderWay, Created, HeldMessages
    <2> QED
      BY <2>1, <2>2
  <1> QED
    BY <1>1, <1>2, CoreInvariant, PTL DEF Spec, PromiseKept, Promise!Spec

-----------------------------------------------------------------------------
(* The sum of the values of a function: it is a natural number, an         *)
(* argument contributes its value, and the names of the arguments do not   *)
(* matter.                                                                 *)
Summable(f) == IsFiniteSet(DOMAIN f) /\ \A x \in DOMAIN f : f[x] \in Nat

LEMMA UnitsFinite ==
  ASSUME NEW f, Summable(f)
  PROVE  IsFiniteSet(Units(f)) /\ Total(f) \in Nat
  <1> DEFINE U(x) == {x} \X (1..f[x])
  <1> DEFINE T == {U(x) : x \in DOMAIN f}
  <1> DEFINE h == [x \in DOMAIN f |-> U(x)]
  <1>1. h \in Surjection(DOMAIN f, T)
    BY DEF Surjection
  <1>2. IsFiniteSet(T)
    BY <1>1, FS_Surjection DEF Summable
  <1>3. \A x \in DOMAIN f : IsFiniteSet(U(x))
    <2> TAKE x \in DOMAIN f
    <2>1. f[x] \in Int
      BY DEF Summable
    <2>2. IsFiniteSet({x})
      BY FS_Singleton
    <2>3. IsFiniteSet(1..f[x])
      BY <2>1, FS_Interval
    <2> QED
      BY <2>2, <2>3, FS_Product
  <1>4. IsFiniteSet(UNION T)
    BY <1>2, <1>3, FS_UNION
  <1> QED
    BY <1>4, FS_CardinalityType DEF Units, Total

LEMMA UnitsMembers ==
  ASSUME NEW f
  PROVE  \A u : u \in Units(f) <=> \E x \in DOMAIN f : \E k \in 1..f[x] : u = <<x, k>>
  BY DEF Units

LEMMA TotalSplits ==
  ASSUME NEW f, Summable(f), NEW x \in DOMAIN f, NEW g,
         DOMAIN g = DOMAIN f \ {x}, \A y \in DOMAIN g : g[y] = f[y]
  PROVE  Summable(g) /\ Total(f) = Total(g) + f[x]
  <1>1. Summable(g)
    BY FS_RemoveElement DEF Summable
  <1>2. IsFiniteSet(Units(f)) /\ IsFiniteSet(Units(g)) /\ Total(g) \in Nat
    BY <1>1, UnitsFinite
  <1> DEFINE V == {x} \X (1..f[x])
  <1>3. IsFiniteSet(V) /\ Cardinality(V) = f[x]
    <2>1. f[x] \in Nat
      BY DEF Summable
    <2>2. IsFiniteSet(1..f[x]) /\ Cardinality(1..f[x]) = f[x]
      BY <2>1, FS_Interval
    <2>3. IsFiniteSet({x}) /\ Cardinality({x}) = 1
      BY FS_Singleton
    <2>4. IsFiniteSet(V) /\ Cardinality(V) = Cardinality({x}) * Cardinality(1..f[x])
      BY <2>2, <2>3, FS_Product, Zenon
    <2> QED
      BY <2>1, <2>2, <2>3, <2>4
  <1>4. \A u : u \in V <=> \E k \in 1..f[x] : u = <<x, k>>
    OBVIOUS
  <1> HIDE DEF V
  <1>5. Units(f) = Units(g) \cup V
    <2>1. \A u : u \in Units(f) <=> u \in Units(g) \cup V
      BY <1>4, UnitsMembers
    <2> QED
      BY <2>1
  <1>6. Units(g) \cap V = {}
    BY <1>4, UnitsMembers
  <1>7. Cardinality(Units(f)) = Cardinality(Units(g)) + Cardinality(V) - 0
    BY <1>2, <1>3, <1>5, <1>6, FS_Union, FS_EmptySet
  <1> QED
    BY <1>1, <1>2, <1>3, <1>7 DEF Total, Summable

LEMMA TotalRenamed ==
  ASSUME NEW f, Summable(f), NEW g, Summable(g),
         NEW b \in Bijection(DOMAIN f, DOMAIN g), \A x \in DOMAIN f : g[b[x]] = f[x]
  PROVE  Total(f) = Total(g)
  <1> DEFINE h == [u \in Units(f) |-> <<b[u[1]], u[2]>>]
  <1>1. /\ \A x \in DOMAIN f : b[x] \in DOMAIN g
        /\ \A x, y \in DOMAIN f : b[x] = b[y] => x = y
        /\ \A z \in DOMAIN g : \E x \in DOMAIN f : b[x] = z
    BY DEF Bijection, Injection, Surjection, IsInjective
  <1>2. \A u \in Units(f) : u[1] \in DOMAIN f /\ u[2] \in 1..f[u[1]] /\ u = <<u[1], u[2]>>
    BY UnitsMembers
  <1>3. h \in [Units(f) -> Units(g)]
    <2>1. \A u \in Units(f) : <<b[u[1]], u[2]>> \in Units(g)
      BY <1>1, <1>2, UnitsMembers
    <2> QED
      BY <2>1
  <1>4. \A u, v \in Units(f) : h[u] = h[v] => u = v
    <2> TAKE u, v \in Units(f)
    <2> HAVE h[u] = h[v]
    <2>1. b[u[1]] = b[v[1]] /\ u[2] = v[2]
      OBVIOUS
    <2> QED
      BY <1>1, <1>2, <2>1
  <1>5. \A w \in Units(g) : \E u \in Units(f) : h[u] = w
    <2> TAKE w \in Units(g)
    <2>0. PICK z \in DOMAIN g : \E k \in 1..g[z] : w = <<z, k>>
      BY UnitsMembers
    <2>1. PICK k \in 1..g[z] : w = <<z, k>>
      BY <2>0
    <2>2. PICK x \in DOMAIN f : b[x] = z
      BY <1>1
    <2>3. <<x, k>> \in Units(f)
      BY <2>1, <2>2, UnitsMembers
    <2> QED
      BY <2>1, <2>2, <2>3
  <1>6. h \in Bijection(Units(f), Units(g))
    <2> HIDE DEF h
    <2> QED
      BY <1>3, <1>4, <1>5 DEF Bijection, Injection, Surjection, IsInjective
  <1> QED
    BY <1>6, UnitsFinite, FS_Bijection DEF ExistsBijection, Total

(* The bytes of a set of messages.                                         *)
LEMMA SizesSum ==
  ASSUME NEW S \in SUBSET Messages
  PROVE  /\ Total([n \in S |-> Size[n]]) \in Nat
         /\ \A m \in Messages \ S :
              Total([n \in S \cup {m} |-> Size[n]]) = Total([n \in S |-> Size[n]]) + Size[m]
  <1>1. MaxMessages \in Nat /\ Size \in [1..MaxMessages -> 1..Window] /\ Window \in Nat
    BY EndsAssumption, WindowAssumption
  <1>2. IsFiniteSet(Messages)
    BY <1>1, FS_Interval DEF Messages
  <1>3. \A n \in Messages : Size[n] \in Nat
    BY <1>1 DEF Messages
  <1>4. \A T \in SUBSET Messages : Summable([n \in T |-> Size[n]])
    BY <1>2, <1>3, FS_Subset DEF Summable
  <1>5. Total([n \in S |-> Size[n]]) \in Nat
    BY <1>4, UnitsFinite
  <1>6. ASSUME NEW m \in Messages \ S
        PROVE  Total([n \in S \cup {m} |-> Size[n]]) = Total([n \in S |-> Size[n]]) + Size[m]
    <2> DEFINE f == [n \in S \cup {m} |-> Size[n]]
    <2> DEFINE g == [n \in S |-> Size[n]]
    <2>1. Summable(f)
      BY <1>4
    <2>2. /\ m \in DOMAIN f /\ f[m] = Size[m]
          /\ DOMAIN g = DOMAIN f \ {m} /\ \A n \in DOMAIN g : g[n] = f[n]
      OBVIOUS
    <2> HIDE DEF f, g
    <2>3. Total(f) = Total(g) + f[m]
      BY <2>1, <2>2, TotalSplits
    <2> QED
      BY <2>2, <2>3 DEF f, g
  <1> QED
    BY <1>5, <1>6

(* The window that the frames of a sequence give back on a port.           *)
IsFor(f, p) == f.type = "window" /\ f.port = p
For(q, p) == {i \in DOMAIN q : q[i].type = "window" /\ q[i].port = p}
Credit(q, p) == Total([i \in For(q, p) |-> q[i].n])

LEMMA CreditType ==
  ASSUME NEW q \in Seq(WireFrames), NEW p
  PROVE  Summable([i \in For(q, p) |-> q[i].n]) /\ Credit(q, p) \in Nat
  <1>1. DOMAIN q = 1..Len(q) /\ Len(q) \in Nat /\ \A i \in DOMAIN q : q[i] \in WireFrames
    BY SeqPlaces
  <1>2. IsFiniteSet(DOMAIN q) /\ For(q, p) \subseteq DOMAIN q
    BY <1>1, FS_Interval DEF For
  <1>3. IsFiniteSet(For(q, p))
    BY <1>2, FS_Subset
  <1>4. \A i \in For(q, p) : q[i].n \in Nat
    BY <1>1, FrameTypes DEF For
  <1>5. Summable([i \in For(q, p) |-> q[i].n])
    BY <1>3, <1>4 DEF Summable
  <1> QED
    BY <1>5, UnitsFinite DEF Credit

LEMMA CreditAppended ==
  ASSUME NEW q \in Seq(WireFrames), NEW f \in WireFrames, NEW p
  PROVE  Credit(Append(q, f), p) = Credit(q, p) + (IF IsFor(f, p) THEN f.n ELSE 0)
  <1> DEFINE r == Append(q, f)
  <1> DEFINE k == Len(q) + 1
  <1> DEFINE F == [i \in For(r, p) |-> r[i].n]
  <1> DEFINE G == [i \in For(q, p) |-> q[i].n]
  <1>1. /\ DOMAIN q = 1..Len(q) /\ Len(q) \in Nat
        /\ DOMAIN r = 1..(Len(q) + 1) /\ r[k] = f
        /\ \A i \in 1..Len(q) : r[i] = q[i]
    BY SeqPlaces
  <1>2. r \in Seq(WireFrames)
    BY SeqTypes
  <1>3. Summable(F) /\ Credit(q, p) \in Nat
    BY <1>2, CreditType
  <1>4. \A i \in 1..(Len(q) + 1) : i \in 1..Len(q) \/ i = k
    BY <1>1
  <1>5. 1..Len(q) \subseteq 1..(Len(q) + 1) /\ k \in 1..(Len(q) + 1) /\ k \notin 1..Len(q)
    BY <1>1
  <1> HIDE DEF r, k
  <1>6. CASE IsFor(f, p)
    <2>1. k \in For(r, p) /\ For(q, p) = For(r, p) \ {k}
      BY <1>1, <1>4, <1>5, <1>6 DEF For, IsFor
    <2>2. k \in DOMAIN F /\ DOMAIN G = DOMAIN F \ {k} /\ F[k] = f.n
      BY <1>1, <2>1
    <2>3. \A i \in DOMAIN G : G[i] = F[i]
      BY <1>1, <2>1 DEF For
    <2> HIDE DEF F, G
    <2>4. Total(F) = Total(G) + F[k]
      BY <1>3, <2>2, <2>3, TotalSplits
    <2> QED
      BY <1>6, <2>2, <2>4 DEF Credit, F, G, r
  <1>7. CASE ~IsFor(f, p)
    <2>1. For(q, p) = For(r, p)
      BY <1>1, <1>4, <1>5, <1>7 DEF For, IsFor
    <2>2. \A i \in For(q, p) : q[i].n = r[i].n
      BY <1>1 DEF For
    <2>3. Credit(r, p) = Credit(q, p)
      BY <2>1, <2>2 DEF Credit
    <2> QED
      BY <1>3, <1>7, <2>3 DEF r
  <1> QED
    BY <1>6, <1>7

LEMMA CreditTaken ==
  ASSUME NEW q \in Seq(WireFrames), NEW p, q # <<>>
  PROVE  Credit(q, p) = Credit(Tail(q), p) + (IF IsFor(Head(q), p) THEN Head(q).n ELSE 0)
  <1> DEFINE r == Tail(q)
  <1> DEFINE F == [i \in For(q, p) |-> q[i].n]
  <1> DEFINE H == [i \in For(q, p) \ {1} |-> q[i].n]
  <1> DEFINE G == [i \in For(r, p) |-> r[i].n]
  <1>1. /\ DOMAIN q = 1..Len(q) /\ Len(q) \in Nat /\ Len(q) >= 1 /\ Head(q) = q[1]
        /\ DOMAIN r = 1..(Len(q) - 1)
        /\ \A i \in 1..(Len(q) - 1) : r[i] = q[i + 1]
    BY SeqPlaces
  <1>2. r \in Seq(WireFrames)
    BY SeqTypes
  <1>3. Summable(F) /\ Summable(G) /\ Credit(q, p) \in Nat /\ Credit(r, p) \in Nat
    BY <1>2, CreditType
  <1> HIDE DEF r
  <1>4. Summable(H)
    BY <1>3, FS_RemoveElement DEF Summable
  <1>5. Total(F) = Total(H) + (IF IsFor(Head(q), p) THEN Head(q).n ELSE 0)
    <2>1. 1 \in For(q, p) <=> IsFor(Head(q), p)
      BY <1>1 DEF For, IsFor
    <2>2. CASE IsFor(Head(q), p)
      <3>1. /\ 1 \in DOMAIN F /\ F[1] = Head(q).n
            /\ DOMAIN H = DOMAIN F \ {1} /\ \A i \in DOMAIN H : H[i] = F[i]
        BY <1>1, <2>1, <2>2
      <3> HIDE DEF F, H
      <3>2. Total(F) = Total(H) + F[1]
        BY <1>3, <3>1, TotalSplits
      <3> QED
        BY <2>2, <3>1, <3>2
    <2>3. CASE ~IsFor(Head(q), p)
      <3>1. F = H
        BY <2>1, <2>3
      <3>2. Total(H) \in Nat
        BY <1>4, UnitsFinite
      <3> QED
        BY <2>3, <3>1, <3>2
    <2> QED
      BY <2>2, <2>3
  <1>6. Total(G) = Total(H)
    <2> DEFINE b == [i \in For(r, p) |-> i + 1]
    <2>1. For(r, p) \subseteq Int
      BY <1>1 DEF For
    <2>2. \A i \in For(r, p) : i + 1 \in For(q, p) \ {1} /\ r[i] = q[i + 1]
      BY <1>1 DEF For
    <2>3. \A j \in For(q, p) \ {1} : j - 1 \in For(r, p) /\ (j - 1) + 1 = j
      BY <1>1 DEF For
    <2>4. b \in Bijection(DOMAIN G, DOMAIN H)
      <3>1. b \in [For(r, p) -> For(q, p) \ {1}]
        BY <2>2
      <3>2. \A i, j \in For(r, p) : b[i] = b[j] => i = j
        BY <2>1
      <3>3. \A j \in For(q, p) \ {1} : \E i \in For(r, p) : b[i] = j
        BY <2>3
      <3> HIDE DEF b
      <3> QED
        BY <3>1, <3>2, <3>3 DEF Bijection, Injection, Surjection, IsInjective
    <2>5. \A i \in DOMAIN G : H[b[i]] = G[i]
      BY <2>2
    <2> HIDE DEF G, H, b
    <2> QED
      BY <1>3, <1>4, <2>4, <2>5, TotalRenamed
  <1> QED
    BY <1>3, <1>5, <1>6 DEF Credit, r

-----------------------------------------------------------------------------
(* Where a message that is charged to a window is: with its sender, in the *)
(* queue of its channel, on the wire or with a worker, or in an inbox.     *)
Sending(e, p, m) ==
  \E s \in Senders :
    sender[s].pc = "enqueue" /\ sender[s].msg = m /\ BelongsTo(sender[s].ch, e, p)
Queued(e, p, m) == \E c \in 1..Created : BelongsTo(c, e, p) /\ m \in Elements(chan[c].queue)
Arrived(e, p, m) == \E c \in 1..Created : BelongsTo(c, e, p) /\ m \in Elements(chan[c].inbox)
Travels(e, f) == f \in Elements(wire[e]) \/ \E j \in held[e] : j.frame = f

LEMMA InFlightNow ==
  ASSUME NEW e, NEW p, NEW m
  PROVE  m \in InFlight(e, p) <=>
           /\ m \in Messages
           /\ \/ Sending(e, p, m) \/ Queued(e, p, m)
              \/ Arrived(Peer(e), p, m) \/ Travels(Peer(e), Data(p, m))
  BY Zenon DEF InFlight, Sending, Queued, Arrived, Travels

LEMMA InFlightNext ==
  ASSUME NEW e, NEW p, NEW m
  PROVE  m \in InFlight(e, p)' <=>
           /\ m \in Messages
           /\ \/ Sending(e, p, m)' \/ Queued(e, p, m)'
              \/ Arrived(Peer(e), p, m)' \/ Travels(Peer(e), Data(p, m))'
  BY Zenon DEF InFlight, Sending, Queued, Arrived, Travels

SendingStays == \A e, p, m : Sending(e, p, m)' <=> Sending(e, p, m)
QueuedStays == \A e, p, m : Queued(e, p, m)' <=> Queued(e, p, m)
ArrivedStays == \A e, p, m : Arrived(e, p, m)' <=> Arrived(e, p, m)
TravelsStays == \A e \in Ends : \A p, m : Travels(e, Data(p, m))' <=> Travels(e, Data(p, m))

LEMMA FlightStays ==
  ASSUME NEW e \in Ends, NEW p, SendingStays, QueuedStays, ArrivedStays, TravelsStays
  PROVE  InFlight(e, p)' = InFlight(e, p)
  <1>1. Peer(e) \in Ends
    BY PeerFacts
  <1>2. \A m : m \in InFlight(e, p)' <=> m \in InFlight(e, p)
    BY <1>1, InFlightNow, InFlightNext DEF SendingStays, QueuedStays, ArrivedStays, TravelsStays
  <1> QED
    BY <1>2

LEMMA BelongsStays ==
  ASSUME TypeOK, Steady
  PROVE  \A c \in 1..Created : \A e, p : BelongsTo(c, e, p)' <=> BelongsTo(c, e, p)
  BY DEF Steady, BelongsTo

LEMMA SendersHold ==
  ASSUME TypeOK, GoroutinesInStep
  PROVE  \A s \in Senders : sender[s].pc # "idle" => sender[s].ch \in 1..Created
  <1> TAKE s \in Senders
  <1> HAVE sender[s].pc # "idle"
  <1>1. sender[s].ch \in 0..Created /\ Created \in Nat
    BY ChannelTypes DEF TypeOK
  <1>2. sender[s].ch # 0
    BY DEF GoroutinesInStep
  <1> QED
    BY <1>1, <1>2

LEMMA SendingKept ==
  ASSUME TypeOK, GoroutinesInStep, Steady,
         \A s \in Senders :
           /\ sender'[s].pc = "enqueue" <=> sender[s].pc = "enqueue"
           /\ sender[s].pc = "enqueue" =>
                sender'[s].msg = sender[s].msg /\ sender'[s].ch = sender[s].ch
  PROVE  SendingStays
  <1>1. \A s \in Senders : sender[s].pc = "enqueue" => sender[s].ch \in 1..Created
    BY SendersHold
  <1>2. \A s \in Senders : sender[s].pc = "enqueue" =>
          \A e, p : BelongsTo(sender[s].ch, e, p)' <=> BelongsTo(sender[s].ch, e, p)
    BY <1>1 DEF BelongsTo, Steady
  <1> QED
    BY <1>2, Zenon DEF SendingStays, Sending

LEMMA QueuedKept ==
  ASSUME TypeOK, Steady,
         \A c \in 1..Created : chan'[c].queue = chan[c].queue,
         \A c \in 1..Created' : c \in 1..Created \/ chan'[c].queue = <<>>
  PROVE  QueuedStays
  <1>1. Elements(<<>>) = {} /\ 1..Created \subseteq 1..Created'
    BY NothingInEmpty, TypesGrow
  <1>2. \A c \in 1..Created : \A e, p : BelongsTo(c, e, p)' <=> BelongsTo(c, e, p)
    BY BelongsStays
  <1> QED
    BY <1>1, <1>2, Zenon DEF QueuedStays, Queued, Elements

LEMMA ArrivedKept ==
  ASSUME TypeOK, Steady,
         \A c \in 1..Created : chan'[c].inbox = chan[c].inbox,
         \A c \in 1..Created' : c \in 1..Created \/ chan'[c].inbox = <<>>
  PROVE  ArrivedStays
  <1>1. Elements(<<>>) = {} /\ 1..Created \subseteq 1..Created'
    BY NothingInEmpty, TypesGrow
  <1>2. \A c \in 1..Created : \A e, p : BelongsTo(c, e, p)' <=> BelongsTo(c, e, p)
    BY BelongsStays
  <1> QED
    BY <1>1, <1>2, Zenon DEF ArrivedStays, Arrived, Elements

LEMMA TravelsKept ==
  ASSUME wire' = wire, held' = held
  PROVE  TravelsStays
  BY DEF TravelsStays, Travels, Elements

(* The four amounts that add up to the window.                             *)
Balanced(e, p) == Left(e, p) + Unread(e, p) + GivenBack(e, p) + Owed(e, p) = Window

LEMMA BackIsCredit ==
  ASSUME NEW e, NEW p
  PROVE  GivenBack(e, p) = Credit(wire[e], p) /\ GivenBack(e, p)' = Credit(wire'[e], p)
  BY DEF GivenBack, UpdatesFor, Credit, For

LEMMA UnreadIsSum ==
  ASSUME NEW e, NEW p
  PROVE  /\ Unread(e, p) = Total([m \in InFlight(e, p) |-> Size[m]])
         /\ Unread(e, p)' = Total([m \in InFlight(e, p)' |-> Size[m]])
         /\ InFlight(e, p) \subseteq Messages /\ InFlight(e, p)' \subseteq Messages
  <1>1. InFlight(e, p) \subseteq Messages /\ InFlight(e, p)' \subseteq Messages
    BY DEF InFlight
  <1> QED
    BY <1>1 DEF Unread

LEMMA AmountTypes ==
  ASSUME TypeOK, NEW e \in Ends, NEW p \in Ports
  PROVE  /\ Left(e, p) \in Int /\ Unread(e, p) \in Nat
         /\ GivenBack(e, p) \in Nat /\ Owed(e, p) \in Nat
  <1>1. Peer(e) \in Ends /\ wire[e] \in Seq(WireFrames) /\ Window \in Nat
    BY PeerFacts, TypeParts, WindowAssumption DEF WireOK
  <1>2. Created \in Nat /\ table[e][p] \in 0..Created /\ table[Peer(e)][p] \in 0..Created
    BY <1>1, ChannelTypes, SMTT(30) DEF TypeOK
  <1>3. Left(e, p) \in Int
    BY <1>1, <1>2, ChannelTypes DEF Left
  <1>4. Unread(e, p) \in Nat
    <2>1. InFlight(e, p) \in SUBSET Messages
      BY UnreadIsSum
    <2>2. Total([m \in InFlight(e, p) |-> Size[m]]) \in Nat
      BY <2>1, SizesSum
    <2> QED
      BY <2>2, UnreadIsSum
  <1>5. GivenBack(e, p) \in Nat
    BY <1>1, CreditType, BackIsCredit
  <1>6. Owed(e, p) \in Nat
    BY <1>2, ChannelTypes DEF Owed
  <1> QED
    BY <1>3, <1>4, <1>5, <1>6

AmountsOK ==
  \A e \in Ends, p \in Ports :
    /\ Left(e, p) \in Int /\ Unread(e, p) \in Nat
    /\ GivenBack(e, p) \in Nat /\ Owed(e, p) \in Nat

LEMMA AmountsNow == TypeOK => AmountsOK
  BY AmountTypes DEF AmountsOK

LEMMA AmountsNext == TypeOK' => AmountsOK'
  BY AmountsNow, PTL

LEMMA AmountTypesNext ==
  ASSUME TypeOK', NEW e \in Ends, NEW p \in Ports
  PROVE  /\ Left(e, p)' \in Int /\ Unread(e, p)' \in Nat
         /\ GivenBack(e, p)' \in Nat /\ Owed(e, p)' \in Nat
  BY AmountsNext DEF AmountsOK

(* Steps that do not touch an amount.                                      *)
LeftStays == \A e \in Ends, p \in Ports : Left(e, p)' = Left(e, p)
OwedStays == \A e \in Ends, p \in Ports : Owed(e, p)' = Owed(e, p)
BackStays == \A e \in Ends, p \in Ports : GivenBack(e, p)' = GivenBack(e, p)
UnreadStays == \A e \in Ends, p \in Ports : Unread(e, p)' = Unread(e, p)
BalanceStays == \A e \in Ends, p \in Ports : Balanced(e, p) => Balanced(e, p)'

LEMMA AllStayed ==
  ASSUME LeftStays, OwedStays, BackStays, UnreadStays
  PROVE  BalanceStays
  BY DEF LeftStays, OwedStays, BackStays, UnreadStays, BalanceStays, Balanced

LEMMA FlightKept ==
  ASSUME \A e \in Ends, p \in Ports : \A m : m \in InFlight(e, p)' <=> m \in InFlight(e, p)
  PROVE  UnreadStays
  <1>1. ASSUME NEW e \in Ends, NEW p \in Ports
        PROVE  Unread(e, p)' = Unread(e, p)
    <2>1. InFlight(e, p)' = InFlight(e, p)
      OBVIOUS
    <2> QED
      BY <2>1, UnreadIsSum
  <1> QED
    BY <1>1 DEF UnreadStays

LEMMA UnreadKept ==
  ASSUME SendingStays, QueuedStays, ArrivedStays, TravelsStays
  PROVE  UnreadStays
  BY FlightStays, FlightKept

LEMMA BackKept ==
  ASSUME wire' = wire
  PROVE  BackStays
  BY BackIsCredit DEF BackStays

LEMMA LeftKept ==
  ASSUME TypeOK, table' = table, \A c \in 1..Created : chan'[c].window = chan[c].window
  PROVE  LeftStays
  <1>1. \A e \in Ends, p \in Ports : table[e][p] = 0 \/ table[e][p] \in 1..Created
    <2>1. Created \in Nat /\ \A e \in Ends, p \in Ports : table[e][p] \in 0..Created
      BY ChannelTypes DEF TypeOK
    <2> QED
      BY <2>1
  <1> QED
    BY <1>1 DEF LeftStays, Left

LEMMA OwedKept ==
  ASSUME TypeOK, table' = table,
         \A c \in 1..Created : chan'[c].read = chan[c].read /\ chan'[c].pending = chan[c].pending
  PROVE  OwedStays
  <1>1. \A e \in Ends, p \in Ports : table[e][p] = 0 \/ table[e][p] \in 1..Created
    <2>1. Created \in Nat /\ \A e \in Ends, p \in Ports : table[e][p] \in 0..Created
      BY ChannelTypes DEF TypeOK
    <2> QED
      BY <2>1
  <1>2. \A e \in Ends : Peer(e) \in Ends
    BY PeerFacts
  <1> QED
    BY <1>1, <1>2 DEF OwedStays, Owed

(* A channel that is added has its whole window and owes nothing.          *)
LEMMA AddsKeep ==
  ASSUME TypeOK, NEW g \in Ends, NEW q \in Ports, Adds(g, q)
  PROVE  Steady /\ LeftStays /\ OwedStays /\ QueuedStays /\ ArrivedStays
  <1>1. /\ Steady /\ chan'[Created + 1] = NewChannel(g, q)
        /\ \A c \in 1..Created : chan'[c] = chan[c]
        /\ \A c \in 1..Created' : c \in 1..Created \/ c = Created + 1
    BY ChannelAdded DEF Adds
  <1>2. /\ NewChannel(g, q).window = Window /\ NewChannel(g, q).read = 0
        /\ NewChannel(g, q).pending = 0
        /\ NewChannel(g, q).queue = <<>> /\ NewChannel(g, q).inbox = <<>>
    BY DEF NewChannel
  <1>3. QueuedStays /\ ArrivedStays
    BY <1>1, <1>2, QueuedKept, ArrivedKept
  <1>4. /\ table[g][q] = 0
        /\ \A e \in Ends, p \in Ports :
             table'[e][p] = IF e = g /\ p = q THEN Created + 1 ELSE table[e][p]
    BY DEF Adds, TypeOK
  <1>5. Created + 1 # 0 /\ \A e \in Ends, p \in Ports : table[e][p] = 0 \/ table[e][p] \in 1..Created
    <2>1. Created \in Nat /\ \A e \in Ends, p \in Ports : table[e][p] \in 0..Created
      BY ChannelTypes DEF TypeOK
    <2> QED
      BY <2>1
  <1>6. LeftStays
    <2>1. \A e \in Ends, p \in Ports : e = g /\ p = q => Left(e, p)' = Left(e, p)
      BY <1>1, <1>2, <1>4, <1>5 DEF Left
    <2>2. \A e \in Ends, p \in Ports : ~(e = g /\ p = q) => Left(e, p)' = Left(e, p)
      BY <1>1, <1>4, <1>5 DEF Left
    <2> QED
      BY <2>1, <2>2 DEF LeftStays
  <1>7. OwedStays
    <2>0. \A e \in Ends : Peer(e) \in Ends
      BY PeerFacts
    <2>1. \A e \in Ends, p \in Ports : Peer(e) = g /\ p = q => Owed(e, p)' = Owed(e, p)
      BY <1>1, <1>2, <1>4, <1>5, <2>0 DEF Owed
    <2>2. \A e \in Ends, p \in Ports : ~(Peer(e) = g /\ p = q) => Owed(e, p)' = Owed(e, p)
      BY <1>1, <1>4, <1>5, <2>0 DEF Owed
    <2> QED
      BY <2>1, <2>2 DEF OwedStays
  <1> QED
    BY <1>1, <1>3, <1>6, <1>7

(* A step of Send that moves no amount; a worker takes or looks up a frame. *)
LEMMA QuietBalance ==
  ASSUME TypeOK, GoroutinesInStep, UNCHANGED <<table, chan, wire, held>>,
         \A s \in Senders :
           /\ sender'[s].pc = "enqueue" <=> sender[s].pc = "enqueue"
           /\ sender[s].pc = "enqueue" =>
                sender'[s].msg = sender[s].msg /\ sender'[s].ch = sender[s].ch
  PROVE  BalanceStays
  <1>1. Steady /\ Created' = Created
    BY SameChannels
  <1>2. SendingStays /\ QueuedStays /\ ArrivedStays /\ TravelsStays
    BY <1>1, SendingKept, QueuedKept, ArrivedKept, TravelsKept
  <1> QED
    BY <1>2, UnreadKept, BackKept, LeftKept, OwedKept, AllStayed

LEMMA DataIs ==
  /\ \A p, m, q, n : Data(p, m) = Data(q, n) <=> p = q /\ m = n
  /\ \A p, m : Data(p, m).type = "data" /\ Data(p, m).port = p /\ Data(p, m).n = m
  /\ \A f \in DataFrames : f = Data(f.port, f.n)
  BY DEF Data, DataFrames

-----------------------------------------------------------------------------
(* OpenChannel and the lookup of a channel for a data frame.               *)
LEMMA OpenBalance ==
  ASSUME TypeOK, GoroutinesInStep, NEW g \in Ends \ Creators, NEW q \in Ports, OpenChannel(g, q)
  PROVE  BalanceStays
  <1>1. Adds(g, q) /\ UNCHANGED <<sender, wire, held>>
    BY DEF Adds, OpenChannel, senderVars
  <1>2. Steady /\ LeftStays /\ OwedStays /\ QueuedStays /\ ArrivedStays
    BY <1>1, AddsKeep
  <1>3. SendingStays /\ TravelsStays
    BY <1>1, <1>2, SendingKept, TravelsKept
  <1> QED
    BY <1>1, <1>2, <1>3, UnreadKept, BackKept, AllStayed

LEMMA ReplacedTravels ==
  ASSUME TypeOK, NEW g \in Ends, NEW j \in held[g], NEW k, k.frame = j.frame,
         wire' = wire, held' = Replaced(g, j, k)
  PROVE  TravelsStays
  <1>1. held'[g] = (held[g] \ {j}) \cup {k} /\ \A e \in Ends : e # g => held'[e] = held[e]
    BY DEF Replaced, TypeOK
  <1>2. \A e \in Ends : \A f : (\E i \in held'[e] : i.frame = f) <=> \E i \in held[e] : i.frame = f
    BY <1>1
  <1> QED
    BY <1>2 DEF TravelsStays, Travels, Elements

LEMMA DispatchBalance ==
  ASSUME TypeOK, GoroutinesInStep, PortsInStep, ~ended,
         NEW g \in Ends, NEW j \in held[g], DispatchData(g, j)
  PROVE  BalanceStays
  <1> DEFINE q == j.frame.port
  <1> DEFINE c == table[g][q]
  <1>1. UNCHANGED <<sender, wire>>
    BY DEF DispatchData, senderVars
  <1>2. /\ q \in Ports /\ Steady
        /\ \/ /\ UNCHANGED <<table, chan>> /\ Created' = Created
              /\ held' = Replaced(g, j, [frame |-> j.frame, ch |-> c, fresh |-> j.fresh])
           \/ c = 0 /\ g \notin Creators
           \/ /\ c = 0 /\ chan' = Append(chan, NewChannel(g, q))
              /\ table' = [table EXCEPT ![g][q] = Created + 1]
              /\ held' = Replaced(g, j, [frame |-> j.frame, ch |-> Created + 1, fresh |-> TRUE])
    BY DispatchEffect, Zenon
  <1>3. ~(c = 0 /\ g \notin Creators)
    BY <1>2 DEF PortsInStep, Silent
  <1>4. \A x, y : [frame |-> j.frame, ch |-> x, fresh |-> y].frame = j.frame
    OBVIOUS
  <1>5. SendingStays /\ BackStays
    BY <1>1, <1>2, SendingKept, BackKept
  <1>6. CASE /\ UNCHANGED <<table, chan>> /\ Created' = Created
             /\ held' = Replaced(g, j, [frame |-> j.frame, ch |-> c, fresh |-> j.fresh])
    <2>1. TravelsStays
      BY <1>1, <1>4, <1>6, ReplacedTravels
    <2>2. LeftStays /\ OwedStays /\ QueuedStays /\ ArrivedStays
      BY <1>2, <1>6, LeftKept, OwedKept, QueuedKept, ArrivedKept
    <2> QED
      BY <1>5, <2>1, <2>2, UnreadKept, AllStayed
  <1>7. CASE /\ c = 0 /\ chan' = Append(chan, NewChannel(g, q))
             /\ table' = [table EXCEPT ![g][q] = Created + 1]
             /\ held' = Replaced(g, j, [frame |-> j.frame, ch |-> Created + 1, fresh |-> TRUE])
    <2>1. TravelsStays
      BY <1>1, <1>4, <1>7, ReplacedTravels
    <2>2. Adds(g, q)
      BY <1>7 DEF Adds
    <2>3. LeftStays /\ OwedStays /\ QueuedStays /\ ArrivedStays
      BY <1>2, <2>2, AddsKeep
    <2> QED
      BY <1>5, <2>1, <2>3, UnreadKept, AllStayed
  <1> QED
    BY <1>2, <1>3, <1>6, <1>7

(* A worker puts its message into the inbox.                               *)
LEMMA DeliverCounts ==
  ASSUME TypeOK, NEW g \in Ends, NEW j \in held[g], DispatchDelivers(g, j)
  PROVE  \A c \in 1..Created : chan'[c].read = chan[c].read /\ chan'[c].pending = chan[c].pending
  <1> DEFINE c == j.ch
  <1>1. c \in 1..Created /\ j.frame.n \in Messages
    BY DeliverEffect, FrameTypes
  <1>2. CASE chan' = chan
    BY <1>2
  <1>3. CASE chan' = [chan EXCEPT ![c].inbox = Append(@, j.frame.n)]
    <2> DEFINE i == Append(chan[c].inbox, j.frame.n)
    <2>1. chan' = [chan EXCEPT ![c].inbox = i]
      BY <1>3
    <2>2. i \in Seq(Messages)
      BY <1>1, ChannelTypes, SeqTypes
    <2> HIDE DEF i, c
    <2>3. Becomes(c, Rec(c, chan[c].queue, chan[c].window, i, chan[c].shut, chan[c].pending, chan[c].read))
      BY <1>1, <2>1, <2>2, InboxSet
    <2>4. /\ chan'[c].pending = chan[c].pending /\ chan'[c].read = chan[c].read
          /\ \A d \in 1..Created : d # c => chan'[d] = chan[d]
      BY <2>3, BecomesSteady
    <2> QED
      BY <2>4
  <1> QED
    BY <1>2, <1>3 DEF DispatchDelivers

LEMMA DeliverBalance ==
  ASSUME TypeOK, GoroutinesInStep, WorkersInStep, CloseIsEnd, ~ended,
         NEW g \in Ends, NEW j \in held[g], DispatchDelivers(g, j)
  PROVE  BalanceStays
  <1> DEFINE c == j.ch
  <1> DEFINE q == j.frame.port
  <1> DEFINE n == j.frame.n
  <1>1. UNCHANGED <<table, sender, wire>>
    BY DEF DispatchDelivers, senderVars
  <1>2. /\ j.frame \in DataFrames /\ c \in 1..Created /\ Steady /\ Created' = Created
        /\ held' = Released(g, j)
        /\ \A d \in 1..Created :
             /\ d # c => chan'[d] = chan[d]
             /\ chan'[d].queue = chan[d].queue /\ chan'[d].window = chan[d].window
    BY DeliverEffect
  <1>3. chan'[c].inbox = Append(chan[c].inbox, n)
    <2>1. c \in 1..Created /\ up[g] /\ ~chan[c].shut
      BY <1>2 DEF CloseIsEnd
    <2>2. ~GivesUp(g, j)
      BY <2>1 DEF GivesUp
    <2> QED
      BY <2>2, DeliverEffect
  <1>4. BelongsTo(c, g, q) /\ n \in Messages /\ j.frame = Data(q, n)
    <2>1. c # 0
      BY <1>2
    <2> QED
      BY <1>2, <2>1, FrameTypes, DataIs DEF WorkersInStep, BelongsTo
  <1>5. SendingStays /\ QueuedStays /\ BackStays /\ LeftStays /\ OwedStays
    BY <1>1, <1>2, DeliverCounts, SendingKept, QueuedKept, BackKept, LeftKept, OwedKept
  <1>6. Elements(chan'[c].inbox) = Elements(chan[c].inbox) \cup {n}
    BY <1>2, <1>3, <1>4, ChannelTypes, SeqElements
  <1>7. \A d \in 1..Created : \A e, p : BelongsTo(d, e, p)' <=> BelongsTo(d, e, p)
    BY <1>2, BelongsStays
  <1> HIDE DEF c, q, n
  <1>8. \A e, p, m : Arrived(e, p, m)' <=> Arrived(e, p, m) \/ (e = g /\ p = q /\ m = n)
    <2>1. \A e, p : BelongsTo(c, e, p) <=> e = g /\ p = q
      BY <1>4 DEF BelongsTo
    <2>2. \A m : m \in Elements(chan'[c].inbox) <=> m \in Elements(chan[c].inbox) \/ m = n
      BY <1>6
    <2>3. \A d \in 1..Created : d # c => Elements(chan'[d].inbox) = Elements(chan[d].inbox)
      BY <1>2
    <2> TAKE e, p, m
    <2>4. Arrived(e, p, m)' <=>
            \E d \in 1..Created : BelongsTo(d, e, p) /\ m \in Elements(chan'[d].inbox)
      BY <1>2, <1>7, Zenon DEF Arrived, Elements
    <2>5. ASSUME Arrived(e, p, m)'
          PROVE  Arrived(e, p, m) \/ (e = g /\ p = q /\ m = n)
      <3>1. PICK d \in 1..Created : BelongsTo(d, e, p) /\ m \in Elements(chan'[d].inbox)
        BY <2>4, <2>5
      <3> QED
        BY <2>1, <2>2, <2>3, <3>1 DEF Arrived
    <2>6. ASSUME Arrived(e, p, m)
          PROVE  Arrived(e, p, m)'
      <3>1. PICK d \in 1..Created : BelongsTo(d, e, p) /\ m \in Elements(chan[d].inbox)
        BY <2>6 DEF Arrived
      <3>2. m \in Elements(chan'[d].inbox)
        BY <2>2, <2>3, <3>1
      <3> QED
        BY <2>4, <3>1, <3>2
    <2>7. e = g /\ p = q /\ m = n => Arrived(e, p, m)'
      BY <1>2, <2>1, <2>2, <2>4
    <2> QED
      BY <2>5, <2>6, <2>7
  <1>9. /\ Travels(g, Data(q, n))
        /\ \A e \in Ends : \A f : Travels(e, f)' => Travels(e, f)
        /\ \A e \in Ends : \A f : Travels(e, f) => Travels(e, f)' \/ (e = g /\ f = Data(q, n))
    <2>1. held'[g] = held[g] \ {j} /\ \A e \in Ends : e # g => held'[e] = held[e]
      BY <1>2 DEF Released, TypeOK
    <2>2. \A e \in Ends : \A f : f \in Elements(wire[e])' <=> f \in Elements(wire[e])
      BY <1>1 DEF Elements
    <2> QED
      BY <1>4, <2>1, <2>2 DEF Travels
  <1>10. \A e \in Ends, p \in Ports : \A m : m \in InFlight(e, p)' <=> m \in InFlight(e, p)
    <2> TAKE e \in Ends, p \in Ports
    <2> TAKE m
    <2>1. Peer(e) \in Ends
      BY PeerFacts
    <2>2. Sending(e, p, m)' <=> Sending(e, p, m)
      BY <1>5 DEF SendingStays
    <2>3. Queued(e, p, m)' <=> Queued(e, p, m)
      BY <1>5 DEF QueuedStays
    <2>4. Data(p, m) = Data(q, n) <=> p = q /\ m = n
      BY DataIs
    <2>5. Arrived(Peer(e), p, m)' \/ Travels(Peer(e), Data(p, m))'
            <=> Arrived(Peer(e), p, m) \/ Travels(Peer(e), Data(p, m))
      BY <1>8, <1>9, <2>1, <2>4
    <2> QED
      BY <2>2, <2>3, <2>5, InFlightNow, InFlightNext
  <1>11. UnreadStays
    BY <1>10, FlightKept
  <1> QED
    BY <1>5, <1>11, AllStayed

(* A frame is written to a wire or taken from it.                          *)
LEMMA WrittenTravels ==
  ASSUME TypeOK, NEW g \in Ends, NEW f \in WireFrames, up[Peer(g)], wire' = Written(g, f), held' = held
  PROVE  /\ \A e \in Ends : \A h : Travels(e, h)' <=> Travels(e, h) \/ (e = Peer(g) /\ h = f)
         /\ \A e \in Ends, p \in Ports :
              GivenBack(e, p)' = GivenBack(e, p) + (IF e = Peer(g) /\ IsFor(f, p) THEN f.n ELSE 0)
  <1>1. /\ Peer(g) \in Ends /\ wire'[Peer(g)] = Append(wire[Peer(g)], f)
        /\ \A e \in Ends : e # Peer(g) => wire'[e] = wire[e]
    BY PeerFacts, WrittenType
  <1>2. \A e \in Ends : wire[e] \in Seq(WireFrames)
    BY TypeParts DEF WireOK
  <1>3. Elements(wire'[Peer(g)]) = Elements(wire[Peer(g)]) \cup {f}
    BY <1>1, <1>2, SeqElements
  <1>4. \A e \in Ends : \A h :
          h \in Elements(wire[e])' <=> h \in Elements(wire[e]) \/ (e = Peer(g) /\ h = f)
    BY <1>1, <1>3 DEF Elements
  <1>5. \A e \in Ends : \A h : Travels(e, h)' <=> Travels(e, h) \/ (e = Peer(g) /\ h = f)
    BY <1>4 DEF Travels
  <1>6. ASSUME NEW e \in Ends, NEW p \in Ports
        PROVE  GivenBack(e, p)' = GivenBack(e, p) + (IF e = Peer(g) /\ IsFor(f, p) THEN f.n ELSE 0)
    <2>1. GivenBack(e, p)' = Credit(wire'[e], p) /\ GivenBack(e, p) = Credit(wire[e], p)
          /\ Credit(wire[e], p) \in Nat
      BY <1>2, BackIsCredit, CreditType
    <2>2. CASE e = Peer(g)
      <3>1. wire[e] \in Seq(WireFrames) /\ wire'[e] = Append(wire[e], f)
        BY <1>1, <1>2, <2>2
      <3>2. Credit(Append(wire[e], f), p) = Credit(wire[e], p) + (IF IsFor(f, p) THEN f.n ELSE 0)
        BY <3>1, CreditAppended
      <3>3. Credit(wire'[e], p) = Credit(wire[e], p) + (IF IsFor(f, p) THEN f.n ELSE 0)
        BY <3>1, <3>2
      <3> QED
        BY <2>1, <2>2, <3>3
    <2>3. CASE e # Peer(g)
      BY <1>1, <2>1, <2>3
    <2> QED
      BY <2>2, <2>3
  <1> QED
    BY <1>5, <1>6

LEMMA TakenTravels ==
  ASSUME TypeOK, NEW g \in Ends, wire[g] # <<>>, wire' = [wire EXCEPT ![g] = Tail(@)]
  PROVE  /\ \A e \in Ends : \A h :
              h \in Elements(wire[e]) <=> h \in Elements(wire[e])' \/ (e = g /\ h = Head(wire[g]))
         /\ \A e \in Ends, p \in Ports :
              /\ GivenBack(e, p)' \in Nat
              /\ GivenBack(e, p) = GivenBack(e, p)'
                   + (IF e = g /\ IsFor(Head(wire[g]), p) THEN Head(wire[g]).n ELSE 0)
  <1>1. /\ Tail(wire[g]) \in Seq(WireFrames) /\ wire'[g] = Tail(wire[g])
        /\ \A e \in Ends : e # g => wire'[e] = wire[e]
    BY FrameTaken
  <1>2. \A e \in Ends : wire[e] \in Seq(WireFrames)
    BY TypeParts DEF WireOK
  <1>3. Elements(wire[g]) = Elements(Tail(wire[g])) \cup {Head(wire[g])}
    BY <1>2, SeqElements
  <1>4. \A e \in Ends : \A h :
          h \in Elements(wire[e]) <=> h \in Elements(wire[e])' \/ (e = g /\ h = Head(wire[g]))
    <2>1. TAKE e \in Ends
    <2>2. Elements(wire[e])' = Elements(wire'[e])
      BY DEF Elements
    <2>3. CASE e = g
      <3>1. Elements(wire[e])' = Elements(Tail(wire[g]))
        BY <1>1, <2>2, <2>3
      <3> QED
        BY <1>3, <2>3, <3>1
    <2>4. CASE e # g
      <3>1. Elements(wire[e])' = Elements(wire[e])
        BY <1>1, <2>2, <2>4
      <3> QED
        BY <2>4, <3>1
    <2> QED
      BY <2>3, <2>4
  <1>5. ASSUME NEW e \in Ends, NEW p \in Ports
        PROVE  /\ GivenBack(e, p)' \in Nat
               /\ GivenBack(e, p) = GivenBack(e, p)'
                    + (IF e = g /\ IsFor(Head(wire[g]), p) THEN Head(wire[g]).n ELSE 0)
    <2>1. wire'[e] \in Seq(WireFrames)
      BY <1>1, <1>2
    <2>2. GivenBack(e, p)' = Credit(wire'[e], p) /\ GivenBack(e, p) = Credit(wire[e], p)
          /\ Credit(wire'[e], p) \in Nat
      BY <2>1, BackIsCredit, CreditType
    <2>3. CASE e = g
      <3>1. Credit(wire[g], p) = Credit(Tail(wire[g]), p)
              + (IF IsFor(Head(wire[g]), p) THEN Head(wire[g]).n ELSE 0)
        BY <1>2, CreditTaken
      <3> QED
        BY <1>1, <2>2, <2>3, <3>1
    <2>4. CASE e # g
      BY <1>1, <2>2, <2>4
    <2> QED
      BY <2>3, <2>4
  <1> QED
    BY <1>4, <1>5

(* The write loop puts the first message of a queue on the wire.           *)
LEMMA DataCounts ==
  ASSUME TypeOK, NEW g \in Ends, NEW c \in 1..Created, WriterData(g, c)
  PROVE  \A d \in 1..Created : chan'[d].read = chan[d].read /\ chan'[d].pending = chan[d].pending
  <1> DEFINE q == Tail(chan[c].queue)
  <1>1. CASE chan' = chan
    BY <1>1
  <1>2. CASE chan[c].queue # <<>> /\ chan' = [chan EXCEPT ![c].queue = q]
    <2>1. q \in Seq(Messages)
      BY <1>2, ChannelTypes, SeqTypes
    <2> HIDE DEF q
    <2>2. Becomes(c, Rec(c, q, chan[c].window, chan[c].inbox, chan[c].shut, chan[c].pending, chan[c].read))
      BY <1>2, <2>1, QueueSet
    <2>3. /\ chan'[c].pending = chan[c].pending /\ chan'[c].read = chan[c].read
          /\ \A d \in 1..Created : d # c => chan'[d] = chan[d]
      BY <2>2, BecomesSteady
    <2> QED
      BY <2>3
  <1> QED
    BY <1>1, <1>2 DEF WriterData

LEMMA DataBalance ==
  ASSUME TypeOK, GoroutinesInStep, CloseIsEnd, ~ended,
         NEW g \in Ends, NEW c \in 1..Created, WriterData(g, c)
  PROVE  BalanceStays
  <1> DEFINE q == chan[c].port
  <1> DEFINE n == Head(chan[c].queue)
  <1>1. UNCHANGED <<table, sender, held>>
    BY DEF WriterData, senderVars
  <1>2. /\ Steady /\ Created' = Created
        /\ chan'[c].queue = IF chan[c].queue = <<>> THEN <<>> ELSE Tail(chan[c].queue)
        /\ chan'[c].inbox = chan[c].inbox /\ chan'[c].window = chan[c].window
        /\ \A d \in 1..Created : d # c => chan'[d] = chan[d]
    BY DataEffect
  <1>3. SendingStays /\ ArrivedStays /\ LeftStays /\ OwedStays
    BY <1>1, <1>2, DataCounts, SendingKept, ArrivedKept, LeftKept, OwedKept
  <1>4. CASE chan[c].queue = <<>>
    <2>1. wire' = wire
      BY <1>4 DEF WriterData
    <2>2. QueuedStays /\ TravelsStays /\ BackStays
      BY <1>1, <1>2, <1>4, <2>1, QueuedKept, TravelsKept, BackKept
    <2> QED
      BY <1>3, <2>2, UnreadKept, AllStayed
  <1>5. CASE chan[c].queue # <<>>
    <2>1. wire' = Written(g, Data(q, n)) /\ c \in writer[g].todo
      BY <1>5 DEF WriterData
    <2>2. q \in Ports /\ chan[c].queue \in Seq(Messages) /\ n \in Messages /\ chan[c].at = g
      BY <1>5, <2>1, ChannelTypes, SeqTypes DEF GoroutinesInStep
    <2>3. Data(q, n) \in WireFrames /\ up[Peer(g)] /\ \A p : ~IsFor(Data(q, n), p)
      BY <2>2, FrameTypes, PeerFacts DEF WireFrames, CloseIsEnd, IsFor
    <2>4. Elements(chan[c].queue) = Elements(chan'[c].queue) \cup {n}
      BY <1>2, <1>5, <2>2, SeqElements
    <2>5. \A d \in 1..Created : \A e, p : BelongsTo(d, e, p)' <=> BelongsTo(d, e, p)
      BY <1>2, BelongsStays
    <2>6. BelongsTo(c, g, q)
      BY <2>2 DEF BelongsTo
    <2> HIDE DEF q, n
    <2>7. /\ \A e \in Ends : \A h : Travels(e, h)' <=> Travels(e, h) \/ (e = Peer(g) /\ h = Data(q, n))
          /\ \A e \in Ends, p \in Ports : GivenBack(e, p)' = GivenBack(e, p) + 0
      BY <1>1, <2>1, <2>3, WrittenTravels
    <2>8. BackStays
      BY <2>7, AmountTypes DEF BackStays
    <2>9. \A e, p, m : Queued(e, p, m) <=> Queued(e, p, m)' \/ (e = g /\ p = q /\ m = n)
      <3>1. \A e, p : BelongsTo(c, e, p) <=> e = g /\ p = q
        BY <2>6 DEF BelongsTo
      <3>2. \A m : m \in Elements(chan[c].queue) <=> m \in Elements(chan'[c].queue) \/ m = n
        BY <2>4
      <3>3. \A d \in 1..Created : d # c => Elements(chan'[d].queue) = Elements(chan[d].queue)
        BY <1>2
      <3> TAKE e, p, m
      <3>4. Queued(e, p, m)' <=>
              \E d \in 1..Created : BelongsTo(d, e, p) /\ m \in Elements(chan'[d].queue)
        BY <1>2, <2>5, Zenon DEF Queued, Elements
      <3>5. ASSUME Queued(e, p, m)
            PROVE  Queued(e, p, m)' \/ (e = g /\ p = q /\ m = n)
        <4>1. PICK d \in 1..Created : BelongsTo(d, e, p) /\ m \in Elements(chan[d].queue)
          BY <3>5 DEF Queued
        <4> QED
          BY <3>1, <3>2, <3>3, <3>4, <4>1
      <3>6. ASSUME Queued(e, p, m)'
            PROVE  Queued(e, p, m)
        <4>1. PICK d \in 1..Created : BelongsTo(d, e, p) /\ m \in Elements(chan'[d].queue)
          BY <3>4, <3>6
        <4>2. m \in Elements(chan[d].queue)
          BY <3>2, <3>3, <4>1
        <4> QED
          BY <4>1, <4>2 DEF Queued
      <3>7. e = g /\ p = q /\ m = n => Queued(e, p, m)
        BY <3>1, <3>2 DEF Queued
      <3> QED
        BY <3>5, <3>6, <3>7
    <2>10. \A e \in Ends, p \in Ports : \A m : m \in InFlight(e, p)' <=> m \in InFlight(e, p)
      <3> TAKE e \in Ends, p \in Ports
      <3> TAKE m
      <3>1. Peer(e) \in Ends /\ (Peer(e) = Peer(g) <=> e = g)
        BY PeerFacts
      <3>2. Sending(e, p, m)' <=> Sending(e, p, m)
        BY <1>3 DEF SendingStays
      <3>3. Arrived(Peer(e), p, m)' <=> Arrived(Peer(e), p, m)
        BY <1>3 DEF ArrivedStays
      <3>4. Data(p, m) = Data(q, n) <=> p = q /\ m = n
        BY DataIs
      <3>5. Queued(e, p, m)' \/ Travels(Peer(e), Data(p, m))'
              <=> Queued(e, p, m) \/ Travels(Peer(e), Data(p, m))
        BY <2>7, <2>9, <3>1, <3>4
      <3> QED
        BY <3>2, <3>3, <3>5, InFlightNow, InFlightNext
    <2> QED
      BY <1>3, <2>8, <2>10, FlightKept, AllStayed
  <1> QED
    BY <1>4, <1>5

(* A worker takes a data frame from the wire.                              *)
LEMMA TakeBalance ==
  ASSUME TypeOK, GoroutinesInStep, NEW g \in Ends, WorkerTakes(g)
  PROVE  BalanceStays
  <1>1. UNCHANGED <<table, chan, sender>>
    BY DEF WorkerTakes, senderVars
  <1>2. Steady /\ Created' = Created
    BY <1>1, SameChannels
  <1>3. SendingStays /\ QueuedStays /\ ArrivedStays /\ LeftStays /\ OwedStays
    BY <1>1, <1>2, SendingKept, QueuedKept, ArrivedKept, LeftKept, OwedKept
  <1> DEFINE k == [frame |-> Head(wire[g]), ch |-> 0, fresh |-> FALSE]
  <1>4. /\ wire[g] # <<>> /\ wire' = [wire EXCEPT ![g] = Tail(@)] /\ Head(wire[g]).type # "window"
        /\ held' = [held EXCEPT ![g] = held[g] \cup {k}]
    BY DEF WorkerTakes
  <1>5. k.frame = Head(wire[g]) /\ \A p : ~IsFor(Head(wire[g]), p)
    BY <1>4 DEF IsFor
  <1> HIDE DEF k
  <1>6. held'[g] = held[g] \cup {k} /\ \A e \in Ends : e # g => held'[e] = held[e]
    BY <1>4 DEF TypeOK
  <1>7. /\ \A e \in Ends : \A h :
             h \in Elements(wire[e]) <=> h \in Elements(wire[e])' \/ (e = g /\ h = Head(wire[g]))
        /\ \A e \in Ends, p \in Ports :
             GivenBack(e, p)' \in Nat /\ GivenBack(e, p) = GivenBack(e, p)' + 0
    BY <1>4, <1>5, TakenTravels
  <1>8. TravelsStays
    <2>1. \A e \in Ends : \A h : (\E j \in held'[e] : j.frame = h) <=>
            (\E j \in held[e] : j.frame = h) \/ (e = g /\ h = Head(wire[g]))
      BY <1>5, <1>6
    <2>2. ASSUME NEW e \in Ends, NEW h
          PROVE  Travels(e, h)' <=> Travels(e, h)
      <3>1. h \in Elements(wire[e]) <=> h \in Elements(wire[e])' \/ (e = g /\ h = Head(wire[g]))
        BY <1>7
      <3>2. (\E j \in held'[e] : j.frame = h) <=>
              (\E j \in held[e] : j.frame = h) \/ (e = g /\ h = Head(wire[g]))
        BY <2>1
      <3> QED
        BY <3>1, <3>2, Zenon DEF Travels
    <2> QED
      BY <2>2 DEF TravelsStays, Data
  <1>9. BackStays
    BY <1>7 DEF BackStays
  <1> QED
    BY <1>3, <1>8, <1>9, UnreadKept, AllStayed

(* An update from the other end is added to the window of its port.        *)
LEMMA UpdateGives ==
  ASSUME TypeOK, NEW g \in Ends, HandleWindowUpdate(g)
  PROVE  LET q == Head(wire[g]).port  n == Head(wire[g]).n  c == table[g][q] IN
         /\ q \in Ports /\ n \in Nat /\ c \in 0..Created
         /\ \A d \in 1..Created :
              /\ d # c => chan'[d] = chan[d]
              /\ d = c => chan'[d].window = chan[d].window + n
              /\ chan'[d].read = chan[d].read /\ chan'[d].pending = chan[d].pending
  <1> DEFINE q == Head(wire[g]).port
  <1> DEFINE n == Head(wire[g]).n
  <1> DEFINE c == table[g][q]
  <1>1. Head(wire[g]) \in WireFrames
    BY FrameTaken DEF HandleWindowUpdate
  <1>2. n \in Nat /\ q \in Ports
    BY <1>1, FrameTypes DEF HandleWindowUpdate
  <1>3. c \in 0..Created /\ Created \in Nat
    BY <1>2, ChannelTypes DEF TypeOK
  <1>4. CASE c = 0
    <2>1. chan' = chan
      BY <1>4 DEF HandleWindowUpdate
    <2>2. \A d \in 1..Created : d # c
      BY <1>3, <1>4
    <2> QED
      BY <1>2, <1>3, <2>1, <2>2
  <1>5. CASE c # 0
    <2> DEFINE w == chan[c].window + n
    <2>1. c \in 1..Created
      BY <1>3, <1>5
    <2>2. chan' = [chan EXCEPT ![c].window = w]
      BY <1>5, ZenonT(60) DEF HandleWindowUpdate
    <2> HIDE DEF c, n, q
    <2>3. w \in Int
      BY <1>2, <2>1, ChannelTypes
    <2> HIDE DEF w
    <2>4. Becomes(c, Rec(c, chan[c].queue, w, chan[c].inbox, chan[c].shut, chan[c].pending, chan[c].read))
      BY <2>1, <2>2, <2>3, WindowSet
    <2>5. /\ chan'[c].window = w /\ chan'[c].pending = chan[c].pending /\ chan'[c].read = chan[c].read
          /\ \A d \in 1..Created : d # c => chan'[d] = chan[d]
      BY <2>4, BecomesSteady
    <2> QED
      BY <1>2, <1>3, <2>5 DEF w, c, n, q
  <1> QED
    BY <1>4, <1>5

LEMMA UpdateBalance ==
  ASSUME TypeOK, OpenIsListed, GoroutinesInStep, NEW g \in Ends, HandleWindowUpdate(g)
  PROVE  BalanceStays
  <1>0. PICK q, n, c : q = Head(wire[g]).port /\ n = Head(wire[g]).n /\ c = table[g][q]
    OBVIOUS
  <1>1. /\ q \in Ports /\ n \in Nat /\ c \in 0..Created
        /\ \A d \in 1..Created :
             /\ d # c => chan'[d] = chan[d]
             /\ d = c => chan'[d].window = chan[d].window + n
             /\ chan'[d].read = chan[d].read /\ chan'[d].pending = chan[d].pending
    BY <1>0, UpdateGives, Zenon
  <1>2. /\ Steady /\ Created' = Created
        /\ \A d \in 1..Created : chan'[d].queue = chan[d].queue /\ chan'[d].inbox = chan[d].inbox
    BY UpdateEffect
  <1>3. UNCHANGED <<table, held, sender>>
    BY DEF HandleWindowUpdate, senderVars
  <1>4. wire[g] # <<>> /\ wire' = [wire EXCEPT ![g] = Tail(@)] /\ Head(wire[g]).type = "window"
    BY DEF HandleWindowUpdate
  <1>5. \A p : IsFor(Head(wire[g]), p) <=> p = q
    BY <1>0, <1>4 DEF IsFor
  <1>6. /\ \A e \in Ends : \A h :
             h \in Elements(wire[e]) <=> h \in Elements(wire[e])' \/ (e = g /\ h = Head(wire[g]))
        /\ \A e \in Ends, p \in Ports :
             /\ GivenBack(e, p)' \in Nat
             /\ GivenBack(e, p) = GivenBack(e, p)' + (IF e = g /\ p = q THEN n ELSE 0)
    BY <1>0, <1>4, <1>5, TakenTravels
  <1>7. SendingStays /\ QueuedStays /\ ArrivedStays /\ OwedStays
    BY <1>1, <1>2, <1>3, SendingKept, QueuedKept, ArrivedKept, OwedKept
  <1>8. TravelsStays
    <2>1. \A p, m : Data(p, m) # Head(wire[g])
      BY <1>4, DataIs
    <2>2. ASSUME NEW e \in Ends, NEW p, NEW m
          PROVE  Travels(e, Data(p, m))' <=> Travels(e, Data(p, m))
      <3>1. Data(p, m) \in Elements(wire[e]) <=> Data(p, m) \in Elements(wire[e])'
        BY <1>6, <2>1
      <3>2. Data(p, m)' = Data(p, m)
        BY DEF Data
      <3> QED
        BY <1>3, <3>1, <3>2, Zenon DEF Travels
    <2> QED
      BY <2>2 DEF TravelsStays
  <1>9. UnreadStays
    BY <1>7, <1>8, UnreadKept
  <1>10. ASSUME NEW e \in Ends, NEW p \in Ports, Balanced(e, p)
         PROVE  Balanced(e, p)'
    <2>1. Unread(e, p)' = Unread(e, p) /\ Owed(e, p)' = Owed(e, p)
      BY <1>7, <1>9 DEF UnreadStays, OwedStays
    <2>2. /\ Left(e, p) \in Int /\ Unread(e, p) \in Nat
          /\ GivenBack(e, p) \in Nat /\ Owed(e, p) \in Nat /\ Window \in Nat
      BY AmountTypes, WindowAssumption
    <2>3. table[e][p] = 0 \/ table[e][p] \in 1..Created
      BY ChannelTypes DEF TypeOK
    <2>4. CASE e = g /\ p = q
      <3>1. CASE c = 0
        <4>1. Left(e, p) = Window /\ Left(e, p)' = Window
          BY <1>0, <1>3, <2>4, <3>1 DEF Left
        <4>2. GivenBack(e, p) = GivenBack(e, p)' + n /\ GivenBack(e, p)' \in Nat
          BY <1>6, <2>4
        <4> QED
          BY <1>1, <1>10, <2>1, <2>2, <4>1, <4>2 DEF Balanced
      <3>2. CASE c # 0
        <4>1. Left(e, p)' = Left(e, p) + n
          BY <1>0, <1>1, <1>3, <2>3, <2>4, <3>2 DEF Left
        <4>2. GivenBack(e, p) = GivenBack(e, p)' + n /\ GivenBack(e, p)' \in Nat
          BY <1>6, <2>4
        <4> QED
          BY <1>1, <1>10, <2>1, <2>2, <4>1, <4>2 DEF Balanced
      <3> QED
        BY <3>1, <3>2
    <2>5. CASE ~(e = g /\ p = q)
      <3>1. table[e][p] # 0 => table[e][p] # c
        <4>1. table[e][p] # 0 => chan[table[e][p]].at = e /\ chan[table[e][p]].port = p
          BY DEF OpenIsListed
        <4>2. c # 0 => chan[c].at = g /\ chan[c].port = q
          BY <1>0, <1>1 DEF OpenIsListed
        <4> QED
          BY <2>5, <4>1, <4>2
      <3>2. Left(e, p)' = Left(e, p)
        BY <1>1, <1>3, <2>3, <3>1 DEF Left
      <3>3. GivenBack(e, p) = GivenBack(e, p)' + 0 /\ GivenBack(e, p)' \in Nat
        BY <1>6, <2>5
      <3> QED
        BY <1>10, <2>1, <2>2, <3>2, <3>3 DEF Balanced
    <2> QED
      BY <2>4, <2>5
  <1> QED
    BY <1>10 DEF BalanceStays

(* A message in flight that has left its sender was accepted and is not    *)
(* read; a channel of a port with nothing closed is the listed one.        *)
FlightUnderWay ==
  /\ \A e \in Ends, p \in Ports : \A m \in InFlight(e, p) : Sending(e, p, m) \/ m \in UnderWay
  /\ UnderWay \subseteq sent /\ UnderWay \cap Elements(got) = {}

LEMMA FlightNow == TypeOK /\ OnePlace => FlightUnderWay
  <1> SUFFICES ASSUME TypeOK, OnePlace
               PROVE  FlightUnderWay
    OBVIOUS
  <1>1. Apart /\ Accounted
    BY OnePlaceParts
  <1>2. /\ 1..Created \subseteq Slots /\ Ends \subseteq Slots /\ 0 \in Slots
        /\ Places \ {"got"} = {"queue", "inbox", "wire", "held"} /\ "got" \in Places
    BY SlotFacts DEF Places
  <1>3. \A m : m \in UnderWay <=> \E k \in Places \ {"got"}, x \in Slots : m \in MessagesAt(k, x)
    BY UnderWayNow
  <1>4. ASSUME NEW e \in Ends, NEW p \in Ports, NEW m \in InFlight(e, p), ~Sending(e, p, m)
        PROVE  m \in UnderWay
    <2>1. Peer(e) \in Ends
      BY PeerFacts
    <2>2. CASE Queued(e, p, m)
      <3>1. PICK c \in 1..Created : m \in Elements(chan[c].queue)
        BY <2>2 DEF Queued
      <3>2. m \in MessagesAt("queue", c)
        BY <3>1, PlacesNow
      <3> QED
        BY <1>2, <1>3, <3>2
    <2>3. CASE Arrived(Peer(e), p, m)
      <3>1. PICK c \in 1..Created : m \in Elements(chan[c].inbox)
        BY <2>3 DEF Arrived
      <3>2. m \in MessagesAt("inbox", c)
        BY <3>1, PlacesNow
      <3> QED
        BY <1>2, <1>3, <3>2
    <2>4. CASE Data(p, m) \in Elements(wire[Peer(e)])
      <3>1. m \in MessagesIn(wire[Peer(e)])
        BY <2>4, DataIs DEF MessagesIn, Elements
      <3>2. m \in MessagesAt("wire", Peer(e))
        BY <2>1, <3>1, PlacesNow
      <3> QED
        BY <1>2, <1>3, <2>1, <3>2
    <2>5. CASE \E j \in held[Peer(e)] : j.frame = Data(p, m)
      <3>1. m \in HeldMessages(Peer(e))
        BY <2>5, DataIs DEF HeldMessages
      <3>2. m \in MessagesAt("held", Peer(e))
        BY <2>1, <3>1, PlacesNow
      <3> QED
        BY <1>2, <1>3, <2>1, <3>2
    <2> QED
      BY <1>4, <2>2, <2>3, <2>4, <2>5, InFlightNow DEF Travels
  <1>5. UnderWay \subseteq sent
    BY <1>1, <1>3 DEF Accounted
  <1>6. UnderWay \cap Elements(got) = {}
    <2>1. \A m : m \in Elements(got) => m \in MessagesAt("got", 0)
      BY PlacesNow
    <2> QED
      BY <1>1, <1>2, <1>3, <2>1 DEF Apart
  <1> QED
    BY <1>4, <1>5, <1>6 DEF FlightUnderWay

LEMMA FlightNextIs == TypeOK' /\ OnePlace' => FlightUnderWay'
  BY FlightNow, PTL


(* Before the first close a channel is the one that is listed.             *)
LEMMA ListedHere ==
  ASSUME TypeOK, OpenIsListed, CloseIsEnd, ~ended, NEW c \in 1..Created
  PROVE  /\ c # 0 /\ table[chan[c].at][chan[c].port] = c
         /\ \A e \in Ends, p \in Ports : table[e][p] = c => e = chan[c].at /\ p = chan[c].port
  <1>1. c # 0 /\ ~chan[c].shut
    BY ChannelTypes DEF CloseIsEnd
  <1> QED
    BY <1>1 DEF OpenIsListed

(* Send takes from the window what its message is charged for.             *)
LEMMA WindowBalance ==
  ASSUME TypeOK, TypeOK', OpenIsListed, GoroutinesInStep, CloseIsEnd, OnePlace, ~ended,
         NEW s \in Senders, SendTakesWindow(s)
  PROVE  BalanceStays
  <1>0. PICK c, m : c = sender[s].ch /\ m = sender[s].msg
    OBVIOUS
  <1>1. /\ c \in 1..Created /\ m \in Messages /\ Steady /\ Created' = Created
        /\ \A d \in 1..Created :
             /\ chan'[d].inbox = chan[d].inbox
             /\ d # c => chan'[d] = chan[d]
        /\ chan'[c].window = chan[c].window - Size[m] /\ chan'[c].queue = chan[c].queue
    BY <1>0, SendEffect, Zenon DEF SendStep
  <1>2. /\ UNCHANGED <<table, wire, held>> /\ sender[s].pc = "take"
        /\ sender' = [sender EXCEPT ![s].pc = "enqueue"]
    BY DEF SendTakesWindow
  <1>3. /\ sender'[s] = [pc |-> "enqueue", ch |-> c, msg |-> m]
        /\ \A t \in Senders : t # s => sender'[t] = sender[t]
    BY <1>0, <1>1, <1>2, SenderMoves DEF SenderAt
  <1>4. chan'[c].pending = chan[c].pending /\ chan'[c].read = chan[c].read
    <2> DEFINE w == chan[c].window - Size[m]
    <2>0. chan[c].window \in Int /\ Size[m] \in Int
      <3>1. chan[c].window \in Int
        BY <1>1, ChannelTypes
      <3>2. Size[m] \in Int
        BY <1>1, WindowAssumption DEF Messages
      <3> QED
        BY <3>1, <3>2
    <2>1. w \in Int
      BY <2>0
    <2>2. chan' = [chan EXCEPT ![c].window = w]
      BY <1>0 DEF SendTakesWindow
    <2> HIDE DEF w
    <2>3. Becomes(c, Rec(c, chan[c].queue, w, chan[c].inbox, chan[c].shut, chan[c].pending, chan[c].read))
      BY <1>1, <2>1, <2>2, WindowSet
    <2> QED
      BY <2>3, BecomesSteady
  <1>5. PICK g \in Ends, q \in Ports : g = chan[c].at /\ q = chan[c].port
    BY <1>1, ChannelTypes
  <1>6. /\ c # 0 /\ table[g][q] = c
        /\ \A e \in Ends, p \in Ports : table[e][p] = c => e = g /\ p = q
    BY <1>1, <1>5, ListedHere
  <1>7. OwedStays /\ BackStays /\ QueuedStays /\ ArrivedStays /\ TravelsStays
    <2>1. \A d \in 1..Created : /\ chan'[d].read = chan[d].read /\ chan'[d].pending = chan[d].pending
                                /\ chan'[d].queue = chan[d].queue
      BY <1>1, <1>4
    <2> QED
      BY <1>1, <1>2, <2>1, OwedKept, BackKept, QueuedKept, ArrivedKept, TravelsKept
  <1>8. \A e, p, n : Sending(e, p, n)' <=> Sending(e, p, n) \/ (e = g /\ p = q /\ n = m)
    <2>0. \A t \in Senders : t # s /\ sender[t].pc = "enqueue" =>
            sender[t].ch \in 1..Created /\ sender'[t].ch = sender[t].ch
      BY <1>3, SendersHold
    <2>1. \A t \in Senders : t # s /\ sender[t].pc = "enqueue" =>
            \A e, p : BelongsTo(sender[t].ch, e, p)' <=> BelongsTo(sender[t].ch, e, p)
      BY <1>1, <2>0 DEF BelongsTo, Steady
    <2>2. \A e, p : BelongsTo(c, e, p)' <=> e = g /\ p = q
      BY <1>1, <1>5 DEF BelongsTo, Steady
    <2>3. BelongsTo(sender[s].ch, g, q)' /\ sender'[s].pc = "enqueue" /\ sender'[s].msg = m
      BY <1>0, <1>3, <2>2 DEF BelongsTo
    <2> TAKE e, p, n
    <2>4. ASSUME Sending(e, p, n)'
          PROVE  Sending(e, p, n) \/ (e = g /\ p = q /\ n = m)
      <3>1. PICK t \in Senders :
              sender'[t].pc = "enqueue" /\ sender'[t].msg = n /\ BelongsTo(sender[t].ch, e, p)'
        BY <2>4, Zenon DEF Sending
      <3>2. CASE t = s
        BY <1>3, <2>2, <3>1, <3>2 DEF BelongsTo
      <3>3. CASE t # s
        BY <1>3, <2>1, <3>1, <3>3 DEF Sending
      <3> QED
        BY <3>2, <3>3
    <2>5. ASSUME Sending(e, p, n)
          PROVE  Sending(e, p, n)'
      <3>1. PICK t \in Senders :
              sender[t].pc = "enqueue" /\ sender[t].msg = n /\ BelongsTo(sender[t].ch, e, p)
        BY <2>5 DEF Sending
      <3>2. t # s
        BY <1>2, <3>1
      <3>3. sender'[t].pc = "enqueue" /\ sender'[t].msg = n /\ BelongsTo(sender[t].ch, e, p)'
        BY <1>3, <2>1, <3>1, <3>2
      <3> QED
        BY <3>3, Zenon DEF Sending
    <2>6. Sending(g, q, m)'
      BY <2>3, Zenon DEF Sending
    <2> QED
      BY <2>4, <2>5, <2>6
  <1>9. m \notin InFlight(g, q)
    <2>1. m \notin sent /\ \A t \in Senders \ {s} : sender[t].pc # "idle" => sender[t].msg # m
      BY <1>0, <1>2 DEF GoroutinesInStep
    <2>2. ~Sending(g, q, m)
      BY <1>2, <2>1 DEF Sending
    <2> QED
      BY <2>1, <2>2, FlightNow DEF FlightUnderWay
  <1>10. \A e \in Ends, p \in Ports : \A n :
           n \in InFlight(e, p)' <=> n \in InFlight(e, p) \/ (e = g /\ p = q /\ n = m)
    <2> TAKE e \in Ends, p \in Ports
    <2> TAKE n
    <2>1. Peer(e) \in Ends
      BY PeerFacts
    <2>2. Queued(e, p, n)' <=> Queued(e, p, n)
      BY <1>7 DEF QueuedStays
    <2>3. Arrived(Peer(e), p, n)' <=> Arrived(Peer(e), p, n)
      BY <1>7 DEF ArrivedStays
    <2>4. Travels(Peer(e), Data(p, n))' <=> Travels(Peer(e), Data(p, n))
      BY <1>7, <2>1 DEF TravelsStays
    <2> QED
      BY <1>1, <1>8, <2>2, <2>3, <2>4, InFlightNow, InFlightNext
  <1>11. ASSUME NEW e \in Ends, NEW p \in Ports, Balanced(e, p)
         PROVE  Balanced(e, p)'
    <2>1. GivenBack(e, p)' = GivenBack(e, p) /\ Owed(e, p)' = Owed(e, p)
      BY <1>7 DEF BackStays, OwedStays
    <2>2. /\ Left(e, p) \in Int /\ Unread(e, p) \in Nat
          /\ GivenBack(e, p) \in Nat /\ Owed(e, p) \in Nat
      BY AmountTypes
    <2>3. Size[m] \in Nat
      BY <1>1, WindowAssumption DEF Messages
    <2>4. CASE e = g /\ p = q
      <3>1. Left(e, p)' = Left(e, p) - Size[m]
        BY <1>1, <1>2, <1>6, <2>4 DEF Left
      <3>2. InFlight(e, p)' = InFlight(e, p) \cup {m}
        BY <1>10, <2>4
      <3>3. Unread(e, p)' = Unread(e, p) + Size[m]
        <4>1. InFlight(e, p) \in SUBSET Messages /\ m \in Messages \ InFlight(e, p)
          BY <1>1, <1>9, <2>4, UnreadIsSum
        <4>2. Total([n \in InFlight(e, p) \cup {m} |-> Size[n]])
                = Total([n \in InFlight(e, p) |-> Size[n]]) + Size[m]
          BY <4>1, SizesSum
        <4> QED
          BY <3>2, <4>2, UnreadIsSum
      <3> QED
        BY <1>11, <2>1, <2>2, <2>3, <3>1, <3>3 DEF Balanced
    <2>5. CASE ~(e = g /\ p = q)
      <3>1. InFlight(e, p)' = InFlight(e, p)
        BY <1>10, <2>5
      <3>2. Unread(e, p)' = Unread(e, p)
        BY <3>1, UnreadIsSum
      <3>3. Left(e, p)' = Left(e, p)
        <4>0. Created \in Nat /\ table[e][p] \in 0..Created
          <5>1. Created \in Nat
            BY ChannelTypes
          <5>2. table[e][p] \in 0..Created
            BY DEF TypeOK
          <5> QED
            BY <5>1, <5>2
        <4>1. table[e][p] # c /\ (table[e][p] = 0 \/ table[e][p] \in 1..Created)
          BY <1>6, <2>5, <4>0
        <4> QED
          BY <1>1, <1>2, <4>1 DEF Left
      <3> QED
        BY <1>11, <2>1, <3>2, <3>3 DEF Balanced
    <2> QED
      BY <2>4, <2>5
  <1> QED
    BY <1>11 DEF BalanceStays


LEMMA TablePlaces ==
  ASSUME TypeOK, NEW e \in Ends, NEW p \in Ports
  PROVE  table[e][p] = 0 \/ table[e][p] \in 1..Created
  <1>1. Created \in Nat
    BY ChannelTypes
  <1>2. table[e][p] \in 0..Created
    BY DEF TypeOK
  <1> QED
    BY <1>1, <1>2

(* The message goes from its sender to the queue.                          *)
LEMMA EnqueueBalance ==
  ASSUME TypeOK, GoroutinesInStep, NEW s \in Senders, SendEnqueues(s)
  PROVE  BalanceStays
  <1>0. PICK c, m : c = sender[s].ch /\ m = sender[s].msg
    OBVIOUS
  <1>1. /\ c \in 1..Created /\ m \in Messages /\ Steady /\ Created' = Created
        /\ \A d \in 1..Created :
             /\ chan'[d].inbox = chan[d].inbox
             /\ d # c => chan'[d] = chan[d]
        /\ chan'[c].window = chan[c].window /\ chan'[c].queue = Append(chan[c].queue, m)
    BY <1>0, SendEffect, Zenon DEF SendStep
  <1>2. /\ UNCHANGED <<table, wire, held>> /\ sender[s].pc = "enqueue"
        /\ sender' = [sender EXCEPT ![s].pc = "notify"]
    BY DEF SendEnqueues
  <1>3. /\ sender'[s] = [pc |-> "notify", ch |-> c, msg |-> m]
        /\ \A t \in Senders : t # s => sender'[t] = sender[t]
    BY <1>0, <1>1, <1>2, SenderMoves DEF SenderAt
  <1>4. chan[c].queue \in Seq(Messages)
    BY <1>1, ChannelTypes
  <1>5. chan'[c].pending = chan[c].pending /\ chan'[c].read = chan[c].read
    <2> DEFINE r == Append(chan[c].queue, m)
    <2>1. r \in Seq(Messages)
      BY <1>1, <1>4, SeqTypes
    <2>2. chan' = [chan EXCEPT ![c].queue = r]
      BY <1>0 DEF SendEnqueues
    <2> HIDE DEF r
    <2>3. Becomes(c, Rec(c, r, chan[c].window, chan[c].inbox, chan[c].shut, chan[c].pending, chan[c].read))
      BY <1>1, <2>1, <2>2, QueueSet
    <2> QED
      BY <2>3, BecomesSteady
  <1>6. PICK g \in Ends, q \in Ports : g = chan[c].at /\ q = chan[c].port
    BY <1>1, ChannelTypes
  <1>7. LeftStays /\ OwedStays /\ BackStays /\ ArrivedStays /\ TravelsStays
    <2>1. \A d \in 1..Created : /\ chan'[d].read = chan[d].read /\ chan'[d].pending = chan[d].pending
                                /\ chan'[d].window = chan[d].window
      BY <1>1, <1>5
    <2> QED
      BY <1>1, <1>2, <2>1, LeftKept, OwedKept, BackKept, ArrivedKept, TravelsKept
  <1>8. \A e, p : BelongsTo(c, e, p) <=> e = g /\ p = q
    BY <1>6 DEF BelongsTo
  <1>9. \A e, p, n : Sending(e, p, n) <=> Sending(e, p, n)' \/ (e = g /\ p = q /\ n = m)
    <2>0. \A t \in Senders : t # s /\ sender[t].pc = "enqueue" =>
            sender[t].ch \in 1..Created /\ sender'[t].ch = sender[t].ch
      BY <1>3, SendersHold
    <2>1. \A t \in Senders : t # s /\ sender[t].pc = "enqueue" =>
            \A e, p : BelongsTo(sender[t].ch, e, p)' <=> BelongsTo(sender[t].ch, e, p)
      BY <1>1, <2>0 DEF BelongsTo, Steady
    <2> TAKE e, p, n
    <2>2. ASSUME Sending(e, p, n)'
          PROVE  Sending(e, p, n)
      <3>1. PICK t \in Senders :
              sender'[t].pc = "enqueue" /\ sender'[t].msg = n /\ BelongsTo(sender[t].ch, e, p)'
        BY <2>2, Zenon DEF Sending
      <3>2. t # s
        BY <1>3, <3>1
      <3> QED
        BY <1>3, <2>1, <3>1, <3>2 DEF Sending
    <2>3. ASSUME Sending(e, p, n)
          PROVE  Sending(e, p, n)' \/ (e = g /\ p = q /\ n = m)
      <3>1. PICK t \in Senders :
              sender[t].pc = "enqueue" /\ sender[t].msg = n /\ BelongsTo(sender[t].ch, e, p)
        BY <2>3 DEF Sending
      <3>2. CASE t = s
        BY <1>0, <1>8, <3>1, <3>2
      <3>3. CASE t # s
        <4>1. sender'[t].pc = "enqueue" /\ sender'[t].msg = n /\ BelongsTo(sender[t].ch, e, p)'
          BY <1>3, <2>1, <3>1, <3>3
        <4> QED
          BY <4>1, Zenon DEF Sending
      <3> QED
        BY <3>2, <3>3
    <2>4. e = g /\ p = q /\ n = m => Sending(e, p, n)
      BY <1>0, <1>2, <1>8 DEF Sending
    <2> QED
      BY <2>2, <2>3, <2>4
  <1>10. \A e, p, n : Queued(e, p, n)' <=> Queued(e, p, n) \/ (e = g /\ p = q /\ n = m)
    <2>1. \A n : n \in Elements(chan'[c].queue) <=> n \in Elements(chan[c].queue) \/ n = m
      BY <1>1, <1>4, SeqElements
    <2>2. \A d \in 1..Created : d # c => Elements(chan'[d].queue) = Elements(chan[d].queue)
      BY <1>1
    <2>3. \A d \in 1..Created : \A e, p : BelongsTo(d, e, p)' <=> BelongsTo(d, e, p)
      BY <1>1, BelongsStays
    <2> TAKE e, p, n
    <2>4. Queued(e, p, n)' <=>
            \E d \in 1..Created : BelongsTo(d, e, p) /\ n \in Elements(chan'[d].queue)
      BY <1>1, <2>3, Zenon DEF Queued, Elements
    <2>5. ASSUME Queued(e, p, n)'
          PROVE  Queued(e, p, n) \/ (e = g /\ p = q /\ n = m)
      <3>1. PICK d \in 1..Created : BelongsTo(d, e, p) /\ n \in Elements(chan'[d].queue)
        BY <2>4, <2>5
      <3> QED
        BY <1>8, <2>1, <2>2, <3>1 DEF Queued
    <2>6. ASSUME Queued(e, p, n)
          PROVE  Queued(e, p, n)'
      <3>1. PICK d \in 1..Created : BelongsTo(d, e, p) /\ n \in Elements(chan[d].queue)
        BY <2>6 DEF Queued
      <3>2. n \in Elements(chan'[d].queue)
        BY <2>1, <2>2, <3>1
      <3> QED
        BY <2>4, <3>1, <3>2
    <2>7. e = g /\ p = q /\ n = m => Queued(e, p, n)'
      BY <1>1, <1>8, <2>1, <2>4
    <2> QED
      BY <2>5, <2>6, <2>7
  <1>11. \A e \in Ends, p \in Ports : \A n : n \in InFlight(e, p)' <=> n \in InFlight(e, p)
    <2> TAKE e \in Ends, p \in Ports
    <2> TAKE n
    <2>1. Peer(e) \in Ends
      BY PeerFacts
    <2>2. Arrived(Peer(e), p, n)' <=> Arrived(Peer(e), p, n)
      BY <1>7 DEF ArrivedStays
    <2>3. Travels(Peer(e), Data(p, n))' <=> Travels(Peer(e), Data(p, n))
      BY <1>7, <2>1 DEF TravelsStays
    <2>4. Sending(e, p, n)' \/ Queued(e, p, n)' <=> Sending(e, p, n) \/ Queued(e, p, n)
      BY <1>9, <1>10
    <2> QED
      BY <2>2, <2>3, <2>4, InFlightNow, InFlightNext
  <1> QED
    BY <1>7, <1>11, FlightKept, AllStayed

(* The reader takes a message and owes its length.                         *)
LEMMA ReadBalance ==
  ASSUME TypeOK, TypeOK', OpenIsListed, GoroutinesInStep, CloseIsEnd, OnePlace, ~ended,
         NEW c \in 1..Created, ChannelRead(c)
  PROVE  BalanceStays
  <1>0. PICK m : m = Head(chan[c].inbox)
    OBVIOUS
  <1>1. /\ Steady /\ Created' = Created /\ chan[c].inbox # <<>> /\ m \in Messages
        /\ chan'[c].inbox = Tail(chan[c].inbox)
        /\ chan'[c].queue = chan[c].queue /\ chan'[c].window = chan[c].window
        /\ \A d \in 1..Created : d # c => chan'[d] = chan[d]
    BY <1>0, ReadEffect
  <1>2. UNCHANGED <<table, wire, held, sender, sent>> /\ chan[c].read = 0
    BY DEF ChannelRead, senderVars
  <1>3. Takes(m)
    BY <1>0, ReadMoves
  <1>4. Size[m] \in Nat
    BY <1>1, WindowAssumption DEF Messages
  <1>5. chan'[c].pending = chan[c].pending /\ chan'[c].read = Size[m]
    <2> DEFINE i == Tail(chan[c].inbox)
    <2> DEFINE r == Size[m]
    <2>1. i \in Seq(Messages) /\ r \in Nat
      BY <1>1, <1>4, ChannelTypes, SeqTypes
    <2>2. chan' = [chan EXCEPT ![c].inbox = i, ![c].read = r]
      BY <1>0 DEF ChannelRead
    <2> HIDE DEF i, r
    <2>3. Becomes(c, Rec(c, chan[c].queue, chan[c].window, i, chan[c].shut, chan[c].pending, r))
      BY <2>1, <2>2, ReadTaken
    <2>4. chan'[c].pending = chan[c].pending /\ chan'[c].read = r
      BY <2>3, BecomesSteady
    <2> QED
      BY <2>4 DEF r
  <1>6. PICK g \in Ends, q \in Ports : g = chan[c].at /\ q = chan[c].port
    BY ChannelTypes
  <1>7. /\ c # 0 /\ table[g][q] = c
        /\ \A e \in Ends, p \in Ports : table[e][p] = c => e = g /\ p = q
    BY <1>6, ListedHere
  <1>8. LeftStays /\ BackStays /\ QueuedStays /\ SendingStays /\ TravelsStays
    <2>1. \A d \in 1..Created : chan'[d].queue = chan[d].queue /\ chan'[d].window = chan[d].window
      BY <1>1
    <2> QED
      BY <1>1, <1>2, <2>1, LeftKept, BackKept, QueuedKept, SendingKept, TravelsKept
  <1>9. Elements(chan[c].inbox) = Elements(chan'[c].inbox) \cup {m}
    BY <1>0, <1>1, ChannelTypes, SeqElements
  <1>10. \A e, p, n : Arrived(e, p, n) <=> Arrived(e, p, n)' \/ (e = g /\ p = q /\ n = m)
    <2>0. \A e, p : BelongsTo(c, e, p) <=> e = g /\ p = q
      BY <1>6 DEF BelongsTo
    <2>1. \A n : n \in Elements(chan[c].inbox) <=> n \in Elements(chan'[c].inbox) \/ n = m
      BY <1>9
    <2>2. \A d \in 1..Created : d # c => Elements(chan'[d].inbox) = Elements(chan[d].inbox)
      BY <1>1
    <2>3. \A d \in 1..Created : \A e, p : BelongsTo(d, e, p)' <=> BelongsTo(d, e, p)
      BY <1>1, BelongsStays
    <2> TAKE e, p, n
    <2>4. Arrived(e, p, n)' <=>
            \E d \in 1..Created : BelongsTo(d, e, p) /\ n \in Elements(chan'[d].inbox)
      BY <1>1, <2>3, Zenon DEF Arrived, Elements
    <2>5. ASSUME Arrived(e, p, n)
          PROVE  Arrived(e, p, n)' \/ (e = g /\ p = q /\ n = m)
      <3>1. PICK d \in 1..Created : BelongsTo(d, e, p) /\ n \in Elements(chan[d].inbox)
        BY <2>5 DEF Arrived
      <3> QED
        BY <2>0, <2>1, <2>2, <2>4, <3>1
    <2>6. ASSUME Arrived(e, p, n)'
          PROVE  Arrived(e, p, n)
      <3>1. PICK d \in 1..Created : BelongsTo(d, e, p) /\ n \in Elements(chan'[d].inbox)
        BY <2>4, <2>6
      <3>2. n \in Elements(chan[d].inbox)
        BY <2>1, <2>2, <3>1
      <3> QED
        BY <3>1, <3>2 DEF Arrived
    <2>7. e = g /\ p = q /\ n = m => Arrived(e, p, n)
      BY <2>0, <2>1 DEF Arrived
    <2> QED
      BY <2>5, <2>6, <2>7
  <1>11. \A e \in Ends, p \in Ports : m \notin InFlight(e, p)'
    <2> TAKE e \in Ends, p \in Ports
    <2>1. m \in sent /\ FlightUnderWay'
      BY <1>3, FlightNextIs DEF Takes
    <2>2. m \notin UnderWay'
      <3>1. m \in Elements(got')
        BY <1>3 DEF Takes
      <3>2. UnderWay' \cap Elements(got') = {}
        BY <2>1, Zenon DEF FlightUnderWay, Elements
      <3> QED
        BY <3>1, <3>2
    <2>3. ~Sending(e, p, m)
      BY <2>1 DEF Sending, GoroutinesInStep
    <2>4. ~Sending(e, p, m)'
      BY <1>8, <2>3 DEF SendingStays
    <2> QED
      BY <2>1, <2>2, <2>4 DEF FlightUnderWay
  <1>12. \A e \in Ends, p \in Ports : \A n :
           n \in InFlight(e, p) <=> n \in InFlight(e, p)' \/ (Peer(e) = g /\ p = q /\ n = m)
    <2> TAKE e \in Ends, p \in Ports
    <2> TAKE n
    <2>1. Peer(e) \in Ends
      BY PeerFacts
    <2>2. Queued(e, p, n)' <=> Queued(e, p, n)
      BY <1>8 DEF QueuedStays
    <2>3. Sending(e, p, n)' <=> Sending(e, p, n)
      BY <1>8 DEF SendingStays
    <2>4. Travels(Peer(e), Data(p, n))' <=> Travels(Peer(e), Data(p, n))
      BY <1>8, <2>1 DEF TravelsStays
    <2>5. Arrived(Peer(e), p, n) <=> Arrived(Peer(e), p, n)' \/ (Peer(e) = g /\ p = q /\ n = m)
      BY <1>10
    <2> QED
      BY <1>1, <2>2, <2>3, <2>4, <2>5, InFlightNow, InFlightNext
  <1>13. ASSUME NEW e \in Ends, NEW p \in Ports, Balanced(e, p)
         PROVE  Balanced(e, p)'
    <2>1. GivenBack(e, p)' = GivenBack(e, p) /\ Left(e, p)' = Left(e, p)
      BY <1>8 DEF BackStays, LeftStays
    <2>2. /\ Left(e, p) \in Int /\ Unread(e, p)' \in Nat /\ Peer(e) \in Ends
          /\ GivenBack(e, p) \in Nat /\ Owed(e, p) \in Nat
      BY AmountTypes, AmountTypesNext, PeerFacts
    <2>3. CASE Peer(e) = g /\ p = q
      <3>1. Owed(e, p)' = Owed(e, p) + Size[m]
        <4>1. chan[c].pending \in Nat
          BY ChannelTypes
        <4>2. Owed(e, p) = 0 + chan[c].pending
          BY <1>2, <1>7, <2>3 DEF Owed
        <4>3. Owed(e, p)' = Size[m] + chan[c].pending
          BY <1>2, <1>5, <1>7, <2>3 DEF Owed
        <4> QED
          BY <1>4, <4>1, <4>2, <4>3
      <3>2. InFlight(e, p) = InFlight(e, p)' \cup {m}
        BY <1>12, <2>3
      <3>3. Unread(e, p) = Unread(e, p)' + Size[m]
        <4>1. InFlight(e, p)' \in SUBSET Messages /\ m \in Messages \ InFlight(e, p)'
          BY <1>1, <1>11, UnreadIsSum
        <4>2. Total([n \in InFlight(e, p)' \cup {m} |-> Size[n]])
                = Total([n \in InFlight(e, p)' |-> Size[n]]) + Size[m]
          BY <4>1, SizesSum
        <4> QED
          BY <3>2, <4>2, UnreadIsSum
      <3> QED
        BY <1>4, <1>13, <2>1, <2>2, <3>1, <3>3 DEF Balanced
    <2>4. CASE ~(Peer(e) = g /\ p = q)
      <3>1. InFlight(e, p)' = InFlight(e, p)
        BY <1>12, <2>4
      <3>2. Unread(e, p)' = Unread(e, p)
        BY <3>1, UnreadIsSum
      <3>3. Owed(e, p)' = Owed(e, p)
        <4>1. table[Peer(e)][p] # c /\ (table[Peer(e)][p] = 0 \/ table[Peer(e)][p] \in 1..Created)
          BY <1>7, <2>2, <2>4, TablePlaces
        <4> QED
          BY <1>1, <1>2, <4>1 DEF Owed
      <3> QED
        BY <1>13, <2>1, <3>2, <3>3 DEF Balanced
    <2> QED
      BY <2>3, <2>4
  <1> QED
    BY <1>13 DEF BalanceStays


(* The reader keeps what it owes or gives all of it back.                  *)
LEMMA RecordSet ==
  ASSUME NEW ch \in Seq(Channels), NEW c \in 1..Len(ch), NEW t \in Channels,
         NEW s, s = [ch EXCEPT ![c] = t]
  PROVE  /\ s \in Seq(Channels) /\ Len(s) = Len(ch) /\ s[c] = t
         /\ \A d \in 1..Len(ch) : d # c => s[d] = ch[d]
  BY ExceptSeq

Counted(c, k, u) == \E s : s = [chan EXCEPT ![c].read = 0] /\ u = [s EXCEPT ![c].pending = k]
Settled(c, k, u) ==
  /\ u[c].read = 0 /\ u[c].pending = k
  /\ \A d \in 1..Created : d # c => u[d] = chan[d]

LEMMA CountersExact ==
  ASSUME TypeOK, NEW c \in 1..Created, NEW k \in Nat, NEW u, Counted(c, k, u)
  PROVE  Settled(c, k, u)
  <1>0. PICK s : s = [chan EXCEPT ![c].read = 0] /\ u = [s EXCEPT ![c].pending = k]
    BY Zenon DEF Counted
  <1>1. chan \in Seq(Channels) /\ c \in 1..Len(chan) /\ chan[c] \in Channels /\ 0 \in Nat
    BY ChannelTypes DEF TypeOK, Created
  <1>2. PICK r : r = [chan[c] EXCEPT !.read = 0]
    OBVIOUS
  <1>3. r \in Channels /\ r.read = 0
    <2>1. r \in Channels
      BY <1>1, <1>2, CounterForms
    <2>2. r.read = 0
      BY <1>1, <1>2 DEF Channels
    <2> QED
      BY <2>1, <2>2
  <1>4. s = [chan EXCEPT ![c] = r]
    BY <1>0, <1>2, Zenon
  <1>5. /\ s \in Seq(Channels) /\ Len(s) = Len(chan) /\ s[c] = r
        /\ \A d \in 1..Len(chan) : d # c => s[d] = chan[d]
    BY <1>1, <1>3, <1>4, RecordSet
  <1>6. PICK t : t = [r EXCEPT !.pending = k]
    OBVIOUS
  <1>7. t \in Channels /\ t.read = 0 /\ t.pending = k
    <2>1. t \in Channels
      BY <1>3, <1>6, CounterForms
    <2>2. t.read = 0 /\ t.pending = k
      BY <1>3, <1>6 DEF Channels
    <2> QED
      BY <2>1, <2>2
  <1>8. u = [s EXCEPT ![c] = t] /\ c \in 1..Len(s)
    <2>1. u = [s EXCEPT ![c] = [s[c] EXCEPT !.pending = k]]
      BY <1>0, Zenon
    <2> QED
      BY <1>1, <1>5, <1>6, <2>1
  <1>9. u[c] = t /\ \A d \in 1..Len(s) : d # c => u[d] = s[d]
    BY <1>5, <1>7, <1>8, RecordSet
  <1> QED
    BY <1>5, <1>7, <1>9 DEF Created, Settled

LEMMA UpdateExact ==
  ASSUME TypeOK, OpenIsListed, CloseIsEnd, ~ended, NEW c \in 1..Created, SendWindowUpdate(c)
  PROVE  LET n == chan[c].pending + chan[c].read IN
         /\ n \in Nat
         /\ \/ Settled(c, n, chan') /\ wire' = wire
            \/ /\ Settled(c, 0, chan')
               /\ wire' = Written(chan[c].at, Update(chan[c].port, n))
  <1>1. /\ c # 0 /\ table[chan[c].at][chan[c].port] = c /\ chan[c].at \in Ends
        /\ up[chan[c].at]
    BY ListedHere, ChannelTypes DEF CloseIsEnd
  <1>2. PICK n : n = chan[c].pending + chan[c].read
    OBVIOUS
  <1>3. n \in Nat /\ 0 \in Nat
    BY <1>2, ChannelTypes
  <1>4. PICK cleared : cleared = [chan EXCEPT ![c].read = 0]
    OBVIOUS
  <1>5. \/ chan' = [cleared EXCEPT ![c].pending = n] /\ wire' = wire
        \/ /\ chan' = [cleared EXCEPT ![c].pending = 0]
           /\ wire' = Written(chan[c].at, Update(chan[c].port, n))
    BY <1>1, <1>2, <1>4, Zenon DEF SendWindowUpdate, PendingAfter
  <1>6. \/ Counted(c, n, chan') /\ wire' = wire
        \/ Counted(c, 0, chan') /\ wire' = Written(chan[c].at, Update(chan[c].port, n))
    BY <1>4, <1>5, Zenon DEF Counted
  <1>7. \/ Settled(c, n, chan') /\ wire' = wire
        \/ Settled(c, 0, chan') /\ wire' = Written(chan[c].at, Update(chan[c].port, n))
    BY <1>3, <1>6, CountersExact, Zenon
  <1> QED
    BY <1>2, <1>3, <1>7, Zenon

LEMMA GiveBackBalance ==
  ASSUME TypeOK, OpenIsListed, GoroutinesInStep, CloseIsEnd, ~ended,
         NEW c \in 1..Created, SendWindowUpdate(c)
  PROVE  BalanceStays
  <1>a. PICK n : n = chan[c].pending + chan[c].read
    OBVIOUS
  <1>b. PICK g \in Ends, q \in Ports : g = chan[c].at /\ q = chan[c].port
    BY ChannelTypes
  <1>0. n = chan[c].pending + chan[c].read /\ g = chan[c].at /\ q = chan[c].port
    BY <1>a, <1>b
  <1>1. /\ n \in Nat /\ chan'[c].read = 0
        /\ \A d \in 1..Created : d # c => chan'[d] = chan[d]
        /\ \/ chan'[c].pending = n /\ wire' = wire
           \/ chan'[c].pending = 0 /\ wire' = Written(g, Update(q, n))
    <2>1. /\ n \in Nat
          /\ \/ Settled(c, n, chan') /\ wire' = wire
             \/ Settled(c, 0, chan') /\ wire' = Written(g, Update(q, n))
      BY <1>0, UpdateExact, Zenon
    <2> QED
      BY <2>1, Zenon DEF Settled
  <1>2. UNCHANGED <<table, held, sender>>
    BY DEF SendWindowUpdate, senderVars
  <1>3. /\ Created' = Created /\ Created \in Nat /\ chan' \in Seq(Channels)
        /\ \A d \in 1..Created :
             /\ chan'[d].at = chan[d].at /\ chan'[d].port = chan[d].port
             /\ chan'[d].queue = chan[d].queue /\ chan'[d].inbox = chan[d].inbox
             /\ chan'[d].window = chan[d].window
    BY UpdateCounts, ChannelTypes DEF CountersOnly
  <1>4. Steady
    BY <1>3 DEF Steady
  <1>5. LeftStays /\ SendingStays /\ QueuedStays /\ ArrivedStays
    BY <1>2, <1>3, <1>4, LeftKept, SendingKept, QueuedKept, ArrivedKept
  <1>6. /\ c # 0 /\ table[g][q] = c
        /\ \A e \in Ends, p \in Ports : table[e][p] = c => e = g /\ p = q
    BY <1>0, ListedHere
  <1>7. Update(q, n) \in WireFrames /\ up[Peer(g)] /\ Peer(g) \in Ends
    BY <1>1, FrameTypes, PeerFacts DEF WireFrames, CloseIsEnd
  <1>8. /\ \A p, m : Data(p, m) # Update(q, n)
        /\ Update(q, n).n = n /\ \A p : IsFor(Update(q, n), p) <=> p = q
    BY DEF Data, Update, IsFor
  <1>9. TravelsStays
    <2>1. CASE wire' = wire
      BY <1>2, <2>1, TravelsKept
    <2>2. CASE wire' = Written(g, Update(q, n))
      <3>1. \A e \in Ends : \A h :
              Travels(e, h)' <=> Travels(e, h) \/ (e = Peer(g) /\ h = Update(q, n))
        BY <1>2, <1>7, <2>2, WrittenTravels
      <3>2. ASSUME NEW e \in Ends, NEW p, NEW m
            PROVE  Travels(e, Data(p, m))' <=> Travels(e, Data(p, m))
        <4>1. PICK h : h = Data(p, m)
          OBVIOUS
        <4>2. Travels(e, h)' <=> Travels(e, h)
          BY <1>8, <3>1, <4>1
        <4>3. Data(p, m)' = Data(p, m)
          BY DEF Data
        <4> QED
          BY <4>1, <4>2, <4>3, Zenon DEF Travels
      <3> QED
        BY <3>2 DEF TravelsStays
    <2> QED
      BY <1>1, <2>1, <2>2
  <1>10. UnreadStays
    BY <1>5, <1>9, UnreadKept
  <1>11. ASSUME NEW e \in Ends, NEW p \in Ports, Balanced(e, p)
         PROVE  Balanced(e, p)'
    <2>1. Unread(e, p)' = Unread(e, p) /\ Left(e, p)' = Left(e, p)
      BY <1>5, <1>10 DEF UnreadStays, LeftStays
    <2>2. /\ Left(e, p) \in Int /\ Unread(e, p) \in Nat /\ Peer(e) \in Ends
          /\ GivenBack(e, p) \in Nat /\ Owed(e, p) \in Nat
      BY AmountTypes, PeerFacts
    <2>3. wire' = wire => GivenBack(e, p)' = GivenBack(e, p)
      BY BackKept DEF BackStays
    <2>4. wire' = Written(g, Update(q, n)) =>
            GivenBack(e, p)' = GivenBack(e, p) + (IF e = Peer(g) /\ p = q THEN n ELSE 0)
      BY <1>2, <1>7, <1>8, WrittenTravels
    <2>5. e = Peer(g) <=> Peer(e) = g
      BY PeerFacts
    <2>6. CASE Peer(e) = g /\ p = q
      <3>1. Owed(e, p) = n
        <4>1. chan[c].pending \in Nat /\ chan[c].read \in Nat
          BY ChannelTypes
        <4>2. Owed(e, p) = chan[c].read + chan[c].pending
          BY <1>6, <2>6 DEF Owed
        <4> QED
          BY <1>0, <4>1, <4>2
      <3>2. Owed(e, p)' = 0 + chan'[c].pending
        BY <1>1, <1>2, <1>6, <2>6 DEF Owed
      <3>3. CASE chan'[c].pending = n /\ wire' = wire
        BY <1>1, <1>11, <2>1, <2>2, <2>3, <3>1, <3>2, <3>3 DEF Balanced
      <3>4. CASE chan'[c].pending = 0 /\ wire' = Written(g, Update(q, n))
        BY <1>1, <1>11, <2>1, <2>2, <2>4, <2>5, <2>6, <3>1, <3>2, <3>4 DEF Balanced
      <3> QED
        BY <1>1, <3>3, <3>4
    <2>7. CASE ~(Peer(e) = g /\ p = q)
      <3>1. GivenBack(e, p)' = GivenBack(e, p)
        BY <1>1, <2>2, <2>3, <2>4, <2>5, <2>7
      <3>2. Owed(e, p)' = Owed(e, p)
        <4>1. table[Peer(e)][p] # c /\ (table[Peer(e)][p] = 0 \/ table[Peer(e)][p] \in 1..Created)
          BY <1>6, <2>2, <2>7, TablePlaces
        <4> QED
          BY <1>1, <1>2, <4>1 DEF Owed
      <3> QED
        BY <1>11, <2>1, <3>1, <3>2 DEF Balanced
    <2> QED
      BY <2>6, <2>7
  <1> QED
    BY <1>11 DEF BalanceStays

(* The steps of Send that move no amount.                                  *)
LEMMA QuietSend ==
  ASSUME TypeOK, GoroutinesInStep, CloseIsEnd, ~ended, NEW s \in Senders,
         Send(s) \/ SendSeesWindow(s) \/ SendNotifies(s) \/ SendFails(s)
  PROVE  BalanceStays
  <1>1. UNCHANGED <<table, chan, wire, held>>
    BY DEF Send, SendSeesWindow, SendNotifies, SendFails
  <1>2. Steady /\ Created' = Created
    BY <1>1, SameChannels
  <1>3. ASSUME sender[s].pc # "enqueue", sender'[s].pc # "enqueue",
               \A t \in Senders : t # s => sender'[t] = sender[t]
        PROVE  BalanceStays
    BY <1>1, <1>3, QuietBalance
  <1>4. CASE Send(s)
    <2>1. /\ sender[s].pc = "idle"
          /\ sender' = [sender EXCEPT ![s] = [pc |-> "window", ch |-> table[At[s]][PortOf[s]],
                                              msg |-> offered + 1]]
      BY <1>4, Zenon DEF Send
    <2>2. sender'[s].pc = "window" /\ \A t \in Senders : t # s => sender'[t] = sender[t]
      BY <2>1 DEF TypeOK
    <2> QED
      BY <1>3, <2>1, <2>2
  <1>5. CASE SendSeesWindow(s)
    <2>1. sender[s].pc = "window" /\ SenderAt(s, "take")
      BY <1>5 DEF SendSeesWindow, SenderAt
    <2>2. /\ sender'[s] = [pc |-> "take", ch |-> sender[s].ch, msg |-> sender[s].msg]
          /\ \A t \in Senders : t # s => sender'[t] = sender[t]
      BY <1>2, <2>1, SenderMoves
    <2>3. sender'[s].pc = "take"
      BY <2>2
    <2> QED
      BY <1>3, <2>1, <2>2, <2>3
  <1>6. CASE SendNotifies(s)
    <2>1. sender[s].pc = "notify" /\ sender' = [sender EXCEPT ![s] = Idle]
      BY <1>6 DEF SendNotifies
    <2>2. sender'[s] = Idle /\ \A t \in Senders : t # s => sender'[t] = sender[t]
      BY <1>2, <2>1, SenderEnds
    <2>3. sender'[s].pc = "idle"
      BY <2>2 DEF Idle
    <2> QED
      BY <1>3, <2>1, <2>2, <2>3
  <1>7. ~SendFails(s)
    <2>1. sender[s].pc # "idle" => ~chan[sender[s].ch].shut /\ up[At[s]]
      BY SendersHold, EndsAssumption DEF CloseIsEnd
    <2> QED
      BY <2>1 DEF SendFails
  <1> QED
    BY <1>4, <1>5, <1>6, <1>7

(* No step changes the sum of the amounts, until something is closed.      *)
LEMMA NextBalance ==
  ASSUME TypeOK, OpenIsListed, GoroutinesInStep, WorkersInStep, CloseIsEnd, PortsInStep, OnePlace,
         Next, ~ended'
  PROVE  BalanceStays
  <1>1. ~ended /\ TypeOK'
    BY QuietSteps, NextTypes
  <1>2. /\ \A e \in Ends : up[e] /\ ctrl[e] = <<>>
        /\ \A e \in Ends : \A j \in held[e] : j.frame.type # "close"
    BY <1>1 DEF CloseIsEnd
  <1>3. CASE \E e \in Ends \ Creators, p \in Ports : OpenChannel(e, p)
    BY <1>3, OpenBalance
  <1>4. ~(\E e \in Closers, p \in Ports : CloseChannel(e, p)) /\ ~(\E e \in Closers : Close(e))
    BY DEF CloseChannel, Close
  <1>5. CASE \E e \in Ends : Writer(e)
    <2>1. PICK e \in Ends : Writer(e)
      BY <1>5
    <2>2. CASE WriterRound(e) \/ WriterWakes(e)
      <3>1. UNCHANGED <<table, chan, wire, held, sender>>
        BY <1>2, <2>2 DEF WriterRound, WriterWakes, senderVars
      <3> QED
        BY <3>1, QuietBalance
    <2>3. ~WriterStops(e) /\ ~WriterWaitCtrl(e)
      BY <1>2 DEF WriterStops, WriterWaitCtrl
    <2>4. CASE \E c \in 1..Created : WriterData(e, c)
      BY <1>1, <2>4, DataBalance
    <2> QED
      BY <2>1, <2>2, <2>3, <2>4 DEF Writer
  <1>6. ~(\E e \in Ends : ReadEnds(e))
    BY <1>2, PeerFacts DEF ReadEnds
  <1>7. CASE \E e \in Ends : WorkerTakes(e)
    BY <1>7, TakeBalance
  <1>8. CASE \E e \in Ends : HandleWindowUpdate(e)
    BY <1>8, UpdateBalance
  <1>9. CASE \E e \in Ends, n \in Frames : Dispatch(e, n)
    <2>0. PICK e \in Ends : \E n \in Frames : Dispatch(e, n)
      BY <1>9
    <2>1. PICK j \in held[e] :
            DispatchData(e, j) \/ DispatchDelivers(e, j) \/ DispatchClose(e, j)
      BY <2>0 DEF Dispatch
    <2>2. ~DispatchClose(e, j)
      BY <1>2 DEF DispatchClose
    <2> QED
      BY <1>1, <2>1, <2>2, DispatchBalance, DeliverBalance
  <1>10. CASE \E s \in Senders : Send(s) \/ SendStep(s)
    <2>1. PICK s \in Senders : Send(s) \/ SendStep(s)
      BY <1>10
    <2>2. CASE SendTakesWindow(s)
      BY <1>1, <2>2, WindowBalance
    <2>3. CASE SendEnqueues(s)
      BY <2>3, EnqueueBalance
    <2>4. CASE Send(s) \/ SendSeesWindow(s) \/ SendNotifies(s) \/ SendFails(s)
      BY <1>1, <2>4, QuietSend
    <2> QED
      BY <2>1, <2>2, <2>3, <2>4 DEF SendStep
  <1>11. CASE \E c \in 1..Created : ReceiveStep(c)
    BY <1>1, <1>11, ReadBalance, GiveBackBalance DEF ReceiveStep
  <1> QED
    BY <1>3, <1>4, <1>5, <1>6, <1>7, <1>8, <1>9, <1>10, <1>11 DEF Next

LEMMA InitialBalance ==
  ASSUME Init
  PROVE  WindowConserved
  <1>1. Created = 0 /\ 1..Created = {}
    BY EmptySeq DEF Init, Created
  <1>2. /\ \A e \in Ends : wire[e] = <<>> /\ held[e] = {}
        /\ \A e \in Ends, p \in Ports : table[e][p] = 0
        /\ \A s \in Senders : sender[s].pc = "idle"
    BY DEF Init, Idle
  <1>3. Elements(<<>>) = {} /\ DOMAIN <<>> = {}
    BY NothingInEmpty, EmptySeq, LenProperties
  <1>4. \A f : DOMAIN f = {} => Total(f) = 0
    BY FS_EmptySet DEF Total, Units
  <1>5. ASSUME NEW e \in Ends, NEW p \in Ports
        PROVE  Balanced(e, p)
    <2>1. Peer(e) \in Ends
      BY PeerFacts
    <2>2. Left(e, p) = Window /\ Owed(e, p) = 0
      BY <1>2, <2>1 DEF Left, Owed
    <2>3. Unread(e, p) = 0
      <3>1. \A m : ~Sending(e, p, m) /\ ~Queued(e, p, m) /\ ~Arrived(Peer(e), p, m)
        BY <1>1, <1>2 DEF Sending, Queued, Arrived
      <3>2. \A m : ~Travels(Peer(e), Data(p, m))
        BY <1>2, <1>3, <2>1 DEF Travels
      <3>3. InFlight(e, p) = {}
        BY <3>1, <3>2, InFlightNow
      <3> QED
        BY <1>4, <3>3 DEF Unread
    <2>4. GivenBack(e, p) = 0
      <3>1. UpdatesFor(e, p) = {}
        BY <1>2, <1>3 DEF UpdatesFor
      <3> QED
        BY <1>4, <3>1 DEF GivenBack
    <2> QED
      BY <2>2, <2>3, <2>4, WindowAssumption DEF Balanced
  <1> QED
    BY <1>5 DEF WindowConserved, Balanced

(* Window is neither lost nor made (mux.go: Send, Channel.Read,            *)
(* SendWindowUpdate, handleWindowUpdate): until something is closed, what  *)
(* the senders of a port may still send, what is on its way or unread, the *)
(* updates on the wire and what the reader has yet to give back add up to  *)
(* windowSize, in both directions of every port, for any number of senders *)
(* and workers, any sizes of the messages and any threshold.               *)
THEOREM WindowIsConserved == Spec => []WindowConserved
  <1>1. Init => WindowConserved
    BY InitialBalance
  <1>2. WindowConserved /\ Core /\ [Next]_vars => WindowConserved'
    <2> SUFFICES ASSUME WindowConserved, Core, [Next]_vars, ~ended'
                 PROVE  \A e \in Ends, p \in Ports : Balanced(e, p)'
      BY DEF WindowConserved, Balanced
    <2>1. CASE Next
      <3>1. /\ TypeOK /\ OpenIsListed /\ GoroutinesInStep /\ WorkersInStep
            /\ CloseIsEnd /\ PortsInStep /\ OnePlace
        BY DEF Core
      <3>2. BalanceStays /\ ~ended
        BY <2>1, <3>1, NextBalance, QuietSteps
      <3> QED
        BY <3>2 DEF BalanceStays, WindowConserved, Balanced
    <2>2. CASE UNCHANGED vars
      <3>1. TypeOK /\ GoroutinesInStep
        BY DEF Core
      <3>2. BalanceStays /\ ~ended
        BY <2>2, <3>1, QuietBalance DEF vars
      <3> QED
        BY <3>2 DEF BalanceStays, WindowConserved, Balanced
    <2> QED
      BY <2>1, <2>2
  <1> QED
    BY <1>1, <1>2, CoreInvariant, PTL DEF Spec
=============================================================================
