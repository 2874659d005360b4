--------------------------- MODULE StartUpProofs ---------------------------
(***************************************************************************)
(* The start-up of the program, for any files, mails, servers, NATs,       *)
(* losses and late replies.                                                *)
(*                                                                         *)
(* StartInv says why a NAT is not taken for too open.  In the first test   *)
(* no other IP is sent to until the third step, and of the server's own    *)
(* only the address of the key: so what passes a NAT that restricts ports  *)
(* has not come from where a change request lets the reply come from.  In  *)
(* later tests, when every key so far is at port 3478, all holes towards   *)
(* STUN servers are at that port, and a reply that counts comes from       *)
(* another.  FileRight, for KeysKept, follows the lines of tknet.info into *)
(* the cache.                                                              *)
(***************************************************************************)
EXTENDS StartUp, Lemmas, FiniteSetTheorems

------------------------------------------------------------------------------
(* KeyInfo: the places of the cache.                                       *)

LEMMA FirstPlace ==
  ASSUME NEW N \in Nat, NEW I, I \subseteq 1..N, I # {}
  PROVE  Min(I) \in I
<1>1. PICK x \in I : \A y \in I : x <= y
  BY LeastOf, I \subseteq Nat
<1> QED BY <1>1 DEF Min

LEMMA LastPlace ==
  ASSUME NEW N \in Nat, NEW I, I \subseteq 1..N, I # {}
  PROVE  Max(I) \in I
<1>1. PICK x \in I : \A y \in I : y <= x
  BY GreatestOf, I \subseteq 0..N
<1> QED BY <1>1 DEF Max

Caches == [keys : Seq(Key), numbers : Nat]
Places(c) == 1..Len(c.keys)

\* k and l are not of one address, unless one of them has counted on to it.
Apart(k, l) == k.addr = l.addr => k.type = "CONFIG" \/ l.type = "CONFIG"

\* A number is that of one key, and so is an address, but for those of CONFIG
\* keys, which alone count on from the address of their text.
Told(c) ==
  /\ \A i \in Places(c) : c.keys[i].num < c.numbers
  /\ \A i, j \in Places(c) : i # j => c.keys[i].num # c.keys[j].num /\ Apart(c.keys[i], c.keys[j])
  /\ \A i \in Places(c) : c.keys[i].type # "CONFIG" => c.keys[i].addr = c.keys[i].text

LEMMA KeysAre ==
  ASSUME NEW c \in Caches
  PROVE  /\ DOMAIN c.keys = Places(c) /\ Len(c.keys) \in Nat /\ c.numbers \in Nat /\ c.keys \in Seq(Key)
         /\ \A i \in Places(c) : /\ c.keys[i] \in Key /\ c.keys[i].num \in Nat /\ c.keys[i].type \in KeyType
                                 /\ c.keys[i].addr \in NetAddr /\ c.keys[i].text \in NetAddr
                                 /\ c.keys[i].valid \in Valid
<1>1. c.keys \in Seq(Key) /\ c.numbers \in Nat
  BY DEF Caches
<1>2. \A i \in 1..Len(c.keys) : c.keys[i] \in Key
  BY <1>1, ElementOfSeq
<1> QED BY <1>1, <1>2, LenProperties DEF Places, Key

LEMMA FoundByNum ==
  ASSUME NEW c \in Caches, NEW n
  PROVE  /\ FindKeyInfoByNum(c, n) \in Places(c) \cup {0}
         /\ FindKeyInfoByNum(c, n) # 0 => c.keys[FindKeyInfoByNum(c, n)].num = n
         /\ FindKeyInfoByNum(c, n) = 0 => \A i \in Places(c) : c.keys[i].num # n
<1> DEFINE I == {i \in 1..Len(c.keys) : c.keys[i].num = n}
<1>1. I # {} => Min(I) \in I
  BY KeysAre, FirstPlace, I \subseteq 1..Len(c.keys)
<1>2. FindKeyInfoByNum(c, n) = IF I # {} THEN Min(I) ELSE 0
  BY DEF FindKeyInfoByNum, SelectInSeq
<1>3. \A i \in Places(c) : i # 0
  BY DEF Places
<1> QED BY <1>1, <1>2, <1>3 DEF Places

LEMMA FoundByAddr ==
  ASSUME NEW c \in Caches, NEW a
  PROVE  /\ FindKeyInfoByAddr(c, a) \in Places(c) \cup {0}
         /\ FindKeyInfoByAddr(c, a) # 0 => c.keys[FindKeyInfoByAddr(c, a)].addr = a
         /\ FindKeyInfoByAddr(c, a) = 0 => \A i \in Places(c) : c.keys[i].addr # a
<1> DEFINE I == {i \in 1..Len(c.keys) : c.keys[i].addr = a}
<1>1. I # {} => Min(I) \in I
  BY KeysAre, FirstPlace, I \subseteq 1..Len(c.keys)
<1>2. FindKeyInfoByAddr(c, a) = IF I # {} THEN Min(I) ELSE 0
  BY DEF FindKeyInfoByAddr, SelectInSeq
<1>3. \A i \in Places(c) : i # 0
  BY DEF Places
<1> QED BY <1>1, <1>2, <1>3 DEF Places

LEMMA FoundOf ==
  ASSUME NEW c \in Caches, NEW ty, NEW v
  PROVE  /\ FindOf(c, ty, v) \in Places(c) \cup {0}
         /\ FindOf(c, ty, v) # 0 => c.keys[FindOf(c, ty, v)].type = ty /\ c.keys[FindOf(c, ty, v)].valid = v
         /\ FindOf(c, ty, v) = 0 <=> \A i \in Places(c) : ~(c.keys[i].type = ty /\ c.keys[i].valid = v)
<1> DEFINE I == {i \in 1..Len(c.keys) : c.keys[i].type = ty /\ c.keys[i].valid = v}
<1>1. I # {} => Min(I) \in I
  BY KeysAre, FirstPlace, I \subseteq 1..Len(c.keys)
<1>2. FindOf(c, ty, v) = IF I # {} THEN Min(I) ELSE 0
  BY DEF FindOf, SelectInSeq
<1>3. \A i \in Places(c) : i # 0
  BY DEF Places
<1> QED BY <1>1, <1>2, <1>3 DEF Places

LEMMA LastOfIs ==
  ASSUME NEW c \in Caches, NEW ty, NEW v
  PROVE  /\ LastOf(c, ty, v) \in Places(c) \cup {0}
         /\ LastOf(c, ty, v) # 0 => c.keys[LastOf(c, ty, v)].type = ty
         /\ LastOf(c, ty, v) = 0 <=> \A i \in Places(c) : ~(c.keys[i].type = ty /\ c.keys[i].valid = v)
<1> DEFINE I == {i \in 1..Len(c.keys) : c.keys[i].type = ty /\ c.keys[i].valid = v}
<1>1. I # {} => Max(I) \in I
  BY KeysAre, LastPlace, I \subseteq 1..Len(c.keys)
<1>2. LastOf(c, ty, v) = IF I # {} THEN Max(I) ELSE 0
  BY DEF LastOf, SelectLastInSeq
<1>3. \A i \in Places(c) : i # 0
  BY DEF Places
<1> QED BY <1>1, <1>2, <1>3 DEF Places

LEMMA FoundByType ==
  ASSUME NEW c \in Caches, NEW ty
  PROVE  /\ KeyInfoFindByType(c, ty) \in Places(c) \cup {0}
         /\ KeyInfoFindByType(c, ty) # 0 => c.keys[KeyInfoFindByType(c, ty)].type = ty
<1> DEFINE I == {i \in 1..Len(c.keys) : c.keys[i].type = ty}
<1>1. I # {} => Min(I) \in I
  BY KeysAre, FirstPlace, I \subseteq 1..Len(c.keys)
<1>2. KeyInfoFindByType(c, ty) = IF I # {} THEN Min(I) ELSE 0
  BY DEF KeyInfoFindByType, SelectInSeq
<1> QED BY <1>1, <1>2 DEF Places

LEMMA KeysSet ==
  ASSUME NEW c \in Caches, NEW ks
  PROVE  [c EXCEPT !.keys = ks] = [keys |-> ks, numbers |-> c.numbers]
BY DEF Caches

\* What is in both caches, place by place, is the same but for its mark.
SameKey(k, l) == k.num = l.num /\ k.type = l.type /\ k.text = l.text /\ k.addr = l.addr

IsMarked(c, d, i, v) ==
  /\ d \in Caches /\ Told(d) /\ d.numbers = c.numbers /\ Places(d) = Places(c)
  /\ \A j \in Places(c) : /\ SameKey(d.keys[j], c.keys[j])
                          /\ d.keys[j].valid = IF j = i THEN v ELSE c.keys[j].valid

LEMMA MarkedOne ==
  ASSUME NEW c \in Caches, Told(c), NEW i \in Places(c), NEW v \in Valid
  PROVE  IsMarked(c, Marked(c, i, v), i, v)
<1> DEFINE k == [c.keys[i] EXCEPT !.valid = v]
           ks == [c.keys EXCEPT ![i] = k]
           d == Marked(c, i, v)
<1>1. c.keys[i] \in Key /\ c.keys \in Seq(Key) /\ Len(c.keys) \in Nat /\ c.numbers \in Nat
  BY KeysAre
<1>2. k \in Key /\ SameKey(k, c.keys[i]) /\ k.valid = v
  <2> DEFINE o == c.keys[i]
  <2>1. o \in Key
    BY <1>1
  <2> HIDE DEF o
  <2>2. [o EXCEPT !.valid = v] = [type |-> o.type, text |-> o.text, addr |-> o.addr, valid |-> v, num |-> o.num]
    BY <2>1 DEF Key
  <2> QED BY <2>1, <2>2 DEF Key, SameKey, o
<1> HIDE DEF k
<1>3. ks \in Seq(Key) /\ Len(ks) = Len(c.keys) /\ \A j \in Places(c) : ks[j] = IF j = i THEN k ELSE c.keys[j]
  BY <1>1, <1>2 DEF Places
<1>4. d = [keys |-> ks, numbers |-> c.numbers]
  <2>1. d = [c EXCEPT !.keys = ks]
    BY DEF Marked, k
  <2> HIDE DEF d, ks
  <2> QED BY <2>1, KeysSet
<1> HIDE DEF ks, d
<1>5. d \in Caches /\ d.numbers = c.numbers /\ Places(d) = Places(c) /\ d.keys = ks
  BY <1>1, <1>3, <1>4 DEF Caches, Places
<1>6. \A j \in Places(c) : /\ SameKey(d.keys[j], c.keys[j])
                           /\ d.keys[j].valid = IF j = i THEN v ELSE c.keys[j].valid
  BY <1>2, <1>3, <1>5 DEF SameKey
<1>7. Told(d)
  BY <1>5, <1>6 DEF Told, SameKey, Apart
<1> QED BY <1>5, <1>6, <1>7 DEF IsMarked, d

LEMMA ModIn == \A n \in Nat \ {0} : \A i \in Int : i % n \in 0..(n - 1)
OBVIOUS

LEMMA ModOf == \A n \in Nat \ {0} : \A i \in 0..(n - 1) : i % n = i
OBVIOUS

LEMMA PortAfterIs ==
  ASSUME NEW a \in NetAddr, NEW n \in Nat
  PROVE  PortAfter(a, n) \in NetAddr /\ PortAfter(a, n).ip = a.ip /\ PortAfter(a, 0) = a
<1>1. PortSize \in Nat \ {0}
  BY DEF PortSize
<1>2. a.port \in 0..(PortSize - 1) /\ a.ip \in IPs /\ a = [ip |-> a.ip, port |-> a.port]
  BY DEF NetAddr, Ports
<1>3. \A m \in Nat : (a.port + m) % PortSize \in 0..(PortSize - 1)
  <2>1. \A m \in Nat : a.port + m \in Int
    BY <1>1, <1>2
  <2> QED BY <1>1, <2>1, ModIn
<1>4. \A m : PortAfter(a, m) = [ip |-> a.ip, port |-> (a.port + m) % PortSize]
  BY DEF PortAfter, NetAddr
<1>5. PortAfter(a, 0) = a
  <2>1. a.port + 0 = a.port
    BY <1>1, <1>2
  <2>2. (a.port + 0) % PortSize = a.port
    BY <1>1, <1>2, <2>1, ModOf
  <2> QED BY <1>2, <1>4, <2>2
<1>6. PortAfter(a, n).ip = a.ip /\ PortAfter(a, n) \in NetAddr
  <2>1. PortAfter(a, n) = [ip |-> a.ip, port |-> (a.port + n) % PortSize]
        /\ (a.port + n) % PortSize \in Ports
    BY <1>3, <1>4 DEF Ports
  <2> QED BY <1>2, <2>1 DEF NetAddr
<1> QED BY <1>5, <1>6

IsBound(c, d, i, n) ==
  /\ d \in Caches /\ Told(d) /\ d.numbers = c.numbers /\ Places(d) = Places(c)
  /\ \A j \in Places(c) : /\ d.keys[j].num = c.keys[j].num /\ LineOf(d.keys[j]) = LineOf(c.keys[j])
                          /\ d.keys[j].type = c.keys[j].type /\ d.keys[j].text = c.keys[j].text
                          /\ j # i => d.keys[j] = c.keys[j]
  /\ d.keys[i].addr = PortAfter(c.keys[i].addr, n) /\ d.keys[i].valid = "NOT"

LEMMA BoundOne ==
  ASSUME NEW c \in Caches, Told(c), NEW i \in Places(c), c.keys[i].type = "CONFIG", NEW n \in Nat
  PROVE  IsBound(c, Bound(c, i, n), i, n)
<1> DEFINE o == c.keys[i]
           a == PortAfter(o.addr, n)
           b == [o EXCEPT !.valid = "NOT"]
           k == [b EXCEPT !.addr = a]
           ks == [c.keys EXCEPT ![i] = k]
           d == Bound(c, i, n)
<1>1. /\ o \in Key /\ o.addr \in NetAddr /\ o.type = "CONFIG"
      /\ c.keys \in Seq(Key) /\ Len(c.keys) \in Nat /\ c.numbers \in Nat
  BY KeysAre
<1>2. a \in NetAddr
  BY <1>1, PortAfterIs
<1>3. d = [c EXCEPT !.keys = ks]
  <2> DEFINE e == Counted(o, n)
  <2>1. d = [c EXCEPT !.keys[i] = e]
    BY DEF Bound
  <2>2. e = k
    BY Zenon DEF Counted
  <2> HIDE DEF e, k
  <2>3. [c EXCEPT !.keys[i] = e] = [c EXCEPT !.keys = [c.keys EXCEPT ![i] = e]]
    OBVIOUS
  <2> QED BY <2>1, <2>2, <2>3
<1>a. a = PortAfter(c.keys[i].addr, n)
  OBVIOUS
<1>b. o = c.keys[i]
  OBVIOUS
<1> HIDE DEF o, a
<1>4. b = [type |-> o.type, text |-> o.text, addr |-> o.addr, valid |-> "NOT", num |-> o.num]
  BY <1>1 DEF Key
<1> HIDE DEF b
<1>5. k = [type |-> o.type, text |-> o.text, addr |-> a, valid |-> "NOT", num |-> o.num]
  BY <1>4
<1>6. /\ k \in Key /\ k.num = o.num /\ k.type = o.type /\ k.text = o.text
      /\ k.valid = "NOT" /\ k.addr = a
  BY <1>1, <1>2, <1>5 DEF Key, Valid
<1> HIDE DEF k
<1>7. ks \in Seq(Key) /\ Len(ks) = Len(c.keys) /\ \A j \in Places(c) : ks[j] = IF j = i THEN k ELSE c.keys[j]
  BY <1>1, <1>6 DEF Places
<1> HIDE DEF ks, d
<1>8. d = [keys |-> ks, numbers |-> c.numbers]
  BY <1>3, KeysSet
<1>9. d \in Caches /\ d.numbers = c.numbers /\ Places(d) = Places(c) /\ d.keys = ks
  BY <1>1, <1>7, <1>8 DEF Caches, Places
<1>10. d.keys[i] = k /\ \A j \in Places(c) : j # i => d.keys[j] = c.keys[j]
  BY <1>7, <1>9
<1>11. \A j \in Places(c) : /\ d.keys[j].num = c.keys[j].num
                             /\ d.keys[j].type = c.keys[j].type /\ d.keys[j].text = c.keys[j].text
  BY <1>b, <1>6, <1>10
<1>12. Told(d)
  <2>1. \A j, m \in Places(c) : j # m => d.keys[j].num # d.keys[m].num /\ Apart(d.keys[j], d.keys[m])
    BY <1>1, <1>6, <1>10, <1>11 DEF Told, Apart
  <2>2. \A j \in Places(c) : d.keys[j].num < d.numbers
    BY <1>9, <1>11 DEF Told
  <2>3. \A j \in Places(c) : d.keys[j].type # "CONFIG" => d.keys[j].addr = d.keys[j].text
    BY <1>1, <1>6, <1>10 DEF Told
  <2> QED BY <1>9, <2>1, <2>2, <2>3 DEF Told
<1>13. \A j \in Places(c) : LineOf(d.keys[j]) = LineOf(c.keys[j])
  BY <1>11 DEF LineOf
<1> QED BY <1>a, <1>6, <1>9, <1>10, <1>11, <1>12, <1>13 DEF IsBound, d

\* The key with the number n, if there is one, is the one that has worked.
LEMMA WorksFineMarks ==
  ASSUME NEW c \in Caches, Told(c), NEW n
  PROVE  LET d == KeyInfoWorksFine(c, n)
         IN  /\ d \in Caches /\ Told(d) /\ d.numbers = c.numbers /\ Places(d) = Places(c)
             /\ \A j \in Places(c) : SameKey(d.keys[j], c.keys[j])
<1> DEFINE i == FindKeyInfoByNum(c, n)
<1>1. CASE i = 0
  BY <1>1 DEF KeyInfoWorksFine, SameKey
<1>2. CASE i # 0
  <2>1. i \in Places(c)
    BY <1>2, FoundByNum
  <2>2. IsMarked(c, Marked(c, i, "WORKS"), i, "WORKS")
    BY <2>1, MarkedOne DEF Valid
  <2> QED BY <1>2, <2>2 DEF IsMarked, KeyInfoWorksFine
<1> QED BY <1>1, <1>2

IsInserted(c, d, line) ==
  /\ d \in Caches /\ Told(d) /\ Places(c) \subseteq Places(d) /\ c.numbers <= d.numbers
  /\ \A j \in Places(c) : d.keys[j] = c.keys[j]
  /\ \A j \in Places(d) \ Places(c) : /\ LineOf(d.keys[j]) = line /\ d.keys[j].num = c.numbers
                                      /\ d.keys[j].addr = d.keys[j].text
  /\ \E j \in Places(d) : d.keys[j].addr = line.addr

LEMMA InsertedLast ==
  ASSUME NEW c \in Caches, Told(c), NEW line \in KeyLine
  PROVE  IsInserted(c, KeyInfoInsert(c, line), line)
<1> DEFINE i == FindKeyInfoByAddr(c, line.addr)
           d == KeyInfoInsert(c, line)
<1>1. CASE i # 0
  <2>1. i \in Places(c) /\ c.keys[i].addr = line.addr
    BY <1>1, FoundByAddr
  <2>2. d = c /\ c.numbers \in Nat
    BY <1>1, KeysAre DEF KeyInfoInsert
  <2> QED BY <2>1, <2>2 DEF IsInserted
<1>2. CASE i = 0
  <2> DEFINE k == NewKeyInfo(line, c.numbers)
             ks == Append(c.keys, k)
  <2>1. /\ c.keys \in Seq(Key) /\ Len(c.keys) \in Nat /\ c.numbers \in Nat
        /\ \A j \in Places(c) : c.keys[j].addr # line.addr
        /\ \A j \in Places(c) : c.keys[j].num \in Nat
    BY <1>2, KeysAre, FoundByAddr
  <2>2. k \in Key /\ k.num = c.numbers /\ LineOf(k) = line /\ k.addr = line.addr /\ k.text = k.addr
    BY <2>1 DEF NewKeyInfo, Key, KeyLine, Valid, LineOf
  <2> HIDE DEF k
  <2>3. /\ ks \in Seq(Key) /\ Len(ks) = Len(c.keys) + 1
        /\ ks[Len(c.keys) + 1] = k /\ \A j \in Places(c) : ks[j] = c.keys[j]
    BY <2>1, <2>2, AppendProperties DEF Places
  <2>4. d = [keys |-> ks, numbers |-> c.numbers + 1]
    BY <1>2 DEF KeyInfoInsert, k
  <2> HIDE DEF ks, d
  <2>5. /\ d \in Caches /\ d.keys = ks /\ d.numbers = c.numbers + 1
        /\ Places(d) = Places(c) \cup {Len(c.keys) + 1} /\ Len(c.keys) + 1 \notin Places(c)
    BY <2>1, <2>3, <2>4 DEF Caches, Places
  <2>6. /\ \A j \in Places(c) : d.keys[j] = c.keys[j]
        /\ d.keys[Len(c.keys) + 1] = k
    BY <2>3, <2>5
  <2>7. Told(d)
    <3>1. \A j \in Places(c) : d.keys[j].num < d.numbers /\ d.keys[j].num < c.numbers /\ d.keys[j].num # k.num
      BY <2>1, <2>2, <2>5, <2>6 DEF Told
    <3>2. k.num < d.numbers
      BY <2>1, <2>2, <2>5
    <3>3. \A j, m \in Places(d) : j # m => d.keys[j].num # d.keys[m].num /\ Apart(d.keys[j], d.keys[m])
      BY <2>1, <2>2, <2>5, <2>6, <3>1 DEF Told, Apart
    <3>4. \A j \in Places(d) : d.keys[j].type # "CONFIG" => d.keys[j].addr = d.keys[j].text
      BY <2>2, <2>5, <2>6 DEF Told
    <3> QED BY <2>5, <2>6, <3>1, <3>2, <3>3, <3>4 DEF Told
  <2> QED BY <2>1, <2>2, <2>5, <2>6, <2>7 DEF IsInserted, d
<1> QED BY <1>1, <1>2

IsWithout(c, d, n) ==
  /\ d \in Caches /\ Told(d) /\ d.numbers = c.numbers
  /\ \A j \in Places(d) : \E i \in Places(c) : d.keys[j] = c.keys[i]
  /\ \A i \in Places(c) : c.keys[i].num # n => \E j \in Places(d) : d.keys[j] = c.keys[i]

LEMMA DeleTakesOne ==
  ASSUME NEW c \in Caches, Told(c), NEW n
  PROVE  IsWithout(c, KeyInfoDele(c, n), n)
<1> DEFINE i == FindKeyInfoByNum(c, n)
           d == KeyInfoDele(c, n)
<1>1. CASE i = 0
  BY <1>1 DEF KeyInfoDele, IsWithout
<1>2. CASE i # 0
  <2> DEFINE ks == RemoveAt(c.keys, i)
             at(j) == IF j < i THEN j ELSE j + 1
  <2>1. i \in Places(c) /\ c.keys[i].num = n /\ c.keys \in Seq(Key) /\ Len(c.keys) \in Nat /\ c.numbers \in Nat
    BY <1>2, FoundByNum, KeysAre
  <2>2. /\ ks \in Seq(Key) /\ Len(ks) = Len(c.keys) - 1
        /\ \A j \in 1..Len(c.keys) - 1 : ks[j] = IF j < i THEN c.keys[j] ELSE c.keys[j + 1]
    BY <2>1, RemoveAtPlaces DEF Places
  <2>3. d = [keys |-> ks, numbers |-> c.numbers]
    BY <1>2, KeysSet DEF KeyInfoDele
  <2> HIDE DEF ks, d, i
  <2>4. /\ d \in Caches /\ d.keys = ks /\ d.numbers = c.numbers
        /\ Places(d) = 1..Len(c.keys) - 1
    BY <2>1, <2>2, <2>3 DEF Caches, Places
  <2>5. /\ \A j \in Places(d) : at(j) \in Places(c) /\ d.keys[j] = c.keys[at(j)]
        /\ \A j, k \in Places(d) : at(j) = at(k) => j = k
    BY <2>1, <2>2, <2>4 DEF Places
  <2>6. \A m \in Places(c) : m # i => \E j \in Places(d) : at(j) = m
    <3> SUFFICES ASSUME NEW m \in Places(c), m # i
                 PROVE  \E j \in Places(d) : at(j) = m
      OBVIOUS
    <3>1. CASE m < i
      BY <2>1, <2>4, <3>1 DEF Places
    <3>2. CASE m > i
      <4>1. m - 1 \in Places(d) /\ at(m - 1) = m
        BY <2>1, <2>4, <3>2 DEF Places
      <4> QED BY <4>1
    <3> QED BY <2>1, <3>1, <3>2 DEF Places
  <2> HIDE DEF at
  <2>7. Told(d)
    BY <2>4, <2>5 DEF Told
  <2>8. \A m \in Places(c) : c.keys[m].num # n => \E j \in Places(d) : d.keys[j] = c.keys[m]
    BY <2>1, <2>5, <2>6
  <2> QED BY <2>4, <2>5, <2>7, <2>8 DEF IsWithout, d
<1> QED BY <1>1, <1>2

------------------------------------------------------------------------------
(* KeyInfoUpdate: one walk over the list.                                  *)

Discarded(k, types) == k.valid = "NOT" /\ k.type \in types
Passed(c, types, i, s) == IF Discarded(c.keys[i], types) THEN s ELSE Append(s, Fresh(c.keys[i]))

\* up[i] is what is left of the first i keys.
IsLeft(c, types, up) ==
  /\ \A i \in 0..Len(c.keys) : up[i] \in Seq(Key)
  /\ up[0] = <<>> /\ \A i \in 1..Len(c.keys) : up[i] = Passed(c, types, i, up[i - 1])

LEMMA FreshIsSame ==
  ASSUME NEW k \in Key
  PROVE  Fresh(k) \in Key /\ SameKey(Fresh(k), k)
<1>1. [k EXCEPT !.valid = "UNSURE"] = [type |-> k.type, text |-> k.text, addr |-> k.addr, valid |-> "UNSURE", num |-> k.num]
  BY DEF Key
<1> QED BY <1>1 DEF Fresh, Key, SameKey, Valid

LEMMA LeftExists ==
  ASSUME NEW c \in Caches, NEW types
  PROVE  \E up : /\ up = [i \in 0..Len(c.keys) |-> IF i = 0 THEN <<>> ELSE Passed(c, types, i, up[i - 1])]
                 /\ IsLeft(c, types, up)
<1> DEFINE n == Len(c.keys)
           S == (0..n) \X Seq(Key)
           Step(p) == IF p[1] = n THEN p ELSE <<p[1] + 1, Passed(c, types, p[1] + 1, p[2])>>
           step == [p \in S |-> Step(p)]
           e == <<>>
           x == <<0, e>>
<1>1. n \in Nat /\ \A i \in 1..n : c.keys[i] \in Key
  BY KeysAre DEF Places
<1>2. \A i \in 1..n, s \in Seq(Key) : Passed(c, types, i, s) \in Seq(Key)
  BY <1>1, FreshIsSame, AppendProperties DEF Passed
<1> HIDE DEF n
<1>3. x \in S /\ step \in [S -> S]
  <2>1. ASSUME NEW p \in S, p[1] # n
        PROVE  <<p[1] + 1, Passed(c, types, p[1] + 1, p[2])>> \in S
    <3>1. p[1] + 1 \in 1..n /\ p[2] \in Seq(Key)
      BY <1>1, <2>1
    <3> QED BY <1>1, <1>2, <3>1
  <2>2. x \in S
    <3>1. e \in Seq(Key) /\ 0 \in 0..n
      BY <1>1, EmptySeq
    <3> HIDE DEF e
    <3> QED BY <3>1
  <2> QED BY <2>1, <2>2
<1>4. PICK w \in [0..n -> S] : w = [k \in 0..n |-> IF k = 0 THEN x ELSE step[w[k - 1]]]
  <2> HIDE DEF S, step, x
  <2> QED BY <1>1, <1>3, RoundsExist
<1>5. w[0] = x
  BY <1>1, <1>4
<1>6. ASSUME NEW k \in 1..n, w[k - 1][1] = k - 1
      PROVE  w[k] = <<k, Passed(c, types, k, w[k - 1][2])>>
  <2>1. k \in 0..n /\ k - 1 \in 0..n /\ k # 0 /\ k - 1 # n /\ (k - 1) + 1 = k
    BY <1>1
  <2>2. w[k - 1] \in S /\ w[k] = step[w[k - 1]]
    <3> HIDE DEF S, step, x
    <3> QED BY <1>4, <2>1
  <2>3. \A p \in S : p[1] # n => step[p] = <<p[1] + 1, Passed(c, types, p[1] + 1, p[2])>>
    <3> HIDE DEF S
    <3> QED OBVIOUS
  <2> HIDE DEF S, step
  <2> QED BY <1>6, <2>1, <2>2, <2>3
<1> DEFINE T == {k \in 0..n : w[k][1] = k}
<1>7. 0..n \subseteq T
  <2>1. 0 \in T
    BY <1>1, <1>5
  <2>2. \A k \in 1..n : k - 1 \in T => k \in T
    <3> SUFFICES ASSUME NEW k \in 1..n, k - 1 \in T
                 PROVE  k \in T
      OBVIOUS
    <3>1. w[k] = <<k, Passed(c, types, k, w[k - 1][2])>>
      BY <1>6
    <3>2. w[k][1] = k /\ k \in 0..n
      BY <1>1, <3>1
    <3> QED BY <3>2
  <2> HIDE DEF T
  <2> QED BY <1>1, <2>1, <2>2, InductionUpTo
<1> DEFINE up == [k \in 0..n |-> w[k][2]]
<1>8. \A k \in 0..n : up[k] \in Seq(Key)
  <2>1. \A k \in 0..n : w[k] \in S
    <3> HIDE DEF S
    <3> QED BY <1>4
  <2> QED BY <2>1
<1>9. up[0] = <<>>
  BY <1>1, <1>5
<1>10. \A k \in 1..n : up[k] = Passed(c, types, k, up[k - 1])
  <2> SUFFICES ASSUME NEW k \in 1..n
               PROVE  up[k] = Passed(c, types, k, up[k - 1])
    OBVIOUS
  <2>1. k \in 0..n /\ k - 1 \in 0..n
    BY <1>1
  <2>2. w[k] = <<k, Passed(c, types, k, w[k - 1][2])>>
    BY <1>6, <1>7, <2>1
  <2> QED BY <2>1, <2>2
<1>11. \A i \in 0..n : i = 0 \/ i \in 1..n
  BY <1>1
<1>12. up = [i \in 0..n |-> up[i]]
  OBVIOUS
<1> HIDE DEF up, S, Step, step
<1>13. up = [i \in 0..n |-> IF i = 0 THEN <<>> ELSE Passed(c, types, i, up[i - 1])]
  <2>1. \A i \in 0..n : up[i] = IF i = 0 THEN <<>> ELSE Passed(c, types, i, up[i - 1])
    BY <1>9, <1>10, <1>11
  <2> QED BY <1>12, <2>1
<1> QED BY <1>8, <1>9, <1>10, <1>13 DEF IsLeft, n

IsUpdated(c, d, types) ==
  /\ d \in Caches /\ Told(d) /\ d.numbers = c.numbers
  /\ \A j \in Places(d) : \E i \in Places(c) : SameKey(d.keys[j], c.keys[i])
  /\ \A i \in Places(c) : ~Discarded(c.keys[i], types) => \E j \in Places(d) : SameKey(d.keys[j], c.keys[i])

\* s holds what is left of the first i keys.
Left(c, types, i, s) ==
  /\ s \in Seq(Key)
  /\ \A j \in 1..Len(s) : \E m \in 1..i : SameKey(s[j], c.keys[m])
  /\ \A j, k \in 1..Len(s) : j # k => s[j].num # s[k].num /\ Apart(s[j], s[k])
  /\ \A m \in 1..i : ~Discarded(c.keys[m], types) => \E j \in 1..Len(s) : SameKey(s[j], c.keys[m])

LEMMA PassedLeaves ==
  ASSUME NEW c \in Caches, Told(c), NEW types, NEW i \in Places(c), NEW s, Left(c, types, i - 1, s)
  PROVE  Left(c, types, i, Passed(c, types, i, s))
<1> DEFINE o == c.keys[i]
<1>1. /\ i \in Nat \ {0} /\ i \in Places(c) /\ 1..i = (1..i - 1) \cup {i} /\ 1..i - 1 \subseteq Places(c)
      /\ o \in Key /\ i \notin 1..i - 1
  BY KeysAre DEF Places
<1>2. CASE Discarded(o, types)
  <2>1. Passed(c, types, i, s) = s
    BY <1>2 DEF Passed
  <2> QED BY <1>1, <1>2, <2>1 DEF Left
<1>3. CASE ~Discarded(o, types)
  <2> DEFINE f == Fresh(o)
             r == Append(s, f)
  <2>1. f \in Key /\ SameKey(f, o)
    BY <1>1, FreshIsSame
  <2>2. Passed(c, types, i, s) = r
    BY <1>3 DEF Passed
  <2> HIDE DEF f, o
  <2>3. s \in Seq(Key) /\ Len(s) \in Nat
    BY LenProperties DEF Left
  <2>4. /\ r \in Seq(Key) /\ Len(r) = Len(s) + 1
        /\ r[Len(s) + 1] = f /\ \A j \in 1..Len(s) : r[j] = s[j]
    BY <2>1, <2>3, AppendProperties
  <2>5. 1..Len(r) = (1..Len(s)) \cup {Len(s) + 1} /\ Len(s) + 1 \notin 1..Len(s)
    BY <2>3, <2>4
  <2> HIDE DEF r
  <2>6. \A j \in 1..Len(s) : s[j].num # f.num /\ Apart(s[j], f) /\ Apart(f, s[j])
    <3> SUFFICES ASSUME NEW j \in 1..Len(s)
                 PROVE  s[j].num # f.num /\ Apart(s[j], f) /\ Apart(f, s[j])
      OBVIOUS
    <3>1. PICK m \in 1..i - 1 : SameKey(s[j], c.keys[m])
      BY DEF Left
    <3>2. m \in Places(c) /\ m # i
      BY <1>1
    <3> QED BY <1>1, <2>1, <3>1, <3>2 DEF Told, SameKey, Apart, o
  <2>7. \A j \in 1..Len(r) : \E m \in 1..i : SameKey(r[j], c.keys[m])
    BY <1>1, <2>1, <2>4, <2>5 DEF Left, o
  <2>8. \A j, k \in 1..Len(r) : j # k => r[j].num # r[k].num /\ Apart(r[j], r[k])
    BY <2>4, <2>5, <2>6 DEF Left
  <2>9. \A m \in 1..i : ~Discarded(c.keys[m], types) => \E j \in 1..Len(r) : SameKey(r[j], c.keys[m])
    BY <1>1, <2>1, <2>4, <2>5 DEF Left, o
  <2> QED BY <2>2, <2>4, <2>7, <2>8, <2>9 DEF Left
<1> QED BY <1>2, <1>3

LEMMA DeleByTypeLeaves ==
  ASSUME NEW c \in Caches, Told(c), NEW types
  PROVE  IsUpdated(c, DeleKeyInfoByType(c, types), types)
<1> DEFINE n == Len(c.keys)
           IsUp(up) == up = [i \in 0..n |-> IF i = 0 THEN <<>> ELSE Passed(c, types, i, up[i - 1])]
           up == CHOOSE u : IsUp(u)
           d == DeleKeyInfoByType(c, types)
<1>1. n \in Nat /\ c.numbers \in Nat /\ c.keys \in Seq(Key)
  BY KeysAre
<1>2. IsUp(up)
  <2>1. \E u : IsUp(u)
    BY LeftExists
  <2> QED BY <2>1
<1>3. d = [c EXCEPT !.keys = up[n]]
  BY DEF DeleKeyInfoByType, Passed, Discarded
<1> HIDE DEF up, d
<1>4. up[0] = <<>> /\ \A i \in 1..n : up[i] = Passed(c, types, i, up[i - 1])
  <2>1. 0 \in 0..n /\ \A i \in 1..n : i \in 0..n /\ i # 0
    BY <1>1
  <2> HIDE DEF n
  <2> QED BY <1>2, <2>1
<1> DEFINE T == {i \in 0..n : Left(c, types, i, up[i])}
<1>5. 0 \in T
  <2>1. 0 \in 0..n /\ up[0] \in Seq(Key) /\ Len(up[0]) = 0 /\ 1..0 = {}
    BY <1>1, <1>4, EmptySeq
  <2> QED BY <2>1 DEF Left
<1>6. ASSUME NEW i \in 1..n, i - 1 \in T
      PROVE  i \in T
  <2>1. i \in 0..n /\ i \in Places(c) /\ Left(c, types, i - 1, up[i - 1]) /\ up[i] = Passed(c, types, i, up[i - 1])
    BY <1>1, <1>4, <1>6 DEF Places
  <2>2. Left(c, types, i, up[i])
    BY <2>1, PassedLeaves
  <2> QED BY <2>1, <2>2
<1>7. Left(c, types, n, up[n])
  <2>1. n \in T
    <3> HIDE DEF T, n
    <3>1. 0..n \subseteq T
      BY <1>1, <1>5, <1>6, InductionUpTo
    <3> QED BY <1>1, <3>1
  <2> QED BY <2>1
<1>8. d = [keys |-> up[n], numbers |-> c.numbers]
  BY <1>3, KeysSet
<1>9. d \in Caches /\ d.keys = up[n] /\ d.numbers = c.numbers /\ Places(d) = 1..Len(up[n])
  BY <1>1, <1>7, <1>8 DEF Caches, Left, Places
<1>10. \A j \in Places(d) : \E i \in Places(c) : SameKey(d.keys[j], c.keys[i])
  BY <1>7, <1>9 DEF Left, Places
<1>11. Told(d)
  <2>1. \A j \in Places(d) : d.keys[j].num < d.numbers
    BY <1>9, <1>10 DEF Told, SameKey
  <2>2. \A i, j \in Places(d) : i # j => d.keys[i].num # d.keys[j].num /\ Apart(d.keys[i], d.keys[j])
    BY <1>7, <1>9 DEF Left
  <2>3. \A j \in Places(d) : d.keys[j].type # "CONFIG" => d.keys[j].addr = d.keys[j].text
    BY <1>10 DEF Told, SameKey
  <2> QED BY <2>1, <2>2, <2>3 DEF Told
<1>12. \A i \in Places(c) : ~Discarded(c.keys[i], types) => \E j \in Places(d) : SameKey(d.keys[j], c.keys[i])
  BY <1>7, <1>9 DEF Left, Places
<1> QED BY <1>9, <1>10, <1>11, <1>12 DEF IsUpdated, d

------------------------------------------------------------------------------
(* NatType: one poll.                                                      *)

Maps    == {<<>>, Garbled} \cup {<<h>> : h \in NetAddr}
Addrs   == NetAddr \cup {NoAddr}
Results == NatKind \cup {"UNKNOWN", "HERE"}
Procs   == [step : Steps \cup {"none"}, retrys : 0..Retries, first : BOOLEAN, host : Addrs,
            map : Maps, change : Addrs, res : Results]
Stun    == {"BindingRequest", "ChangeIPAndPort", "BindingRequestToAnotherServer", "ChangePort"}

\* What is on its way comes from where it is sent.
AirRight(ms) ==
  /\ ms \subseteq Reply
  /\ \A m \in ms : /\ m.kind = "iam" => m.from \in Answering
                   /\ m.kind # "iam" => m.from \in STUNs
                   /\ m.map \in Maps

NetRight ==
  /\ nat \in NATs /\ punched \subseteq NetAddr /\ AirRight(air)
  /\ lost \in 0..MaxLoss /\ late \in 0..MaxLate

\* Of STUN servers only the default port has been sent to.
DefaultHoles(ps) == ~odd => \A h \in ps \cap STUNs : h.port = STUN_DEFAULT_PORT

\* The first test: but for the server's address only other IPs have been sent
\* to, and none before the third step.
FirstHoles(ps, ms) ==
  uses = 1 /\ proc.step \in Stun =>
    /\ \A h \in ps : h = proc.host \/ h.ip # proc.host.ip
    /\ proc.step \in {"BindingRequest", "ChangeIPAndPort"} => ps \subseteq {proc.host}
    /\ proc.step = "BindingRequest" => \A m \in ms : m.change.ip # proc.host.ip

HolesRight ==
  /\ DefaultHoles(punched) /\ FirstHoles(punched, air)
  /\ uses = 1 /\ proc.step \in Stun \ {"ChangePort"} => proc.change.ip # proc.host.ip
  /\ uses = 0 => punched = {} /\ air = {} /\ proc.step = "none"

\* A NAT is not taken for more open than it is, but by what another test has sent.
Judged(res) ==
  res \in {"FULL_CONE", "RESTRICTED"} =>
    /\ uses = 1 \/ ~odd => nat \in {"FULL_CONE", "RESTRICTED"}
    /\ uses = 1 /\ nat = "RESTRICTED" => res = "RESTRICTED"

\* p is the process at a step, or where a step has brought it.
Learns(p) ==
  /\ p \in Procs
  /\ p.step \in {"BindingRequest", "ChangeIPAndPort", "TryBdgServer"} => p.res = "UNKNOWN"
  /\ p.step # "none" => p.res \in {"UNKNOWN", "FULL_CONE"} /\ p.host \in NetAddr

\* What a step makes of a poll: r is what it returns, p the process then.
Learnt(r, p) ==
  /\ p \in Procs /\ p.step = proc.step /\ p.retrys = proc.retrys /\ p.first = proc.first /\ p.host = proc.host
  /\ r \in {"GO_ON", "DONE", "ABORT"}
  /\ r = "GO_ON" => p = proc
  /\ r = "DONE" => /\ p.res \in {"UNKNOWN", "FULL_CONE", "HERE"}
                   /\ proc.step = "BindingRequest" => p.res = "UNKNOWN"
  /\ Judged(p.res)
  /\ proc.step \in Stun => p.res # "HERE"
  /\ proc.step = "TryBdgServer" => p.res \in {"UNKNOWN", "HERE"}
  /\ p.res = "HERE" => p.host \in Answering
  /\ uses = 1 /\ proc.step \in {"BindingRequest", "ChangeIPAndPort"} => p.change.ip # proc.host.ip

LEMMA StepsAre == Steps = Stun \cup {"TryBdgServer"}
<1>1. 1..4 = {1, 2, 3, 4}
  OBVIOUS
<1>2. StunStep[1] = "BindingRequest" /\ StunStep[2] = "ChangeIPAndPort"
      /\ StunStep[3] = "BindingRequestToAnotherServer" /\ StunStep[4] = "ChangePort"
  BY DEF StunStep
<1> QED BY <1>1, <1>2 DEF Steps, Stun

\* q is p after it has learnt rs.
Learned(q, p, rs) ==
  /\ q \in Procs /\ q.step = p.step /\ q.retrys = p.retrys /\ q.first = p.first /\ q.host = p.host
  /\ q.res = rs

LEMMA ProcSet ==
  ASSUME NEW p \in Procs, NEW mp \in Maps, NEW ch \in Addrs, NEW rs \in Results
  PROVE  /\ Learned([p EXCEPT !.res = rs], p, rs) /\ [p EXCEPT !.res = rs].change = p.change
         /\ Learned([p EXCEPT !.map = mp, !.change = ch], p, p.res)
         /\ [p EXCEPT !.map = mp, !.change = ch].change = ch
         /\ Learned([p EXCEPT !.res = rs, !.map = mp, !.change = ch], p, rs)
<1>1. [p EXCEPT !.res = rs] = [step |-> p.step, retrys |-> p.retrys, first |-> p.first, host |-> p.host,
                               map |-> p.map, change |-> p.change, res |-> rs]
  BY DEF Procs
<1>2. [p EXCEPT !.map = mp, !.change = ch] = [step |-> p.step, retrys |-> p.retrys, first |-> p.first, host |-> p.host,
                               map |-> mp, change |-> ch, res |-> p.res]
  <2> DEFINE m == [p EXCEPT !.map = mp]
  <2>1. m = [step |-> p.step, retrys |-> p.retrys, first |-> p.first, host |-> p.host,
             map |-> mp, change |-> p.change, res |-> p.res]
    BY DEF Procs
  <2>2. [p EXCEPT !.map = mp, !.change = ch] = [m EXCEPT !.change = ch]
    BY Zenon
  <2> HIDE DEF m
  <2> QED BY <2>1, <2>2
<1>3. [p EXCEPT !.res = rs, !.map = mp, !.change = ch] = [step |-> p.step, retrys |-> p.retrys, first |-> p.first, host |-> p.host,
                               map |-> mp, change |-> ch, res |-> rs]
  <2> DEFINE m == [p EXCEPT !.res = rs]
             k == [m EXCEPT !.map = mp]
  <2>1. m = [step |-> p.step, retrys |-> p.retrys, first |-> p.first, host |-> p.host,
             map |-> p.map, change |-> p.change, res |-> rs]
    BY <1>1
  <2>2. [p EXCEPT !.res = rs, !.map = mp, !.change = ch] = [k EXCEPT !.change = ch]
    BY Zenon
  <2>3. k = [step |-> p.step, retrys |-> p.retrys, first |-> p.first, host |-> p.host,
             map |-> mp, change |-> p.change, res |-> rs]
    <3> HIDE DEF m
    <3> QED BY <2>1
  <2> HIDE DEF k
  <2> QED BY <2>2, <2>3
<1> QED BY <1>1, <1>2, <1>3 DEF Procs, Learned

\* Only what was sent to passes a NAT that is not open to other addresses.
LEMMA PassesPunched ==
  ASSUME NEW m \in Readable, nat \in NATs, nat \notin {"FULL_CONE", "RESTRICTED"}
  PROVE  m.from \in punched
BY DEF Readable, Passes

\* The process at a step.
AtStep ==
  /\ Learns(proc) /\ Judged(proc.res) /\ proc.step # "none" /\ uses \in {1, 2}
  /\ ~odd => /\ proc.step \in Stun => proc.host.port = STUN_DEFAULT_PORT
             /\ proc.step \notin Stun => proc.host \notin STUNs

LEMMA ReplyIs ==
  ASSUME NetRight, NEW m \in air
  PROVE  /\ m.kind \in {"stun", "iam", "err"} /\ m.from \in NetAddr /\ m.map \in Maps /\ m.change \in Addrs
         /\ m.kind = "iam" => m.from \in Answering
         /\ m.kind # "iam" => m.from \in STUNs
         /\ StunMap(m) \in Maps
<1>1. m \in Reply
  BY DEF NetRight, AirRight
<1>2. /\ m.kind \in {"stun", "iam", "err"} /\ m.from \in NetAddr /\ m.change \in Addrs
  BY <1>1 DEF Reply, Addrs
<1>3. /\ m.map \in Maps
      /\ m.kind = "iam" => m.from \in Answering
      /\ m.kind # "iam" => m.from \in STUNs
  BY DEF NetRight, AirRight
<1>4. StunMap(m) \in Maps
  BY <1>3 DEF StunMap, Maps
<1> QED BY <1>2, <1>3, <1>4

LEMMA AtStepIs ==
  ASSUME AtStep
  PROVE  /\ proc \in Procs /\ proc.step \in Stun \cup {"TryBdgServer"} /\ proc.res \in {"UNKNOWN", "FULL_CONE"}
         /\ proc.host \in NetAddr
         /\ proc.map \in Maps /\ proc.change \in Addrs /\ proc.res \in Results /\ proc.retrys \in 0..Retries
<1>1. /\ proc \in Procs /\ proc.step \in Stun \cup {"TryBdgServer"} /\ proc.res \in {"UNKNOWN", "FULL_CONE"}
      /\ proc.host \in NetAddr
  BY StepsAre DEF AtStep, Learns, Procs
<1>2. proc.map \in Maps /\ proc.change \in Addrs /\ proc.res \in Results /\ proc.retrys \in 0..Retries
  BY <1>1 DEF Procs
<1> QED BY <1>1, <1>2

\* Who only lets in the address and port that was sent to lets in no reply to
\* a change request; in the first test, nor does who lets in the address let in
\* another IP before the third step.
LEMMA StrictHears ==
  ASSUME NetRight, HolesRight, AtStep, NEW m \in Readable, m.kind = "stun",
         \/ proc.step = "ChangeIPAndPort" /\ FromOther(m)
         \/ proc.step = "ChangePort" /\ SameIP(m.from, proc.host) /\ m.from.port # proc.host.port
  PROVE  /\ uses = 1 \/ ~odd => nat \in {"FULL_CONE", "RESTRICTED"}
         /\ uses = 1 /\ proc.step = "ChangeIPAndPort" => nat # "RESTRICTED"
<1>1. m \in air /\ Passes(m) /\ m.from \in STUNs
  BY ReplyIs DEF Readable
<1>2. proc.step \in Stun /\ m.from.port # proc.host.port
  BY DEF Stun, FromOther
<1>3. ASSUME nat \notin {"FULL_CONE", "RESTRICTED"}
      PROVE  uses # 1 /\ odd
  <2>1. m.from \in punched
    BY <1>3, PassesPunched DEF NetRight
  <2>2. odd
    BY <1>1, <1>2, <2>1 DEF AtStep, HolesRight, DefaultHoles
  <2>3. uses # 1
    BY <1>2, <2>1 DEF HolesRight, FirstHoles, FromOther, SameIP
  <2> QED BY <2>2, <2>3
<1>4. ASSUME uses = 1, proc.step = "ChangeIPAndPort", nat = "RESTRICTED"
      PROVE  FALSE
  <2>1. PICK h \in punched : SameIP(h, m.from)
    BY <1>1, <1>4 DEF Passes
  <2>2. h = proc.host
    BY <1>2, <1>4 DEF HolesRight, FirstHoles
  <2> QED BY <1>4, <2>1, <2>2 DEF FromOther, SameIP
<1> QED BY <1>3, <1>4

\* Whatever it returns, a process that has learnt nothing new is right.
LEMMA NothingLearnt ==
  ASSUME AtStep, HolesRight, NEW r \in {"GO_ON", "DONE", "ABORT"}
  PROVE  Learnt(r, proc)
<1>1. proc.step = "BindingRequest" => proc.res = "UNKNOWN"
  BY DEF AtStep, Learns
<1>2. proc.step = "TryBdgServer" => proc.res = "UNKNOWN"
  BY DEF AtStep, Learns
<1>3. Judged(proc.res)
  BY DEF AtStep
<1>4. uses = 1 /\ proc.step \in {"BindingRequest", "ChangeIPAndPort"} => proc.change.ip # proc.host.ip
  BY DEF HolesRight, Stun
<1> QED BY AtStepIs, <1>1, <1>2, <1>3, <1>4 DEF Learnt

LEMMA ReadsLearnt ==
  ASSUME NetRight, HolesRight, AtStep, NEW m \in Readable
  PROVE  Learnt(Reads(m)[1], Reads(m)[2])
<1>1. m \in air
  BY DEF Readable
<1>2. m.kind \in {"stun", "iam", "err"} /\ m.change \in Addrs /\ StunMap(m) \in Maps
  BY <1>1, ReplyIs
<1>3. /\ proc \in Procs /\ proc.step \in Stun \cup {"TryBdgServer"} /\ proc.res \in {"UNKNOWN", "FULL_CONE"}
      /\ proc.map \in Maps /\ proc.change \in Addrs
      /\ uses = 1 /\ proc.step \in {"BindingRequest", "ChangeIPAndPort"} => proc.change.ip # proc.host.ip
  BY AtStepIs DEF HolesRight, Stun
<1>4. \A r \in {"GO_ON", "DONE", "ABORT"} : Learnt(r, proc)
  BY NothingLearnt
<1>5. CASE proc.step = "BindingRequest"
  <2>1. CASE m.kind # "stun"
    BY <1>4, <1>5, <2>1 DEF Reads
  <2>2. CASE m.kind = "stun"
    <3> DEFINE p == [proc EXCEPT !.map = StunMap(m), !.change = m.change]
    <3>1. Reads(m) = <<"DONE", p>>
      BY <1>5, <2>2 DEF Reads
    <3>2. Learned(p, proc, proc.res) /\ p.change = m.change
      BY <1>2, <1>3, ProcSet DEF Results
    <3>5. uses = 1 => m.change.ip # proc.host.ip
      BY <1>1, <1>5 DEF HolesRight, FirstHoles, Stun
    <3>3. proc.res = "UNKNOWN"
      BY <1>5 DEF AtStep, Learns
    <3> HIDE DEF p
    <3>4. Learnt("DONE", p)
      BY <1>5, <3>2, <3>3, <3>5 DEF Learnt, Judged, Learned
    <3> QED BY <3>1, <3>4
  <2> QED BY <2>1, <2>2
<1>6. CASE proc.step = "ChangeIPAndPort"
  <2>1. CASE ~(m.kind = "stun" /\ FromOther(m))
    BY <1>4, <1>6, <2>1 DEF Reads
  <2>2. CASE m.kind = "stun" /\ FromOther(m)
    <3> DEFINE p == [proc EXCEPT !.res = "FULL_CONE"]
    <3>1. Reads(m) = <<"DONE", p>>
      BY <1>6, <2>2 DEF Reads
    <3>2. Learned(p, proc, "FULL_CONE") /\ p.change = proc.change
      <4>1. "FULL_CONE" \in Results
        BY DEF Results, NatKind
      <4> QED BY <1>3, <4>1, ProcSet
    <3>3. /\ uses = 1 \/ ~odd => nat \in {"FULL_CONE", "RESTRICTED"}
          /\ uses = 1 => nat # "RESTRICTED"
      BY <1>6, <2>2, StrictHears
    <3> HIDE DEF p
    <3>4. Learnt("DONE", p)
      BY <1>3, <1>6, <3>2, <3>3 DEF Learnt, Judged, Learned
    <3> QED BY <3>1, <3>4
  <2> QED BY <2>1, <2>2
<1>7. CASE proc.step = "BindingRequestToAnotherServer"
  <2>1. CASE m.kind # "stun" \/ ~SameIP(m.from, proc.change)
    BY <1>4, <1>7, <2>1 DEF Reads
  <2>2. CASE ~(m.kind # "stun" \/ ~SameIP(m.from, proc.change))
    <3> DEFINE res == IF StunMap(m) # proc.map THEN "SYMMETRIC" ELSE proc.res
               p == [proc EXCEPT !.res = res, !.map = StunMap(m), !.change = m.change]
               r == IF res = "UNKNOWN" THEN "DONE" ELSE "ABORT"
    <3>1. Reads(m) = <<r, p>>
      BY <1>7, <2>2 DEF Reads
    <3>2. res \in Results /\ res \in {"UNKNOWN", "FULL_CONE", "SYMMETRIC"} /\ Judged(res)
      BY <1>3 DEF Results, NatKind, AtStep, Judged
    <3> HIDE DEF res
    <3>3. Learned(p, proc, res)
      BY <1>2, <1>3, <3>2, ProcSet
    <3> HIDE DEF p
    <3>4. Learnt(r, p)
      BY <1>7, <3>2, <3>3 DEF Learnt, Learned
    <3> HIDE DEF r
    <3> QED BY <3>1, <3>4
  <2> QED BY <2>1, <2>2
<1>8. CASE proc.step = "ChangePort"
  <2>1. CASE ~(m.kind = "stun" /\ SameIP(m.from, proc.host) /\ m.from.port # proc.host.port)
    BY <1>4, <1>8, <2>1 DEF Reads
  <2>2. CASE m.kind = "stun" /\ SameIP(m.from, proc.host) /\ m.from.port # proc.host.port
    <3> DEFINE p == [proc EXCEPT !.res = "RESTRICTED"]
    <3>1. Reads(m) = <<"ABORT", p>>
      BY <1>8, <2>2 DEF Reads
    <3>2. Learned(p, proc, "RESTRICTED")
      <4>1. "RESTRICTED" \in Results
        BY DEF Results, NatKind
      <4> QED BY <1>3, <4>1, ProcSet
    <3>3. uses = 1 \/ ~odd => nat \in {"FULL_CONE", "RESTRICTED"}
      BY <1>8, <2>2, StrictHears
    <3> HIDE DEF p
    <3>4. Learnt("ABORT", p)
      BY <1>8, <3>2, <3>3 DEF Learnt, Judged, Learned
    <3> QED BY <3>1, <3>4
  <2> QED BY <2>1, <2>2
<1>9. CASE proc.step = "TryBdgServer"
  <2>1. CASE ~IamHere(m)
    BY <1>4, <1>9, <2>1 DEF Reads
  <2>2. CASE IamHere(m)
    <3> DEFINE p == [proc EXCEPT !.res = "HERE"]
    <3>1. Reads(m) = <<"DONE", p>>
      BY <1>9, <2>2 DEF Reads
    <3>2. Learned(p, proc, "HERE")
      <4>1. "HERE" \in Results
        BY DEF Results
      <4> QED BY <1>3, <4>1, ProcSet
    <3>3. proc.host \in Answering
      BY <1>1, <2>2, ReplyIs DEF IamHere
    <3> HIDE DEF p
    <3>4. Learnt("DONE", p)
      BY <1>9, <3>2, <3>3 DEF Learnt, Judged, Stun, Learned
    <3> QED BY <3>1, <3>4
  <2> QED BY <2>1, <2>2
<1> QED BY <1>3, <1>5, <1>6, <1>7, <1>8, <1>9 DEF Stun

Heards == {{}} \cup {{m} : m \in Readable}

LEMMA StepDoLearnt ==
  ASSUME NetRight, HolesRight, AtStep, NEW state, NEW heard \in Heards
  PROVE  Learnt(StepDo(state, heard)[1], StepDo(state, heard)[2])
<1>1. \A r \in {"GO_ON", "DONE", "ABORT"} : Learnt(r, proc)
  BY NothingLearnt
<1>2. CASE heard # {} /\ ~Ignored(heard)
  <2>1. PICK m \in Readable : heard = {m}
    BY <1>2 DEF Heards
  <2>2. (CHOOSE x \in heard : TRUE) = m
    BY <2>1
  <2>3. StepDo(state, heard) = Reads(m)
    BY <1>2, <2>2 DEF StepDo
  <2> QED BY <2>3, ReadsLearnt
<1>3. CASE ~(heard # {} /\ ~Ignored(heard)) /\ state = "LAST" /\ (heard = {} \/ Ignored(heard))
  <2>1. StepDo(state, heard) = GivesUp
    BY <1>3 DEF StepDo
  <2>2. CASE proc.step = "ChangePort"
    <3> DEFINE p == [proc EXCEPT !.res = "PORT_RESTRICTED"]
    <3>1. GivesUp = <<"ABORT", p>>
      BY <2>2 DEF GivesUp
    <3>2. Learned(p, proc, "PORT_RESTRICTED")
      <4>1. /\ "PORT_RESTRICTED" \in Results /\ proc.map \in Maps /\ proc.change \in Addrs
            /\ proc \in Procs
        BY AtStepIs DEF Results, NatKind
      <4> QED BY <4>1, ProcSet
    <3> HIDE DEF p
    <3>3. Learnt("ABORT", p)
      BY <2>2, <3>2 DEF Learnt, Judged, Learned
    <3> QED BY <2>1, <3>1, <3>3
  <2>3. CASE proc.step # "ChangePort"
    BY <1>1, <2>1, <2>3 DEF GivesUp
  <2> QED BY <2>2, <2>3
<1>4. CASE ~(heard # {} /\ ~Ignored(heard)) /\ ~(state = "LAST" /\ (heard = {} \/ Ignored(heard)))
  <2>1. StepDo(state, heard) = <<"GO_ON", proc>>
    BY <1>4 DEF StepDo
  <2> QED BY <1>1, <2>1
<1> QED BY <1>2, <1>3, <1>4

LEMMA OutcomeLearnt ==
  ASSUME NetRight, HolesRight, AtStep, NEW state, NEW heard \in Heards
  PROVE  Learnt(Outcome(state, heard)[1], Outcome(state, heard)[2])
<1> DEFINE r == StepDo(state, heard)
<1>1. Learnt(r[1], r[2])
  BY StepDoLearnt
<1> HIDE DEF r
<1>2. CASE r[1] = "GO_ON" /\ state = "LAST"
  <2>1. Outcome(state, heard) = <<"DONE", r[2]>> /\ r[2] = proc
    BY <1>1, <1>2 DEF Outcome, Learnt, r
  <2>2. Learnt("DONE", proc)
    BY NothingLearnt
  <2> QED BY <2>1, <2>2
<1>3. CASE ~(r[1] = "GO_ON" /\ state = "LAST")
  <2>1. Outcome(state, heard) = r
    BY <1>3 DEF Outcome, r
  <2> QED BY <1>1, <2>1
<1> QED BY <1>2, <1>3

LEMMA NextStepIs ==
  /\ proc.step = "BindingRequest" => NextStep = "ChangeIPAndPort"
  /\ proc.step = "ChangeIPAndPort" => NextStep = "BindingRequestToAnotherServer"
  /\ proc.step = "BindingRequestToAnotherServer" => NextStep = "ChangePort"
<1> DEFINE i == CHOOSE k \in 1..3 : StunStep[k] = proc.step
<1>1. /\ StunStep[1] = "BindingRequest" /\ StunStep[2] = "ChangeIPAndPort"
      /\ StunStep[3] = "BindingRequestToAnotherServer" /\ StunStep[4] = "ChangePort"
  BY DEF StunStep
<1>2. 1..3 = {1, 2, 3}
  OBVIOUS
<1>3. ASSUME NEW k \in 1..3, StunStep[k] = proc.step
      PROVE  i \in {1, 2, 3} /\ StunStep[i] = proc.step
  BY <1>2, <1>3
<1> HIDE DEF i
<1>4. NextStep = StunStep[1 + i]
  BY DEF NextStep, i
<1>5. CASE proc.step = "BindingRequest"
  <2>1. i = 1
    BY <1>1, <1>2, <1>3, <1>5
  <2> QED BY <1>1, <1>4, <1>5, <2>1
<1>6. CASE proc.step = "ChangeIPAndPort"
  <2>1. i = 2
    BY <1>1, <1>2, <1>3, <1>6
  <2> QED BY <1>1, <1>4, <1>6, <2>1
<1>7. CASE proc.step = "BindingRequestToAnotherServer"
  <2>1. i = 3
    BY <1>1, <1>2, <1>3, <1>7
  <2> QED BY <1>1, <1>4, <1>7, <2>1
<1> QED BY <1>5, <1>6, <1>7

\* A process that begins a step.
IsAt(q, p, s) ==
  /\ q \in Procs /\ q.step = s /\ q.retrys = Retries /\ q.host = p.host /\ q.res = p.res
  /\ q.change = p.change

LEMMA FirstSet ==
  ASSUME NEW p \in Procs, NEW f \in BOOLEAN
  PROVE  LET q == [p EXCEPT !.first = f]
         IN  /\ q \in Procs /\ q.step = p.step /\ q.retrys = p.retrys /\ q.host = p.host /\ q.res = p.res
             /\ q.change = p.change
<1>1. [p EXCEPT !.first = f] = [step |-> p.step, retrys |-> p.retrys, first |-> f, host |-> p.host,
                                map |-> p.map, change |-> p.change, res |-> p.res]
  BY DEF Procs
<1> QED BY <1>1 DEF Procs

LEMMA RetrysSet ==
  ASSUME NEW p \in Procs, NEW n \in 0..Retries
  PROVE  LET q == [p EXCEPT !.retrys = n]
         IN  /\ q \in Procs /\ q.step = p.step /\ q.retrys = n /\ q.host = p.host /\ q.res = p.res
             /\ q.change = p.change
<1>1. [p EXCEPT !.retrys = n] = [step |-> p.step, retrys |-> n, first |-> p.first, host |-> p.host,
                                 map |-> p.map, change |-> p.change, res |-> p.res]
  BY DEF Procs
<1> QED BY <1>1 DEF Procs

LEMMA StepAtIs ==
  ASSUME NEW p \in Procs, NEW s \in Steps
  PROVE  IsAt(StepAt(p, s), p, s)
<1> DEFINE a == [p EXCEPT !.step = s]
           b == [a EXCEPT !.retrys = Retries]
           c == [b EXCEPT !.first = TRUE]
<1>1. StepAt(p, s) = c
  BY Zenon DEF StepAt
<1>2. a = [step |-> s, retrys |-> p.retrys, first |-> p.first, host |-> p.host,
           map |-> p.map, change |-> p.change, res |-> p.res]
  BY DEF Procs
<1> HIDE DEF a
<1>3. a \in Procs /\ a.step = s /\ a.host = p.host /\ a.res = p.res /\ a.change = p.change
  BY <1>2 DEF Procs
<1>4. b \in Procs /\ b.step = s /\ b.retrys = Retries /\ b.host = p.host /\ b.res = p.res /\ b.change = p.change
  <2>1. Retries \in 0..Retries
    BY NatTypeAssumption
  <2> QED BY <1>3, <2>1, RetrysSet
<1> HIDE DEF b
<1>5. \A f \in BOOLEAN : LET d == [b EXCEPT !.first = f]
                          IN  /\ d \in Procs /\ d.step = s /\ d.retrys = Retries /\ d.host = p.host
                              /\ d.res = p.res /\ d.change = p.change
  BY <1>4, FirstSet
<1>6. c \in Procs /\ c.step = s /\ c.retrys = Retries /\ c.host = p.host /\ c.res = p.res /\ c.change = p.change
  BY <1>5, Zenon
<1> HIDE DEF c
<1> QED BY <1>1, <1>6 DEF IsAt

LEMMA PolledIs ==
  ASSUME NEW p \in Procs, NEW n \in 0..Retries
  PROVE  LET q == [p EXCEPT !.first = FALSE, !.retrys = n]
         IN  q \in Procs /\ q.step = p.step /\ q.host = p.host /\ q.res = p.res /\ q.change = p.change
<1> DEFINE a == [p EXCEPT !.first = FALSE]
           b == [a EXCEPT !.retrys = n]
<1>1. [p EXCEPT !.first = FALSE, !.retrys = n] = b
  BY Zenon
<1>2. \A f \in BOOLEAN : LET d == [p EXCEPT !.first = f]
                          IN  d \in Procs /\ d.step = p.step /\ d.host = p.host /\ d.res = p.res /\ d.change = p.change
  BY FirstSet
<1>3. a \in Procs /\ a.step = p.step /\ a.host = p.host /\ a.res = p.res /\ a.change = p.change
  BY <1>2, Zenon
<1> HIDE DEF a
<1>4. b \in Procs /\ b.step = p.step /\ b.host = p.host /\ b.res = p.res /\ b.change = p.change
  BY <1>3, RetrysSet
<1> HIDE DEF b
<1> QED BY <1>1, <1>4

LEMMA AfterIs ==
  ASSUME NetRight, HolesRight, AtStep, NEW state \in TimerState, NEW heard \in Heards, ~Ends(state, heard)
  PROVE  LET q == After(state, heard)
         IN  /\ Learns(q) /\ Judged(q.res) /\ q.host = proc.host
             /\ q.step \in Stun <=> proc.step \in Stun
             /\ q.step \in Stun \cup {"TryBdgServer"}
             /\ q.step \in {"BindingRequest", "ChangeIPAndPort"} => proc.step \in {"BindingRequest", "ChangeIPAndPort"}
             /\ q.step = "BindingRequest" => proc.step = "BindingRequest"
             /\ uses = 1 /\ q.step \in Stun \ {"ChangePort"} => q.change.ip # proc.host.ip
<1> DEFINE o == Outcome(state, heard)
           p == o[2]
           q == After(state, heard)
<1>1. Learnt(o[1], p)
  BY OutcomeLearnt
<1>2. /\ proc \in Procs /\ proc.step \in Stun \cup {"TryBdgServer"} /\ proc.res \in {"UNKNOWN", "FULL_CONE"}
      /\ proc.host \in NetAddr /\ proc.retrys \in 0..Retries
  BY AtStepIs
<1>3. o[1] # "ABORT" /\ (o[1] = "DONE" => ~LastStep)
  BY DEF Ends
<1> HIDE DEF o
<1>4. CASE o[1] = "DONE"
  <2>1. proc.step \in {"BindingRequest", "ChangeIPAndPort", "BindingRequestToAnotherServer"}
    BY <1>2, <1>3, <1>4 DEF LastStep, Stun
  <2>2. /\ NextStep \in {"ChangeIPAndPort", "BindingRequestToAnotherServer", "ChangePort"}
        /\ NextStep = "ChangeIPAndPort" => proc.step = "BindingRequest"
        /\ NextStep = "BindingRequestToAnotherServer" => proc.step = "ChangeIPAndPort"
    BY <2>1, NextStepIs
  <2>3. q = StepAt(p, NextStep)
    BY <1>4 DEF After, o
  <2>4. IsAt(q, p, NextStep)
    <3>1. p \in Procs /\ NextStep \in Steps
      BY <1>1, <2>2, StepsAre DEF Learnt, Stun
    <3> QED BY <2>3, <3>1, StepAtIs
  <2>5. /\ p.res \in {"UNKNOWN", "FULL_CONE"} /\ p.host = proc.host /\ Judged(p.res)
        /\ proc.step = "BindingRequest" => p.res = "UNKNOWN"
        /\ uses = 1 /\ proc.step \in {"BindingRequest", "ChangeIPAndPort"} => p.change.ip # proc.host.ip
    BY <1>1, <1>4, <2>1 DEF Learnt, Stun
  <2> HIDE DEF p, q
  <2> QED BY <1>2, <2>1, <2>2, <2>4, <2>5 DEF IsAt, Learns, Stun, q
<1>5. CASE o[1] = "GO_ON"
  <2> DEFINE n == IF state = "OVERTIME" THEN p.retrys - 1 ELSE p.retrys
  <2>1. p = proc
    BY <1>1, <1>5 DEF Learnt
  <2>2. n \in 0..Retries
    <3>1. state = "OVERTIME" => proc.retrys # 0
      BY DEF TimerState
    <3> QED BY <1>2, <2>1, <3>1, NatTypeAssumption
  <2>3. q = [p EXCEPT !.first = FALSE, !.retrys = n]
    BY <1>5, Zenon DEF After, o
  <2> HIDE DEF n, p, q
  <2>4. q \in Procs /\ q.step = proc.step /\ q.host = proc.host /\ q.res = proc.res
        /\ q.change = proc.change
    BY <1>2, <2>1, <2>2, <2>3, PolledIs
  <2>5. Learns(proc) /\ Judged(proc.res)
    BY DEF AtStep
  <2>6. uses = 1 /\ proc.step \in Stun \ {"ChangePort"} => proc.change.ip # proc.host.ip
    BY DEF HolesRight
  <2> QED BY <1>2, <2>4, <2>5, <2>6 DEF Learns, q
<1> QED BY <1>1, <1>3, <1>4, <1>5 DEF Learnt

------------------------------------------------------------------------------
(* NatType: what is sent, and what comes back.                             *)

Msg(k, f, mp, ch, cur) == [kind |-> k, from |-> f, map |-> mp, change |-> ch, current |-> cur]

LEMMA MsgIs ==
  ASSUME NEW k \in {"stun", "iam", "err"}, NEW f \in NetAddr, NEW mp \in Seq(NetAddr), NEW ch \in Addrs,
         NEW cur \in BOOLEAN
  PROVE  /\ Msg(k, f, mp, ch, cur) \in Reply /\ Msg(k, f, mp, ch, cur).kind = k
         /\ Msg(k, f, mp, ch, cur).from = f /\ Msg(k, f, mp, ch, cur).map = mp
         /\ Msg(k, f, mp, ch, cur).change = ch
BY DEF Msg, Reply, Addrs

LEMMA OldMsgIs ==
  ASSUME NEW m \in Reply, NEW cur \in BOOLEAN
  PROVE  LET o == [m EXCEPT !.current = cur]
         IN  o \in Reply /\ o.kind = m.kind /\ o.from = m.from /\ o.map = m.map /\ o.change = m.change
<1>1. [m EXCEPT !.current = cur] = [kind |-> m.kind, from |-> m.from, map |-> m.map, change |-> m.change,
                                    current |-> cur]
  BY DEF Reply
<1> QED BY <1>1 DEF Reply

\* m is an answer of d's.
Answers(m, d) ==
  /\ d \in NetAddr /\ AirRight({m})
  /\ m.change.ip # d.ip

LEMMA AnswerIs ==
  ASSUME NEW d \in Addrs, NEW asked \in {"none", "port", "both", "hello"}, NEW m \in Answer(d, asked)
  PROVE  Answers(m, d)
<1> DEFINE mp == Map(nat, d)
           ch == IF d \in Servers THEN Changed[d] ELSE NoAddr
           cur == TRUE
           r == [kind |-> "stun", from |-> d, map |-> mp, change |-> ch, current |-> cur]
           f == IF asked = "both" THEN Changed[d] ELSE [d EXCEPT !.port = Changed[d].port]
<1>1. /\ Answer(d, asked) = CASE asked = "hello" /\ d \in Answering -> {[r EXCEPT !.kind = "iam"]}
           [] asked = "none" /\ d \in STUNs -> {r}
           [] asked \in {"port", "both"} /\ d \in Servers -> {[r EXCEPT !.from = f]}
           [] asked \in {"port", "both"} /\ d \in Plain \ Servers -> {[r EXCEPT !.kind = "err"]}
           [] OTHER -> {}
  BY Zenon DEF Answer
<1>2. /\ Servers \cup Plain \cup Answering \subseteq NetAddr
      /\ d \in Servers => /\ Changed[d] \in Servers /\ Changed[d].ip # d.ip
                          /\ [d EXCEPT !.port = Changed[d].port] \in Servers
  BY NatTypeAssumption
<1>3. d \in Servers => f \in Servers
  BY <1>2
<1>4. d \in NetAddr => ch \in Addrs /\ ch.ip # d.ip
  BY <1>2, NetAddrAssumption DEF NetAddr, NoAddr, Addrs
<1>5. d \in NetAddr => mp \in Seq(NetAddr) /\ mp \in Maps
  <2>1. <<>> \in Seq(NetAddr) /\ (d \in NetAddr => <<d>> \in Seq(NetAddr))
    BY EmptySeq
  <2> QED BY <2>1 DEF Map, Maps
<1>6. cur \in BOOLEAN
  OBVIOUS
<1> HIDE DEF mp, ch, cur, f
<1>7. /\ r = Msg("stun", d, mp, ch, cur)
      /\ \A k : [r EXCEPT !.kind = k] = Msg(k, d, mp, ch, cur)
      /\ \A a : [r EXCEPT !.from = a] = Msg("stun", a, mp, ch, cur)
  BY DEF Msg
<1> HIDE DEF r
<1>8. \/ m = Msg("iam", d, mp, ch, cur) /\ d \in Answering
      \/ m = Msg("stun", d, mp, ch, cur) /\ d \in STUNs
      \/ m = Msg("stun", f, mp, ch, cur) /\ d \in Servers
      \/ m = Msg("err", d, mp, ch, cur) /\ d \in STUNs
  <2>1. CASE asked = "hello"
    BY <1>1, <1>7, <2>1
  <2>2. CASE asked = "none"
    BY <1>1, <1>7, <2>2
  <2>3. CASE asked \in {"port", "both"}
    BY <1>1, <1>7, <2>3 DEF STUNs
  <2> QED BY <2>1, <2>2, <2>3
<1>9. d \in NetAddr
  BY <1>2, <1>8 DEF STUNs
<1>10. PICK k \in {"stun", "iam", "err"}, a \in NetAddr :
         /\ m = Msg(k, a, mp, ch, cur)
         /\ k = "iam" => a \in Answering
         /\ k # "iam" => a \in STUNs
  BY <1>2, <1>3, <1>8, <1>9 DEF STUNs
<1>11. m \in Reply /\ m.kind = k /\ m.from = a /\ m.map = mp /\ m.change = ch
  BY <1>4, <1>5, <1>6, <1>9, <1>10, MsgIs
<1> QED BY <1>4, <1>5, <1>9, <1>10, <1>11 DEF Answers, AirRight

\* In the first test a step sends to the server, and the third to another IP.
LEMMA AsksIs ==
  ASSUME AtStep, HolesRight
  PROVE  /\ Asks[2] \in {"none", "port", "both", "hello"}
         /\ Asks[1] \in Addrs \/ Asks[1] \notin STUNs \cup Answering \cup NetAddr
         /\ ~odd /\ Asks[1] \in STUNs => Asks[1].port = STUN_DEFAULT_PORT
         /\ uses = 1 /\ proc.step \in Stun => Asks[1] = proc.host \/ Asks[1].ip # proc.host.ip
         /\ proc.step \in {"BindingRequest", "ChangeIPAndPort"} => Asks[1] = proc.host
<1>1. proc.step \in Stun \cup {"TryBdgServer"} /\ proc.host \in NetAddr /\ proc.change \in Addrs
  BY AtStepIs
<1>2. proc.host \in Addrs
  BY <1>1 DEF Addrs
<1>3. ~odd /\ proc.host \in STUNs => proc.host.port = STUN_DEFAULT_PORT
  BY DEF AtStep
<1>4. CASE proc.step # "BindingRequestToAnotherServer"
  <2>1. Asks[1] = proc.host /\ Asks[2] \in {"none", "port", "both", "hello"}
    BY <1>1, <1>4 DEF Asks, Stun
  <2> QED BY <1>2, <1>3, <2>1
<1>5. CASE proc.step = "BindingRequestToAnotherServer"
  <2> DEFINE o == proc.change
             d == [o EXCEPT !.port = STUN_DEFAULT_PORT]
  <2>1. Asks = <<d, "none">>
    BY <1>5 DEF Asks
  <2>2. d.ip = o.ip /\ d.port = STUN_DEFAULT_PORT
    BY <1>1 DEF Addrs, NetAddr, NoAddr
  <2>3. uses = 1 => d.ip # proc.host.ip
    BY <1>5, <2>2 DEF HolesRight, Stun
  <2>4. d \in NetAddr \/ d \notin STUNs \cup Answering \cup NetAddr
    BY NatTypeAssumption DEF STUNs
  <2> HIDE DEF d
  <2> QED BY <1>5, <2>1, <2>2, <2>3, <2>4 DEF Addrs
<1> QED BY <1>4, <1>5

\* What is on its way keeps what it says, with an older cookie.
Older(ms) == {[m EXCEPT !.current = FALSE] : m \in ms}

\* The replies and holes after a poll.
NetThen(ps, ms) == ps \subseteq NetAddr /\ AirRight(ms) /\ DefaultHoles(ps) /\ FirstHoles(ps, ms)

LEMMA OlderIs ==
  ASSUME NetRight, HolesRight, NEW ms \in SUBSET air
  PROVE  NetThen(punched, Older(ms))
<1>1. \A m \in ms : /\ m \in Reply
                    /\ m.kind = "iam" => m.from \in Answering
                    /\ m.kind # "iam" => m.from \in STUNs
                    /\ m.map \in Maps
  BY DEF NetRight, AirRight
<1>2. \A f \in BOOLEAN : \A m \in ms : LET o == [m EXCEPT !.current = f]
                                      IN  /\ o \in Reply /\ o.kind = m.kind /\ o.from = m.from /\ o.map = m.map
                                          /\ o.change = m.change
  BY <1>1, OldMsgIs
<1>3. \A o \in Older(ms) : \E m \in ms : /\ o \in Reply /\ o.kind = m.kind /\ o.from = m.from /\ o.map = m.map
                                         /\ o.change = m.change
  BY <1>2, Zenon DEF Older
<1>4. AirRight(Older(ms))
  BY <1>1, <1>3 DEF AirRight
<1>5. FirstHoles(punched, Older(ms))
  BY <1>3 DEF HolesRight, FirstHoles
<1> QED BY <1>4, <1>5 DEF NetThen, NetRight, HolesRight

LEMMA PolledNet ==
  ASSUME NetRight, HolesRight, AtStep, NEW state, NEW heard \in Heards, Polls(state, heard)
  PROVE  NetRight' /\ NetThen(punched', air') /\ nat' = nat
<1>1. PICK dropped \in {{}, Readable \ heard} :
        /\ IF Readable \ (heard \cup dropped) # {} /\ (state \in {"OVERTIME", "LAST"} \/ Concludes(heard))
           THEN late < MaxLate /\ late' = late + 1 ELSE UNCHANGED late
        /\ IF StepSends(state, heard) THEN Request(heard, Asks[1], Asks[2])
           ELSE air' = air \ (heard \cup dropped) /\ UNCHANGED <<punched, lost>>
  BY DEF Polls
<1>2. nat' = nat
  BY DEF Polls
<1>3. late' \in 0..MaxLate
  BY <1>1, NatTypeAssumption DEF NetRight
<1>4. NetThen(punched', air') /\ lost' \in 0..MaxLoss
  <2>1. CASE ~StepSends(state, heard)
    <3>1. air' \subseteq air /\ punched' = punched /\ lost' = lost
      BY <1>1, <2>1
    <3>2. punched' \subseteq NetAddr /\ AirRight(air') /\ lost' \in 0..MaxLoss
      BY <3>1 DEF NetRight, AirRight
    <3>3. DefaultHoles(punched') /\ FirstHoles(punched', air')
      BY <3>1 DEF HolesRight, FirstHoles
    <3> QED BY <3>2, <3>3 DEF NetThen
  <2>2. CASE StepSends(state, heard)
    <3> DEFINE old == Older(air \ heard)
               d == Asks[1]
               asked == Asks[2]
    <3>1. NetThen(punched, old)
      BY OlderIs
    <3>2. Request(heard, d, asked)
      BY <1>1, <2>2
    <3>3. /\ punched' = punched \cup ({d} \cap NetAddr)
          /\ air' \subseteq old \cup Answer(d, asked)
          /\ lost' = lost \/ (lost < MaxLoss /\ lost' = lost + 1)
      BY <3>2 DEF Request, Older
    <3>4. /\ asked \in {"none", "port", "both", "hello"}
          /\ d \in Addrs \/ d \notin STUNs \cup Answering \cup NetAddr
          /\ ~odd /\ d \in STUNs => d.port = STUN_DEFAULT_PORT
          /\ uses = 1 /\ proc.step \in Stun => d = proc.host \/ d.ip # proc.host.ip
          /\ proc.step \in {"BindingRequest", "ChangeIPAndPort"} => d = proc.host
      BY AsksIs
    <3> HIDE DEF old, d, asked
    <3>5. \A m \in Answer(d, asked) : Answers(m, d)
      <4>1. CASE d \in Addrs
        BY <3>4, <4>1, AnswerIs
      <4>2. CASE d \notin STUNs \cup Answering \cup NetAddr
        <5>1. Answer(d, asked) = {}
          BY <4>2 DEF Answer, STUNs
        <5> QED BY <5>1
      <4> QED BY <3>4, <4>1, <4>2
    <3>6. AirRight(air')
      BY <3>1, <3>3, <3>5 DEF NetThen, Answers, AirRight
    <3>7. lost' \in 0..MaxLoss
      BY <3>3, NatTypeAssumption DEF NetRight
    <3>8. punched' \subseteq NetAddr /\ DefaultHoles(punched')
      BY <3>1, <3>3, <3>4 DEF NetThen, DefaultHoles
    <3>9. FirstHoles(punched', air')
      <4>1. ASSUME uses = 1, proc.step \in Stun
            PROVE  /\ \A h \in punched' : h = proc.host \/ h.ip # proc.host.ip
                   /\ proc.step \in {"BindingRequest", "ChangeIPAndPort"} => punched' \subseteq {proc.host}
        BY <3>1, <3>3, <3>4, <4>1 DEF NetThen, FirstHoles
      <4>2. ASSUME uses = 1, proc.step = "BindingRequest", NEW m \in air'
            PROVE  m.change.ip # proc.host.ip
        <5>1. CASE m \in old
          BY <3>1, <4>2, <5>1 DEF NetThen, FirstHoles, Stun
        <5>2. CASE m \in Answer(d, asked)
          BY <3>4, <3>5, <4>2, <5>2 DEF Answers
        <5> QED BY <3>3, <5>1, <5>2
      <4> QED BY <4>1, <4>2 DEF FirstHoles
    <3> QED BY <3>6, <3>7, <3>8, <3>9 DEF NetThen
  <2> QED BY <2>1, <2>2
<1>5. NetRight'
  BY <1>2, <1>3, <1>4 DEF NetRight, NetThen, AirRight
<1> QED BY <1>2, <1>4, <1>5

------------------------------------------------------------------------------
(* The invariant.                                                          *)

Pcs   == {"read", "load", "config", "nat", "natmail", "bdg", "bdgmail", "main", "exit", "off"}
Backs == {"config", "nat", "bdg", "main"}
Loads == [lines : Seq(KeyLine), mails : BOOLEAN, back : Backs \cup {"read"}]

\* Where main is, and what it reads.
ControlRight ==
  /\ pc \in Pcs /\ load \in Loads /\ file \in Seq(KeyLine)
  /\ NATtype \in NatKind \cup {"UNKNOWN"} /\ LastType \in NatKind \cup {"UNKNOWN"} /\ using \in Nat
  /\ runs \in 1..MaxRuns /\ cmds \in 0..MaxCmds /\ uses \in 0..2 /\ odd \in BOOLEAN
  /\ pc = "load" => load.back \in Backs
  /\ pc = "load" /\ load.back = "main" => cmds # 0
  /\ ~bdg.skip => bdg.addr \in Answering
  /\ pc \in {"read", "config"} \/ (pc = "load" /\ load.back = "config") => temp = -1

\* The cache, and the key the check process mails for the time being.
TempIs(c, n) ==
  n # -1 => n < c.numbers /\ \A i \in Places(c) : c.keys[i].num = n => c.keys[i].addr = Self
KeysRight == cache \in Caches /\ Told(cache) /\ temp \in Nat \cup {-1} /\ TempIs(cache, temp)

\* The key that is used is in the cache, and is marked until it has worked.
Used(c) ==
  \E i \in Places(c) : c.keys[i].num = using /\ c.keys[i].valid = "NOT" /\ c.keys[i].addr = proc.host

ProcRight ==
  /\ proc \in Procs
  /\ proc.step # "none" => /\ AtStep /\ pc \in {"nat", "bdg"} /\ Used(cache)
                           /\ pc = "nat" <=> proc.step \in Stun

TestsRight == Judged(LastType) /\ (LastType # "UNKNOWN" => uses # 0) /\ HolesRight

\* A key of the type has not been tried.
Untried(c, ty) == \E i \in Places(c) : c.keys[i].type = ty /\ c.keys[i].valid = "UNSURE"
Worked(c, ty)  == \E i \in Places(c) : c.keys[i].type = ty /\ c.keys[i].valid = "WORKS"

GaveUp ==
  /\ pc = "natmail" => ~Untried(cache, "STUNSERVER") /\ ~Worked(cache, "STUNSERVER")
  /\ pc = "bdgmail" => ~Untried(cache, "BRIDGEPEER")
  /\ pc = "main" /\ bdg.skip /\ cmds = 0 => ~Untried(cache, "BRIDGEPEER") /\ ~Untried(cache, "MAILSERVER")

StartInv == NetRight /\ ControlRight /\ KeysRight /\ ProcRight /\ TestsRight /\ GaveUp

LEMMA NoProcIs == NoProc \in Procs /\ NoProc.step = "none" /\ NoProc.res = "UNKNOWN" /\ NoProc.change = NoAddr
<1> DEFINE P(f) == [step |-> "none", retrys |-> 0, first |-> f, host |-> NoAddr,
                    map |-> <<>>, change |-> NoAddr, res |-> "UNKNOWN"]
           Is(q) == q \in Procs /\ q.step = "none" /\ q.res = "UNKNOWN" /\ q.change = NoAddr
<1>1. <<>> \in Maps /\ 0 \in 0..Retries /\ NoAddr \in Addrs
  BY NatTypeAssumption DEF Maps, Addrs
<1>2. \A f \in BOOLEAN : Is(P(f))
  <2> DEFINE e == <<>>
  <2> TAKE f \in BOOLEAN
  <2>1. e \in Maps
    BY <1>1
  <2> HIDE DEF e
  <2>2. [step |-> "none", retrys |-> 0, first |-> f, host |-> NoAddr,
         map |-> e, change |-> NoAddr, res |-> "UNKNOWN"] \in Procs
    BY <1>1, <2>1 DEF Procs, Results
  <2> QED BY <2>2 DEF e
<1>3. Is(P(FALSE))
  <2> HIDE DEF P, Is
  <2> QED BY <1>2, Zenon
<1> QED BY <1>3, Zenon DEF NoProc

LEMMA MadeIs ==
  ASSUME NEW a \in NetAddr, NEW s \in Steps
  PROVE  LET q == StepAt([NoProc EXCEPT !.host = a], s)
         IN  q \in Procs /\ q.step = s /\ q.res = "UNKNOWN" /\ q.host = a /\ q.change = NoAddr
<1> DEFINE n == NoProc
           p == [n EXCEPT !.host = a]
<1>1. n \in Procs /\ n.step = "none" /\ n.res = "UNKNOWN" /\ n.change = NoAddr
  BY NoProcIs
<1> HIDE DEF n
<1>2. p = [step |-> n.step, retrys |-> n.retrys, first |-> n.first, host |-> a,
           map |-> n.map, change |-> n.change, res |-> n.res]
  BY <1>1 DEF Procs
<1>3. a \in Addrs
  BY DEF Addrs
<1> HIDE DEF p
<1>4. p \in Procs /\ p.host = a /\ p.res = "UNKNOWN" /\ p.change = NoAddr
  BY <1>1, <1>2, <1>3 DEF Procs
<1>5. IsAt(StepAt(p, s), p, s)
  BY <1>4, StepAtIs
<1> QED BY <1>3, <1>4, <1>5 DEF IsAt, p, n

LEMMA NoLoadIs == NoLoad \in Loads
<1>1. <<>> \in Seq(KeyLine)
  BY EmptySeq
<1>2. \A f \in BOOLEAN, e \in Seq(KeyLine) : [lines |-> e, mails |-> f, back |-> "read"] \in Loads
  BY DEF Loads
<1>3. [lines |-> <<>>, mails |-> FALSE, back |-> "read"] \in Loads
  BY <1>1, <1>2, Zenon
<1> QED BY <1>3 DEF NoLoad

LEMMA EmptyIs == EmptyCache \in Caches /\ Places(EmptyCache) = {} /\ Told(EmptyCache)
<1> DEFINE e == <<>>
<1>1. e \in Seq(Key) /\ Len(e) = 0
  BY EmptySeq
<1> HIDE DEF e
<1>2. EmptyCache = [keys |-> e, numbers |-> 0]
  BY DEF EmptyCache, e
<1> QED BY <1>1, <1>2 DEF Caches, Told, Places

LEMMA InitStart == Init => StartInv
<1> SUFFICES ASSUME Init
             PROVE  StartInv
  OBVIOUS
<1> USE DEF Init
<1>1. NetRight
  BY NatTypeAssumption DEF NetRight, AirRight
<1>2. NoLoad \in Loads /\ file \in Seq(KeyLine)
  BY NoLoadIs, StartUpAssumption
<1>3. ~bdg.skip => bdg.addr \in Answering
  BY DEF Nobdg
<1>4. uses \in 0..2 /\ odd \in BOOLEAN /\ runs \in 1..MaxRuns /\ cmds \in 0..MaxCmds /\ using \in Nat
  <2>1. odd \in BOOLEAN
    <3>1. odd = FALSE
      OBVIOUS
    <3> QED BY <3>1, FALSE \in BOOLEAN, Zenon
  <2>2. runs \in 1..MaxRuns /\ cmds \in 0..MaxCmds
    BY StartUpAssumption
  <2>3. uses \in 0..2 /\ using \in Nat
    OBVIOUS
  <2> QED BY <2>1, <2>2, <2>3
<1>5. ControlRight
  BY <1>2, <1>3, <1>4 DEF ControlRight, Pcs
<1>6. KeysRight
  BY EmptyIs DEF KeysRight, TempIs
<1>7. ProcRight
  BY NoProcIs DEF ProcRight
<1>8. TestsRight
  BY NoProcIs DEF TestsRight, Judged, HolesRight, DefaultHoles, FirstHoles, Stun
<1>9. GaveUp
  BY DEF GaveUp
<1> QED BY <1>1, <1>5, <1>6, <1>7, <1>8, <1>9 DEF StartInv

------------------------------------------------------------------------------
(* The steps.  Most of them leave the network and the process alone.       *)

LEMMA Rests ==
  ASSUME StartInv, pc \notin {"nat", "bdg"}, Quiet, history' = history, LastType' \in {LastType, "UNKNOWN"}
  PROVE  NetRight' /\ ProcRight' /\ TestsRight' /\ proc'.step = "none" /\ proc.step = "none"
<1> USE DEF StartInv, Quiet, net, history
<1>1. proc.step = "none"
  BY DEF ProcRight
<1>2. NetRight'
  BY DEF NetRight, AirRight
<1>3. ProcRight'
  BY <1>1 DEF ProcRight
<1>4. TestsRight'
  BY <1>1 DEF TestsRight, Judged, HolesRight, DefaultHoles, FirstHoles, Stun
<1> QED BY <1>1, <1>2, <1>3, <1>4

\* What is done to the cache.
LEMMA KeysStay ==
  ASSUME KeysRight, cache' = cache, temp' = temp
  PROVE  KeysRight'
BY DEF KeysRight, Told, TempIs, Places

LEMMA KeysMarked ==
  ASSUME KeysRight, NEW i \in Places(cache), NEW v \in Valid, cache' = Marked(cache, i, v), temp' = temp
  PROVE  KeysRight' /\ IsMarked(cache, cache', i, v)
<1>1. IsMarked(cache, cache', i, v)
  BY MarkedOne DEF KeysRight
<1>2. TempIs(cache', temp)
  BY <1>1 DEF IsMarked, KeysRight, TempIs, SameKey
<1> QED BY <1>1, <1>2 DEF KeysRight, IsMarked

LEMMA KeysWork ==
  ASSUME KeysRight, NEW n, cache' = KeyInfoWorksFine(cache, n), temp' = temp
  PROVE  KeysRight'
<1>1. /\ cache' \in Caches /\ Told(cache') /\ cache'.numbers = cache.numbers /\ Places(cache') = Places(cache)
      /\ \A j \in Places(cache) : SameKey(cache'.keys[j], cache.keys[j])
  BY WorksFineMarks DEF KeysRight
<1>2. TempIs(cache', temp)
  BY <1>1 DEF KeysRight, TempIs, SameKey
<1> QED BY <1>1, <1>2 DEF KeysRight

LEMMA KeysInserted ==
  ASSUME NEW c \in Caches, Told(c), NEW n \in Nat \cup {-1}, TempIs(c, n), NEW line \in KeyLine
  PROVE  TempIs(KeyInfoInsert(c, line), n)
<1> DEFINE d == KeyInfoInsert(c, line)
<1>1. IsInserted(c, d, line)
  BY InsertedLast
<1>2. c.numbers \in Nat /\ d.numbers \in Nat
  BY <1>1, KeysAre DEF IsInserted
<1> HIDE DEF d
<1>3. ASSUME n # -1, NEW i \in Places(d), d.keys[i].num = n
      PROVE  d.keys[i].addr = Self
  <2>1. i \in Places(c)
    BY <1>1, <1>2, <1>3 DEF IsInserted, TempIs
  <2> QED BY <1>1, <1>3, <2>1 DEF IsInserted, TempIs
<1> QED BY <1>1, <1>2, <1>3 DEF IsInserted, TempIs, d

LEMMA ReadsIs ==
  ASSUME NEW ls \in Seq(KeyLine), NEW m \in BOOLEAN, NEW b \in Backs
  PROVE  LET r == [lines |-> ls, mails |-> m, back |-> b]
         IN  r \in Loads /\ r.back = b
BY DEF Loads

LEMMA ReadFileStart == StartInv /\ KeyInfoReadFile => StartInv'
<1> SUFFICES ASSUME StartInv, KeyInfoReadFile
             PROVE  StartInv'
  OBVIOUS
<1> USE DEF KeyInfoReadFile, Reading, Goes, InRun, local, history
<1>1. NetRight' /\ ProcRight' /\ TestsRight'
  BY Rests
<1>2. KeysRight'
  BY KeysStay DEF StartInv
<1>3. load' \in Loads /\ load'.back = "config"
  <2>1. \A m \in BOOLEAN : LET r == [lines |-> file, mails |-> m, back |-> "config"]
                          IN  r \in Loads /\ r.back = "config"
    BY ReadsIs DEF StartInv, ControlRight, Backs
  <2> QED BY <2>1, Zenon
<1>4. ControlRight'
  BY <1>3 DEF StartInv, ControlRight, Pcs, Backs
<1>5. GaveUp'
  BY DEF GaveUp
<1> QED BY <1>1, <1>2, <1>4, <1>5 DEF StartInv

LEMMA LoadsSet ==
  ASSUME NEW l \in Loads, NEW ls \in Seq(KeyLine)
  PROVE  LET r == [l EXCEPT !.lines = ls]
         IN  r \in Loads /\ r.back = l.back
<1>1. [l EXCEPT !.lines = ls] = [lines |-> ls, mails |-> l.mails, back |-> l.back]
  BY DEF Loads
<1> QED BY <1>1 DEF Loads

LEMMA LoadLineStart == StartInv /\ LoadLine => StartInv'
<1> SUFFICES ASSUME StartInv, LoadLine
             PROVE  StartInv'
  OBVIOUS
<1> USE DEF LoadLine, InRun, local, history
<1>1. NetRight' /\ ProcRight' /\ TestsRight'
  BY Rests
<1>2. load.lines \in Seq(KeyLine) /\ load \in Loads
  BY DEF StartInv, ControlRight, Loads
<1>3. Head(load.lines) \in KeyLine /\ Tail(load.lines) \in Seq(KeyLine)
  BY <1>2, HeadTailProperties
<1>4. KeysRight'
  <2>1. CASE cache' = cache
    BY <2>1, KeysStay DEF StartInv
  <2>2. CASE cache' = KeyInfoInsert(cache, Head(load.lines))
    <3>1. cache \in Caches /\ Told(cache) /\ temp \in Nat \cup {-1} /\ TempIs(cache, temp)
      BY DEF StartInv, KeysRight
    <3>2. IsInserted(cache, cache', Head(load.lines))
      BY <1>3, <2>2, <3>1, InsertedLast
    <3>3. TempIs(cache', temp)
      BY <1>3, <2>2, <3>1, KeysInserted
    <3> QED BY <3>1, <3>2, <3>3 DEF KeysRight, IsInserted
  <2> QED BY <2>1, <2>2
<1>5. load' \in Loads /\ load'.back = load.back
  BY <1>2, <1>3, LoadsSet
<1>6. ControlRight'
  BY <1>5 DEF StartInv, ControlRight
<1>7. GaveUp'
  BY DEF GaveUp
<1> QED BY <1>1, <1>4, <1>6, <1>7 DEF StartInv

LEMMA LoadedStart == StartInv /\ Loaded => StartInv'
<1> SUFFICES ASSUME StartInv, Loaded
             PROVE  StartInv'
  OBVIOUS
<1> USE DEF Loaded, Goes, InRun, local, history
<1>1. NetRight' /\ ProcRight' /\ TestsRight'
  BY Rests
<1>2. KeysRight'
  BY KeysStay, KeysWork DEF StartInv
<1>3. load.back \in Backs /\ (load.back = "main" => cmds # 0)
  BY DEF StartInv, ControlRight
<1>4. ControlRight'
  BY <1>3, NoLoadIs DEF StartInv, ControlRight, Pcs, Backs
<1>5. GaveUp'
  BY <1>3 DEF GaveUp, Backs
<1> QED BY <1>1, <1>2, <1>4, <1>5 DEF StartInv

\* What using a CONFIG key does.
LEMMA UseConfigIs ==
  ASSUME UseConfig
  PROVE  LET i == KeyInfoSelectAnUnsureKey(cache, "CONFIG")
         IN  /\ pc = "config" /\ NoReading /\ Quiet /\ InRun /\ UNCHANGED <<local, cmds, history>>
             /\ \/ pc' = "exit" /\ UNCHANGED <<cache, NATtype>>
                \/ i # 0 /\ (\E n \in 0..3 : cache' = Bound(cache, i, n)) /\ pc' = "config" /\ UNCHANGED NATtype
                \/ /\ i # 0 /\ \E n \in 0..3 : cache' = KeyInfoWorksFine(Bound(cache, i, n), cache.keys[i].num)
                   /\ \/ pc' = "nat" /\ UNCHANGED NATtype
                      \/ pc' = "bdg" /\ NATtype' = "FULL_CONE"
<1>1. {0, 3} \subseteq 0..3 /\ 0..2 \subseteq 0..3
  OBVIOUS
<1> QED BY <1>1 DEF UseConfig, Goes

LEMMA UseConfigStart == StartInv /\ UseConfig => StartInv'
<1> SUFFICES ASSUME StartInv, UseConfig
             PROVE  StartInv'
  OBVIOUS
<1> DEFINE i == KeyInfoSelectAnUnsureKey(cache, "CONFIG")
<1>0. /\ pc = "config" /\ NoReading /\ Quiet /\ InRun /\ UNCHANGED <<local, cmds, history>>
      /\ \/ pc' = "exit" /\ UNCHANGED <<cache, NATtype>>
         \/ i # 0 /\ (\E n \in 0..3 : cache' = Bound(cache, i, n)) /\ pc' = "config" /\ UNCHANGED NATtype
         \/ /\ i # 0 /\ \E n \in 0..3 : cache' = KeyInfoWorksFine(Bound(cache, i, n), cache.keys[i].num)
            /\ \/ pc' = "nat" /\ UNCHANGED NATtype
               \/ pc' = "bdg" /\ NATtype' = "FULL_CONE"
  BY UseConfigIs
<1>1. NetRight' /\ ProcRight' /\ TestsRight'
  BY <1>0, Rests DEF local
<1>2. KeysRight'
  <2>1. i # 0 => i \in Places(cache) /\ cache.keys[i].type = "CONFIG"
    BY FoundOf DEF KeyInfoSelectAnUnsureKey, StartInv, KeysRight
  <2>2. temp' = -1 /\ temp = -1 /\ KeysRight
    BY <1>0 DEF local, StartInv, ControlRight
  <2>3. cache \in Caches /\ Told(cache)
    BY <2>2 DEF KeysRight
  <2> HIDE DEF i
  <2>4. ASSUME NEW n \in 0..3, i # 0
        PROVE  LET b == Bound(cache, i, n)
               IN  /\ b \in Caches /\ Told(b)
                   /\ \A m : KeyInfoWorksFine(b, m) \in Caches /\ Told(KeyInfoWorksFine(b, m))
    <3> DEFINE b == Bound(cache, i, n)
    <3>1. IsBound(cache, b, i, n)
      BY <2>1, <2>3, <2>4, BoundOne
    <3> HIDE DEF b
    <3>2. b \in Caches /\ Told(b)
      BY <3>1 DEF IsBound
    <3> QED BY <3>2, WorksFineMarks DEF b
  <2>5. cache' \in Caches /\ Told(cache')
    BY <1>0, <2>3, <2>4
  <2> QED BY <2>2, <2>5 DEF KeysRight, TempIs
<1> HIDE DEF i
<1>3. pc' \in {"exit", "config", "nat", "bdg"} /\ NATtype' \in NatKind \cup {"UNKNOWN"}
  BY <1>0 DEF StartInv, ControlRight, NatKind
<1>4. ControlRight'
  BY <1>0, <1>3 DEF StartInv, ControlRight, Pcs, NoReading, InRun, local, history
<1>5. GaveUp'
  BY <1>3 DEF GaveUp
<1> QED BY <1>1, <1>2, <1>4, <1>5 DEF StartInv

LEMMA ExitStart == StartInv /\ Exit => StartInv'
<1> SUFFICES ASSUME StartInv, Exit
             PROVE  StartInv'
  OBVIOUS
<1> USE DEF Exit, Goes, InRun, NoReading, local, history
<1>1. NetRight' /\ ProcRight' /\ TestsRight'
  BY Rests
<1>2. KeysRight'
  BY KeysStay DEF StartInv
<1>3. ControlRight'
  BY DEF StartInv, ControlRight, Pcs
<1>4. GaveUp'
  BY DEF GaveUp
<1> QED BY <1>1, <1>2, <1>3, <1>4 DEF StartInv

LEMMA WrittenIs ==
  ASSUME NEW c \in Caches
  PROVE  /\ KeyInfoWriteFile(c) \in Seq(KeyLine) /\ Len(KeyInfoWriteFile(c)) = Len(c.keys)
         /\ \A i \in Places(c) : KeyInfoWriteFile(c)[i] = LineOf(c.keys[i])
<1>1. DOMAIN c.keys = 1..Len(c.keys) /\ Len(c.keys) \in Nat
  BY KeysAre DEF Places
<1>2. \A i \in 1..Len(c.keys) : LineOf(c.keys[i]) \in KeyLine
  BY KeysAre DEF LineOf, KeyLine, Places
<1>3. KeyInfoWriteFile(c) = [i \in 1..Len(c.keys) |-> LineOf(c.keys[i])]
  BY <1>1 DEF KeyInfoWriteFile, LineOf
<1> HIDE DEF KeyInfoWriteFile
<1> QED BY <1>1, <1>2, <1>3 DEF Places

LEMMA WriteStart == StartInv /\ KeyInfoWrite => StartInv'
<1> SUFFICES ASSUME StartInv, KeyInfoWrite
             PROVE  StartInv'
  OBVIOUS
<1> USE DEF KeyInfoWrite, Goes, NoReading, local, history
<1>1. NetRight' /\ ProcRight' /\ TestsRight'
  BY Rests
<1>2. cache \in Caches /\ Told(cache) /\ temp \in Nat \cup {-1} /\ TempIs(cache, temp)
  BY DEF StartInv, KeysRight
<1>3. IsUpdated(cache, cache', Works(cache))
  BY <1>2, DeleByTypeLeaves DEF KeyInfoUpdate
<1>4. TempIs(cache', temp)
  BY <1>2, <1>3 DEF TempIs, IsUpdated, SameKey
<1>5. KeysRight' /\ cache' \in Caches
  BY <1>2, <1>3, <1>4 DEF KeysRight, IsUpdated
<1>6. file' \in Seq(KeyLine)
  BY <1>5, WrittenIs
<1>7. ControlRight'
  BY <1>6 DEF StartInv, ControlRight, Pcs
<1>8. GaveUp'
  BY DEF GaveUp
<1> QED BY <1>1, <1>5, <1>7, <1>8 DEF StartInv

\* A mark that is not WORKS or UNSURE makes none.
LEMMA MarkedNot ==
  ASSUME NEW c, NEW d, NEW i, IsMarked(c, d, i, "NOT"), NEW ty
  PROVE  (Untried(d, ty) => Untried(c, ty)) /\ (Worked(d, ty) => Worked(c, ty))
BY DEF IsMarked, Untried, Worked, SameKey

LEMMA UseMailStart ==
  ASSUME StartInv, NEW p, NEW again, NEW none, UseMail(p, again, none),
         \/ p = "natmail" /\ again = "nat" /\ none = "exit"
         \/ p = "bdgmail" /\ again = "bdg" /\ none = "main"
  PROVE  StartInv'
<1> DEFINE i == KeyInfoSelectAnUnsureKey(cache, "MAILSERVER")
           ls == Mails(cache.keys[i].addr)
<1>0. /\ pc = p /\ LastType' = "UNKNOWN" /\ Quiet /\ InRun /\ UNCHANGED <<NATtype, bdg, temp, cmds, history>>
      /\ \/ i = 0 /\ pc' = none /\ UNCHANGED <<load, cache, using>>
         \/ /\ i # 0 /\ cache' = Marked(cache, i, "NOT") /\ using' = cache.keys[i].num
            /\ \/ UNCHANGED <<pc, load>>
               \/ pc' = "load" /\ load' = [lines |-> ls, mails |-> TRUE, back |-> again]
  BY DEF UseMail, Goes, NoReading, Reading
<1>1. NetRight' /\ ProcRight' /\ TestsRight'
  BY <1>0, Rests
<1>2. cache \in Caches /\ KeysRight /\ "NOT" \in Valid
  BY DEF StartInv, KeysRight, Valid
<1>3. /\ i # 0 => i \in Places(cache) /\ cache.keys[i].num \in Nat /\ ls \in Seq(KeyLine)
      /\ i = 0 => ~Untried(cache, "MAILSERVER")
  <2>1. /\ i # 0 => i \in Places(cache)
        /\ i = 0 => ~Untried(cache, "MAILSERVER")
    BY <1>2, FoundOf DEF KeyInfoSelectAnUnsureKey, Untried
  <2> HIDE DEF i
  <2>2. i # 0 => cache.keys[i].num \in Nat
    BY <1>2, <2>1, KeysAre
  <2>3. \A a : Mails(a) \in Seq(KeyLine)
    BY EmptySeq, StartUpAssumption DEF Mails
  <2> QED BY <2>1, <2>2, <2>3
<1>4. again \in Backs /\ again \notin {"main", "config"}
  BY DEF Backs
<1>5. \A m \in BOOLEAN : ls \in Seq(KeyLine) =>
        LET r == [lines |-> ls, mails |-> m, back |-> again]
        IN  r \in Loads /\ r.back = again
  BY <1>4, ReadsIs
<1>6. ls \in Seq(KeyLine) => LET r == [lines |-> ls, mails |-> TRUE, back |-> again]
                             IN  r \in Loads /\ r.back = again
  BY <1>5, Zenon
<1> HIDE DEF i, ls
<1>7. KeysRight' /\ (i # 0 => IsMarked(cache, cache', i, "NOT"))
  <2>1. CASE i = 0
    BY <1>0, <1>2, <2>1, KeysStay
  <2>2. CASE i # 0
    BY <1>0, <1>2, <1>3, <2>2, KeysMarked
  <2> QED BY <2>1, <2>2
<1>8. /\ load' \in Loads /\ using' \in Nat
      /\ pc' = "load" => load'.back \in Backs /\ load'.back # "main"
  BY <1>0, <1>3, <1>4, <1>6 DEF StartInv, ControlRight
<1>9. pc' \in Pcs
  BY <1>0 DEF Pcs
<1>10. ControlRight'
  <2>1. pc' \notin {"read", "config"} /\ (pc' = "load" => load'.back # "config")
    BY <1>0, <1>4, <1>6, <1>3
  <2> QED BY <1>0, <1>8, <1>9, <2>1 DEF StartInv, ControlRight, InRun, history
<1>11. GaveUp'
  <2>1. \A ty : (Untried(cache', ty) => Untried(cache, ty)) /\ (Worked(cache', ty) => Worked(cache, ty))
    BY <1>0, <1>7, MarkedNot
  <2>2. CASE pc' = p
    BY <1>0, <2>1, <2>2 DEF StartInv, GaveUp
  <2>3. CASE pc' = "load"
    BY <2>3 DEF GaveUp
  <2>4. CASE i = 0 /\ pc' = none
    BY <1>0, <1>3, <2>1, <2>4 DEF StartInv, GaveUp
  <2> QED BY <1>0, <2>2, <2>3, <2>4
<1> QED BY <1>1, <1>7, <1>10, <1>11 DEF StartInv

LEMMA SelectMailStart == StartInv /\ SelectMail => StartInv'
BY UseMailStart DEF SelectMail

------------------------------------------------------------------------------
(* The steps of the main loop.                                             *)

LEMMA CommandStart ==
  ASSUME StartInv, Command, KeysRight', load' \in Loads,
         \/ pc' = pc /\ load' = load
         \/ pc' = "load" /\ load'.back = "main"
  PROVE  StartInv'
<1> USE DEF Command, InRun, history
<1>1. NetRight' /\ ProcRight' /\ TestsRight'
  BY Rests
<1>2. cmds \in 0..MaxCmds /\ MaxCmds \in Nat /\ "main" \in Backs
  BY StartUpAssumption DEF StartInv, ControlRight, Backs
<1>3. cmds' \in 0..MaxCmds /\ cmds' # 0
  BY <1>2
<1>4. ControlRight'
  BY <1>2, <1>3 DEF StartInv, ControlRight, Pcs
<1>5. GaveUp'
  BY <1>3 DEF GaveUp
<1> QED BY <1>1, <1>4, <1>5 DEF StartInv

LEMMA KeyChangeStart ==
  ASSUME StartInv, KeyChange, KeysRight'
  PROVE  StartInv'
<1>1. load \in Loads
  BY DEF StartInv, ControlRight
<1> QED BY <1>1, CommandStart DEF KeyChange, NoReading

LEMMA IKeyStart == StartInv /\ IKey => StartInv'
<1> SUFFICES ASSUME StartInv, IKey
             PROVE  StartInv'
  OBVIOUS
<1>1. PICK i \in DOMAIN cache.keys, v \in {"NOT", "UNSURE"} : cache' = Marked(cache, i, v)
  BY DEF IKey
<1>2. DOMAIN cache.keys = Places(cache) /\ KeysRight
  BY KeysAre DEF StartInv, KeysRight
<1>3. KeysRight'
  BY <1>1, <1>2, KeysMarked DEF IKey, Valid
<1> QED BY <1>3, KeyChangeStart DEF IKey

LEMMA ReadKeyStart == StartInv /\ ReadKey => StartInv'
<1> SUFFICES ASSUME StartInv, ReadKey
             PROVE  StartInv'
  OBVIOUS
<1>1. KeysRight'
  BY KeysStay DEF StartInv, ReadKey
<1>2. pc' = "load" /\ load' = [lines |-> file, mails |-> FALSE, back |-> "main"]
  BY DEF ReadKey, Reading, Goes
<1>3. \A m \in BOOLEAN : LET r == [lines |-> file, mails |-> m, back |-> "main"]
                        IN  r \in Loads /\ r.back = "main"
  BY ReadsIs DEF StartInv, ControlRight, Backs
<1>4. load' \in Loads /\ load'.back = "main"
  BY <1>2, <1>3, Zenon
<1> QED BY <1>1, <1>2, <1>4, CommandStart DEF ReadKey

LEMMA StartPop3ProcessStart == StartInv /\ StartPop3Process => StartInv'
<1> SUFFICES ASSUME StartInv, StartPop3Process
             PROVE  StartInv'
  OBVIOUS
<1> DEFINE i == KeyInfoFindByType(cache, "MAILSERVER")
<1>1. i # 0 /\ cache' = Marked(cache, i, "NOT") /\ temp' = temp
  BY DEF StartPop3Process
<1>2. i \in Places(cache) /\ KeysRight /\ "NOT" \in Valid
  BY <1>1, FoundByType DEF StartInv, KeysRight, Valid
<1>3. KeysRight'
  BY <1>1, <1>2, KeysMarked
<1> QED BY <1>3, KeyChangeStart DEF StartPop3Process

LEMMA NewAddrSentStart == StartInv /\ NewAddrSent => StartInv'
<1> SUFFICES ASSUME StartInv, NewAddrSent
             PROVE  StartInv'
  OBVIOUS
<1>1. cache' = KeyInfoDele(cache, temp) /\ temp' = -1 /\ cache \in Caches /\ Told(cache)
  BY DEF NewAddrSent, StartInv, KeysRight
<1>2. IsWithout(cache, cache', temp)
  BY <1>1, DeleTakesOne
<1>3. KeysRight'
  BY <1>1, <1>2 DEF KeysRight, IsWithout, TempIs
<1> QED BY <1>3, KeyChangeStart DEF NewAddrSent

LEMMA SendingNewAddrStart == StartInv /\ SendingNewAddr => StartInv'
<1> SUFFICES ASSUME StartInv, SendingNewAddr
             PROVE  StartInv'
  OBVIOUS
<1> DEFINE i == KeyInfoFindByType(cache, "SMTPSERVER")
           b == Marked(cache, i, "NOT")
           line == [type |-> "BRIDGEPEER", addr |-> Self]
           c == KeyInfoInsert(b, line)
           k == FindKeyInfoByAddr(c, Self)
<1>1. i # 0 /\ cache' = c /\ temp' = c.keys[k].num
  BY DEF SendingNewAddr
<1>2. i \in Places(cache) /\ cache \in Caches /\ Told(cache) /\ "NOT" \in Valid
  BY <1>1, FoundByType DEF StartInv, KeysRight, Valid
<1>3. line \in KeyLine /\ line.addr = Self
  BY StartUpAssumption DEF KeyLine, KeyType
<1> HIDE DEF i, line
<1>4. b \in Caches /\ Told(b)
  <2>1. IsMarked(cache, b, i, "NOT")
    BY <1>2, MarkedOne
  <2> HIDE DEF b
  <2> QED BY <2>1 DEF IsMarked
<1> HIDE DEF b
<1>5. /\ c \in Caches /\ Told(c)
      /\ \E j \in Places(c) : c.keys[j].addr = Self
  BY <1>3, <1>4, InsertedLast DEF IsInserted
<1> HIDE DEF c
<1>6. k \in Places(c) /\ c.keys[k].addr = Self
  BY <1>5, FoundByAddr
<1>7. c.keys[k].num \in Nat /\ c.keys[k].num < c.numbers /\ c.numbers \in Nat
  BY <1>5, <1>6, KeysAre DEF Told
<1>8. \A j \in Places(c) : c.keys[j].num = c.keys[k].num => c.keys[j].addr = Self
  BY <1>5, <1>6 DEF Told
<1> HIDE DEF k
<1>9. KeysRight'
  BY <1>1, <1>5, <1>7, <1>8 DEF KeysRight, TempIs
<1> QED BY <1>9, KeyChangeStart DEF SendingNewAddr

LEMMA RestartStart == StartInv /\ Restart => StartInv'
<1> SUFFICES ASSUME StartInv, Restart
             PROVE  StartInv'
  OBVIOUS
<1> USE DEF Restart, Goes, HolesClose, StartInv, history
<1>1. proc.step = "none"
  BY DEF ProcRight
<1>2. NetRight'
  BY DEF NetRight, AirRight
<1>3. ProcRight'
  BY <1>1 DEF ProcRight
<1>4. TestsRight'
  <2>1. Judged("UNKNOWN")'
    BY DEF Judged
  <2>2. HolesRight'
    BY <1>1 DEF TestsRight, HolesRight, DefaultHoles, FirstHoles, Stun
  <2> QED BY <2>1, <2>2 DEF TestsRight
<1>5. KeysRight'
  BY EmptyIs DEF KeysRight, TempIs
<1>6. runs' \in 1..MaxRuns
  BY StartUpAssumption DEF ControlRight
<1>7. ~bdg'.skip => bdg'.addr \in Answering
  BY DEF Nobdg
<1>8. ControlRight'
  BY <1>6, <1>7, StartUpAssumption DEF ControlRight, Pcs
<1>9. GaveUp'
  BY DEF GaveUp
<1> QED BY <1>2, <1>3, <1>4, <1>5, <1>8, <1>9

------------------------------------------------------------------------------
(* KeyInfoUse: a server is selected, and polled.                           *)

\* A key is selected for a step: the process begins with it.
LEMMA MadeStart ==
  ASSUME StartInv, proc.step = "none", NEW p, NEW s \in Steps, NEW i \in Places(cache),
         pc = p, pc' = pc, \/ p = "nat" /\ s = "BindingRequest"
                           \/ p = "bdg" /\ s = "TryBdgServer",
         proc' = StepAt([NoProc EXCEPT !.host = cache.keys[i].addr], s),
         using' = cache.keys[i].num, cache' = Marked(cache, i, "NOT"),
         uses' = IF uses < 2 THEN uses + 1 ELSE uses, odd' = (odd \/ OddPort(p, cache.keys[i].addr)),
         NoReading, InRun, UNCHANGED <<net, NATtype, LastType, bdg, temp, cmds>>
  PROVE  StartInv'
<1>1. cache \in Caches /\ KeysRight /\ "NOT" \in Valid /\ uses \in 0..2 /\ odd \in BOOLEAN
  BY DEF StartInv, KeysRight, Valid, ControlRight
<1>2. /\ proc' \in Procs /\ proc'.step = s /\ proc'.res = "UNKNOWN"
      /\ proc'.host = cache.keys[i].addr /\ proc'.host \in NetAddr /\ proc'.change = NoAddr
  <2>1. cache.keys[i].addr \in NetAddr
    BY <1>1, KeysAre
  <2> QED BY <2>1, MadeIs
<1>3. KeysRight' /\ IsMarked(cache, cache', i, "NOT")
  BY <1>1, KeysMarked
<1>4. NetRight'
  BY DEF StartInv, NetRight, AirRight, net
<1>5. Used(cache)'
  BY <1>2, <1>3 DEF IsMarked, Used, SameKey
<1>6. uses' \in {1, 2} /\ (uses' = 1 => uses = 0) /\ odd' \in BOOLEAN /\ (~odd' => ~odd)
  BY <1>1
<1>7. s # "none" /\ (p = "nat" <=> s \in Stun)
  BY DEF Stun
<1>8. AtStep'
  <2>1. Learns(proc')
    BY <1>2 DEF Learns
  <2>2. Judged(proc.res)'
    BY <1>2 DEF Judged
  <2>3. ~odd' => /\ s \in Stun => proc'.host.port = STUN_DEFAULT_PORT
                 /\ s \notin Stun => proc'.host \notin STUNs
    BY <1>2, <1>7 DEF OddPort
  <2> QED BY <1>2, <1>6, <1>7, <2>1, <2>2, <2>3 DEF AtStep, STUNs
<1>9. ProcRight'
  BY <1>2, <1>5, <1>7, <1>8 DEF ProcRight
<1>10. TestsRight'
  <2>1. Judged(LastType)'
    BY <1>1, <1>6 DEF StartInv, TestsRight, Judged, net
  <2>2. LastType' # "UNKNOWN" => uses' # 0
    BY <1>6
  <2>3. uses' = 1 => punched' = {} /\ air' = {} /\ proc'.change.ip # proc'.host.ip
    <3>1. proc'.host.ip \in IPs /\ NoAddr.ip \notin IPs
      BY <1>2, NetAddrAssumption DEF NetAddr, NoAddr
    <3> QED BY <1>2, <1>6, <3>1 DEF StartInv, TestsRight, HolesRight, net
  <2>4. HolesRight'
    <3>1. DefaultHoles(punched)'
      BY <1>6 DEF StartInv, TestsRight, HolesRight, DefaultHoles, net, STUNs
    <3>2. FirstHoles(punched, air)'
      BY <2>3 DEF FirstHoles
    <3> QED BY <1>6, <2>3, <3>1, <3>2 DEF HolesRight
  <2> QED BY <2>1, <2>2, <2>4 DEF TestsRight
<1>11. ControlRight'
  <2>1. using' \in Nat
    BY <1>1, KeysAre
  <2> QED BY <1>6, <2>1 DEF StartInv, ControlRight, NoReading, InRun
<1>12. GaveUp'
  BY DEF GaveUp
<1> QED BY <1>3, <1>4, <1>9, <1>10, <1>11, <1>12 DEF StartInv

\* None is left: the mails are next.
LEMMA NoneStart ==
  ASSUME StartInv, proc.step = "none",
         \/ pc' = "natmail" /\ ~Untried(cache, "STUNSERVER") /\ ~Worked(cache, "STUNSERVER")
         \/ pc' = "bdgmail" /\ ~Untried(cache, "BRIDGEPEER"),
         NoReading, InRun, UNCHANGED <<net, proc, cache, NATtype, local, cmds, history>>
  PROVE  StartInv'
<1> USE DEF StartInv, net, local, history
<1>1. NetRight'
  BY DEF NetRight, AirRight
<1>2. ProcRight'
  BY DEF ProcRight
<1>3. TestsRight'
  BY DEF TestsRight, Judged, HolesRight, DefaultHoles, FirstHoles
<1>4. KeysRight'
  BY KeysStay
<1>5. ControlRight'
  BY DEF ControlRight, NoReading, InRun, Pcs
<1>6. GaveUp'
  BY DEF GaveUp
<1> QED BY <1>1, <1>2, <1>3, <1>4, <1>5, <1>6

LEMMA SelectSTUNStart == StartInv /\ SelectSTUN => StartInv'
<1> SUFFICES ASSUME StartInv, SelectSTUN
             PROVE  StartInv'
  OBVIOUS
<1> DEFINE i == KeyInfoSelectAnotherKeyByPriority(cache, "STUNSERVER")
           u == FindOf(cache, "STUNSERVER", "UNSURE")
           w == LastOf(cache, "STUNSERVER", "WORKS")
<1>1. /\ pc = "nat" /\ proc.step = "none" /\ NoReading /\ InRun /\ UNCHANGED <<net, NATtype, LastType, bdg, temp, cmds>>
      /\ \/ i = 0 /\ pc' = "natmail" /\ UNCHANGED <<cache, using, proc, history>>
         \/ /\ i # 0 /\ proc' = MakeProtoStunProc(cache.keys[i].addr)
            /\ uses' = IF uses < 2 THEN uses + 1 ELSE uses
            /\ odd' = (odd \/ OddPort("nat", cache.keys[i].addr))
            /\ using' = cache.keys[i].num /\ cache' = Marked(cache, i, "NOT") /\ pc' = pc
  BY DEF SelectSTUN, Select, Goes
<1>2. cache \in Caches
  BY DEF StartInv, KeysRight
<1>3. u \in Places(cache) \cup {0} /\ (u = 0 => ~Untried(cache, "STUNSERVER"))
  BY <1>2, FoundOf DEF Untried
<1>4. w \in Places(cache) \cup {0} /\ (w = 0 => ~Worked(cache, "STUNSERVER"))
  BY <1>2, LastOfIs DEF Worked
<1>5. i = IF u # 0 THEN u ELSE w
  BY DEF KeyInfoSelectAnotherKeyByPriority
<1> HIDE DEF i, u, w
<1>6. "BindingRequest" \in Steps
  BY StepsAre DEF Stun
<1>7. CASE i = 0
  <2>1. UNCHANGED <<cache, using, proc, history>> /\ pc' = "natmail"
    BY <1>1, <1>7
  <2> QED BY <1>1, <1>3, <1>4, <1>5, <1>7, <2>1, NoneStart DEF local
<1>8. CASE i # 0
  <2>1. i \in Places(cache)
    BY <1>3, <1>4, <1>5, <1>8
  <2>2. proc' = StepAt([NoProc EXCEPT !.host = cache.keys[i].addr], "BindingRequest")
    BY <1>1, <1>8 DEF MakeProtoStunProc
  <2> QED BY <1>1, <1>6, <1>8, <2>1, <2>2, MadeStart
<1> QED BY <1>7, <1>8

LEMMA SelectBridgeStart == StartInv /\ SelectBridge => StartInv'
<1> SUFFICES ASSUME StartInv, SelectBridge
             PROVE  StartInv'
  OBVIOUS
<1> DEFINE i == KeyInfoSelectAnUnsureKey(cache, "BRIDGEPEER")
<1>1. /\ pc = "bdg" /\ proc.step = "none" /\ NoReading /\ InRun /\ UNCHANGED <<net, NATtype, LastType, bdg, temp, cmds>>
      /\ \/ i = 0 /\ pc' = "bdgmail" /\ UNCHANGED <<cache, using, proc, history>>
         \/ /\ i # 0 /\ proc' = MakeTryBdgServer(cache.keys[i].addr)
            /\ uses' = IF uses < 2 THEN uses + 1 ELSE uses
            /\ odd' = (odd \/ OddPort("bdg", cache.keys[i].addr))
            /\ using' = cache.keys[i].num /\ cache' = Marked(cache, i, "NOT") /\ pc' = pc
  BY DEF SelectBridge, Select, Goes
<1>2. cache \in Caches
  BY DEF StartInv, KeysRight
<1>3. i \in Places(cache) \cup {0} /\ (i = 0 => ~Untried(cache, "BRIDGEPEER"))
  BY <1>2, FoundOf DEF Untried, KeyInfoSelectAnUnsureKey
<1> HIDE DEF i
<1>4. "TryBdgServer" \in Steps
  BY StepsAre
<1>5. CASE i = 0
  BY <1>1, <1>3, <1>5, NoneStart DEF local
<1>6. CASE i # 0
  <2>1. i \in Places(cache)
    BY <1>3, <1>6
  <2>2. proc' = StepAt([NoProc EXCEPT !.host = cache.keys[i].addr], "TryBdgServer")
    BY <1>1, <1>6 DEF MakeTryBdgServer
  <2> QED BY <1>1, <1>4, <1>6, <2>1, <2>2, MadeStart
<1> QED BY <1>5, <1>6

LEMMA GoesOnStart ==
  ASSUME StartInv, NEW state \in TimerState, NEW heard \in Heards, Polls(state, heard), ~Ends(state, heard),
         proc' = After(state, heard), UNCHANGED <<pc, cache, NATtype, local, cmds, history>>, NoReading, InRun
  PROVE  StartInv'
<1> USE DEF local, history
<1>1. AtStep /\ NetRight /\ HolesRight /\ pc \in {"nat", "bdg"} /\ Used(cache)
      /\ (pc = "nat" <=> proc.step \in Stun)
  BY DEF StartInv, ProcRight, TestsRight, Polls
<1>2. NetRight' /\ NetThen(punched', air') /\ nat' = nat
  BY <1>1, PolledNet
<1>3. LET q == After(state, heard)
      IN  /\ Learns(q) /\ Judged(q.res) /\ q.host = proc.host
          /\ q.step \in Stun <=> proc.step \in Stun
          /\ q.step \in Stun \cup {"TryBdgServer"}
          /\ q.step \in {"BindingRequest", "ChangeIPAndPort"} => proc.step \in {"BindingRequest", "ChangeIPAndPort"}
          /\ q.step = "BindingRequest" => proc.step = "BindingRequest"
          /\ uses = 1 /\ q.step \in Stun \ {"ChangePort"} => q.change.ip # proc.host.ip
  BY <1>1, AfterIs
<1>4. /\ Learns(proc') /\ Judged(proc'.res) /\ proc'.host = proc.host
      /\ proc'.step \in Stun <=> proc.step \in Stun
      /\ proc'.step \in Stun \cup {"TryBdgServer"}
      /\ proc'.step \in {"BindingRequest", "ChangeIPAndPort"} => proc.step \in {"BindingRequest", "ChangeIPAndPort"}
      /\ proc'.step = "BindingRequest" => proc.step = "BindingRequest"
      /\ uses = 1 /\ proc'.step \in Stun \ {"ChangePort"} => proc'.change.ip # proc.host.ip
  BY <1>3
<1>5. AtStep'
  <2>1. Judged(proc.res)'
    BY <1>2, <1>4 DEF Judged
  <2> QED BY <1>1, <1>4, <2>1 DEF AtStep, Stun, STUNs
<1>6. ProcRight'
  <2>1. Used(cache)'
    BY <1>1, <1>4 DEF Used, Places
  <2>2. proc' \in Procs
    BY <1>4 DEF Learns
  <2> QED BY <1>1, <1>4, <1>5, <2>1, <2>2 DEF ProcRight
<1>7. TestsRight'
  <2>1. Judged(LastType)'
    BY <1>2 DEF StartInv, TestsRight, Judged
  <2>2. HolesRight'
    <3>1. DefaultHoles(punched)'
      BY <1>2 DEF NetThen, DefaultHoles, STUNs
    <3>2. FirstHoles(punched, air)'
      BY <1>2, <1>4 DEF NetThen, FirstHoles
    <3>3. uses \in {1, 2}
      BY <1>1 DEF AtStep
    <3> QED BY <1>4, <3>1, <3>2, <3>3 DEF HolesRight
  <2> QED BY <2>1, <2>2 DEF StartInv, TestsRight
<1>8. KeysRight'
  BY KeysStay DEF StartInv
<1>9. ControlRight'
  BY DEF StartInv, ControlRight, NoReading, InRun
<1>10. GaveUp'
  BY <1>1 DEF GaveUp
<1> QED BY <1>2, <1>6, <1>7, <1>8, <1>9, <1>10 DEF StartInv

\* The process has ended.
LEMMA EndsStart ==
  ASSUME StartInv, NEW state \in TimerState, NEW heard \in Heards, Polls(state, heard),
         proc' = NoProc, NoReading, InRun, UNCHANGED <<using, temp, cmds, history>>,
         IF proc.step = "TryBdgServer" THEN BdgHelloNotify(Outcome(state, heard)[2])
         ELSE StunNotify(Outcome(state, heard)[2])
  PROVE  StartInv'
<1> DEFINE o == Outcome(state, heard)
           p == o[2]
<1>1. AtStep /\ NetRight /\ HolesRight /\ pc \in {"nat", "bdg"}
      /\ (pc = "nat" <=> proc.step \in Stun)
  BY DEF StartInv, ProcRight, TestsRight, Polls
<1>2. NetRight' /\ NetThen(punched', air') /\ nat' = nat
  BY <1>1, PolledNet
<1>3. Learnt(o[1], p)
  BY <1>1, OutcomeLearnt
<1>4. IF proc.step = "TryBdgServer" THEN BdgHelloNotify(p) ELSE StunNotify(p)
  OBVIOUS
<1> HIDE DEF o
<1>5. proc' \in Procs /\ proc'.step = "none"
  BY NoProcIs
<1>6. ProcRight'
  BY <1>5 DEF ProcRight
<1>7. HolesRight'
  <2>1. DefaultHoles(punched)'
    BY <1>2 DEF NetThen, DefaultHoles, STUNs, history
  <2>2. uses' \in {1, 2} /\ proc'.step \notin Stun
    BY <1>1, <1>5 DEF AtStep, Stun, history
  <2> QED BY <2>1, <2>2 DEF HolesRight, FirstHoles
<1>8. CASE proc.step = "TryBdgServer"
  <2>1. /\ bdg' = [addr |-> p.host, skip |-> p.res # "HERE"] /\ UNCHANGED <<NATtype, LastType>>
        /\ \/ p.res = "HERE" /\ cache' = KeyInfoWorksFine(cache, using) /\ pc' = "main"
           \/ p.res # "HERE" /\ UNCHANGED <<cache, pc>>
    BY <1>4, <1>8 DEF BdgHelloNotify, Goes
  <2>2. /\ ~bdg'.skip => p.res = "HERE" /\ bdg'.addr = p.host
        /\ p.res = "HERE" => ~bdg'.skip
    <3>1. \A f \in BOOLEAN : \A a : LET b == [addr |-> a, skip |-> f] IN b.skip = f /\ b.addr = a
      OBVIOUS
    <3>2. (p.res # "HERE") \in BOOLEAN
      OBVIOUS
    <3>3. bdg'.skip = (p.res # "HERE") /\ bdg'.addr = p.host
      BY <2>1, <3>1, <3>2, Zenon
    <3> QED BY <3>3
  <2>4. ~bdg'.skip => bdg'.addr \in Answering
    BY <1>3, <2>2 DEF Learnt
  <2>5. pc = "bdg" /\ pc' \in {"bdg", "main"}
    BY <1>1, <1>8, <2>1 DEF Stun
  <2>6. KeysRight'
    BY <2>1, KeysStay, KeysWork DEF StartInv
  <2>7. ControlRight'
    BY <2>1, <2>4, <2>5 DEF StartInv, ControlRight, NoReading, InRun, Pcs, history
  <2>8. TestsRight'
    <3>1. Judged(LastType)'
      BY <1>2, <2>1 DEF history, StartInv, TestsRight, Judged
    <3> QED BY <1>7, <2>1, <3>1 DEF history, StartInv, TestsRight
  <2>9. GaveUp'
    BY <2>1, <2>2, <2>5 DEF GaveUp
  <2> QED BY <1>2, <1>6, <2>6, <2>7, <2>8, <2>9 DEF StartInv
<1>9. CASE proc.step # "TryBdgServer"
  <2>1. /\ UNCHANGED bdg
        /\ \/ p.res = "UNKNOWN" /\ UNCHANGED <<pc, cache, NATtype, LastType>>
           \/ /\ p.res # "UNKNOWN" /\ NATtype' = p.res /\ LastType' = p.res
              /\ cache' = KeyInfoWorksFine(cache, using)
              /\ pc' \in {pc, "bdg"}
    BY <1>4, <1>9 DEF StunNotify, Goes
  <2>2. proc.step \in Stun /\ uses \in {1, 2}
    BY <1>1, <1>9, AtStepIs DEF AtStep
  <2>3. p.res \in NatKind \cup {"UNKNOWN"} /\ Judged(p.res)
    BY <1>3, <2>2 DEF Learnt, Procs, Results
  <2>4. pc' \in {"nat", "bdg"}
    BY <1>1, <2>1
  <2>5. KeysRight'
    BY <2>1, KeysStay, KeysWork DEF StartInv
  <2>6. ControlRight'
    BY <2>1, <2>3, <2>4 DEF StartInv, ControlRight, NoReading, InRun, Pcs, history
  <2>7. TestsRight'
    <3>1. Judged(LastType)'
      BY <1>2, <2>1, <2>3 DEF history, StartInv, TestsRight, Judged
    <3> QED BY <1>7, <2>1, <2>2, <3>1 DEF history, StartInv, TestsRight
  <2>8. GaveUp'
    BY <2>4 DEF GaveUp
  <2> QED BY <1>2, <1>6, <2>5, <2>6, <2>7, <2>8 DEF StartInv
<1> QED BY <1>8, <1>9

LEMMA UseStart == StartInv /\ Use => StartInv'
<1> SUFFICES ASSUME StartInv, NEW state, NEW heard, UsePolled(state, heard)
             PROVE  StartInv'
  BY DEF Use
<1>1. /\ Polls(state, heard) /\ NoReading /\ InRun /\ UNCHANGED <<using, temp, cmds, history>>
      /\ IF ~Ends(state, heard)
         THEN proc' = After(state, heard) /\ UNCHANGED <<pc, cache, NATtype, LastType, bdg>>
         ELSE /\ proc' = NoProc
              /\ IF proc.step = "TryBdgServer" THEN BdgHelloNotify(Outcome(state, heard)[2])
                 ELSE StunNotify(Outcome(state, heard)[2])
  BY DEF UsePolled
<1>2. state \in TimerState /\ heard \in Heards
  BY <1>1 DEF Polls, Heards
<1> QED BY <1>1, <1>2, GoesOnStart, EndsStart DEF local

------------------------------------------------------------------------------
(* The theorems.                                                           *)

LEMMA StutterStart == StartInv /\ UNCHANGED vars => StartInv'
<1> SUFFICES ASSUME StartInv, UNCHANGED vars
             PROVE  StartInv'
  OBVIOUS
<1> USE DEF StartInv, vars, net, local, history
<1>1. NetRight'
  BY DEF NetRight, AirRight
<1>2. ControlRight'
  BY DEF ControlRight
<1>3. KeysRight'
  BY KeysStay
<1>4. ProcRight'
  BY DEF ProcRight, AtStep, Judged, Used, Places
<1>5. TestsRight'
  BY DEF TestsRight, Judged, HolesRight, DefaultHoles, FirstHoles
<1>6. GaveUp'
  BY DEF GaveUp, Untried, Worked, Places
<1> QED BY <1>1, <1>2, <1>3, <1>4, <1>5, <1>6

LEMMA NextStart == StartInv /\ [Next]_vars => StartInv'
BY ReadFileStart, LoadLineStart, LoadedStart, UseConfigStart, SelectSTUNStart, SelectBridgeStart,
   SelectMailStart, WriteStart, UseStart, ExitStart, RestartStart, IKeyStart, ReadKeyStart,
   SendingNewAddrStart, NewAddrSentStart, StartPop3ProcessStart, StutterStart
   DEF Next, Main

\* What has been heard, marked and judged fits what has been sent, on every run.
THEOREM Started == Spec => []StartInv
BY InitStart, NextStart, PTL DEF Spec

LEMMA KeysTyped ==
  ASSUME NEW c \in Caches
  PROVE  {c.keys[i] : i \in DOMAIN c.keys} \subseteq Key
BY KeysAre

LEMMA StartTyped == StartInv => TypeOK
<1> SUFFICES ASSUME StartInv
             PROVE  TypeOK
  OBVIOUS
<1> USE DEF StartInv
<1>1. NetTypeOK
  BY DEF NetRight, AirRight, ProcRight, Procs, Results, NetTypeOK
<1>2. (\A i \in DOMAIN load.lines : load.lines[i] \in KeyLine) /\ \A i \in DOMAIN file : file[i] \in KeyLine
  <2>1. \A s \in Seq(KeyLine) : \A i \in DOMAIN s : s[i] \in KeyLine
    BY ElementOfSeq, LenProperties
  <2>2. load.lines \in Seq(KeyLine) /\ file \in Seq(KeyLine)
    BY DEF ControlRight, Loads
  <2> QED BY <2>1, <2>2
<1>3. Keys \subseteq Key
  BY KeysTyped DEF KeysRight, Keys
<1>4. cache.numbers \in Nat
  BY DEF KeysRight, Caches
<1> QED BY <1>1, <1>2, <1>3, <1>4 DEF TypeOK, ControlRight, Pcs, KeysRight

\* The types of the state.
THEOREM Typed == Spec => []TypeOK
BY Started, StartTyped, PTL

\* As many keys as places: no two are alike.
LEMMA KeysCounted ==
  ASSUME NEW c \in Caches, Told(c)
  PROVE  Len(c.keys) = Cardinality({c.keys[i] : i \in DOMAIN c.keys})
<1> DEFINE n == Len(c.keys)
           K == {c.keys[i] : i \in DOMAIN c.keys}
           f == [i \in 1..n |-> c.keys[i]]
<1>1. n \in Nat /\ DOMAIN c.keys = 1..n
  BY KeysAre DEF Places
<1>2. f \in Bijection(1..n, K)
  <2>1. f \in [1..n -> K] /\ \A k \in K : \E i \in 1..n : f[i] = k
    BY <1>1
  <2>2. \A i, j \in 1..n : f[i] = f[j] => i = j
    BY DEF Told, Places
  <2> QED BY <2>1, <2>2 DEF Bijection, Injection, Surjection, IsInjective
<1>3. IsFiniteSet(1..n) /\ Cardinality(1..n) = n
  <2>1. 1 \in Int /\ n \in Int
    BY <1>1
  <2> HIDE DEF n
  <2>2. IsFiniteSet(1..n) /\ Cardinality(1..n) = IF 1 > n THEN 0 ELSE n - 1 + 1
    BY <2>1, FS_Interval
  <2> QED BY <1>1, <2>2
<1>4. Cardinality(K) = Cardinality(1..n)
  BY <1>2, <1>3, FS_Bijection DEF ExistsBijection
<1> QED BY <1>3, <1>4

LEMMA StartNumbers == StartInv => NumbersTellKeys
<1> SUFFICES ASSUME StartInv
             PROVE  NumbersTellKeys
  OBVIOUS
<1>1. cache \in Caches /\ Told(cache) /\ DOMAIN cache.keys = Places(cache)
  BY KeysAre DEF StartInv, KeysRight
<1>2. \A k, l \in Keys : k # l => /\ k.num # l.num
                                  /\ k.addr = l.addr => "CONFIG" \in {k.type, l.type}
  BY <1>1 DEF Told, Keys, Apart
<1>3. Len(cache.keys) = Cardinality(Keys)
  BY <1>1, KeysCounted DEF Keys
<1>4. ASSUME proc.step # "none"
      PROVE  /\ FindKeyInfoByNum(cache, using) # 0
             /\ KeyOf(using).valid = "NOT" /\ KeyOf(using).addr = proc.host
  <2> DEFINE k == FindKeyInfoByNum(cache, using)
  <2>1. PICK i \in Places(cache) :
          cache.keys[i].num = using /\ cache.keys[i].valid = "NOT" /\ cache.keys[i].addr = proc.host
    BY <1>4 DEF StartInv, ProcRight, Used
  <2>2. k # 0
    BY <1>1, <2>1, FoundByNum
  <2>3. k \in Places(cache) /\ cache.keys[k].num = using
    BY <1>1, <2>2, FoundByNum
  <2>4. k = i
    BY <1>1, <2>1, <2>3 DEF Told
  <2> QED BY <2>1, <2>2, <2>4 DEF KeyOf
<1> QED BY <1>2, <1>3, <1>4 DEF NumbersTellKeys

\* A number is that of one key, an address too but for CONFIG keys that count
\* on, and the key in use is the one that is marked.
THEOREM Numbered == Spec => []NumbersTellKeys
BY Started, StartNumbers, PTL

LEMMA StartGivesUp == StartInv => GivesUpOnAll
<1> SUFFICES ASSUME StartInv
             PROVE  GivesUpOnAll
  OBVIOUS
<1>1. cache \in Caches /\ GaveUp
  BY DEF StartInv, KeysRight
<1>2. \A ty : ~Untried(cache, ty) => FindOf(cache, ty, "UNSURE") = 0
  BY <1>1, FoundOf DEF Untried
<1>3. \A ty : ~Worked(cache, ty) => LastOf(cache, ty, "WORKS") = 0
  BY <1>1, LastOfIs DEF Worked
<1> QED BY <1>1, <1>2, <1>3 DEF GivesUpOnAll, GaveUp

\* The search gives up only when every key has been tried.
THEOREM GaveUpOnAll == Spec => []GivesUpOnAll
BY Started, StartGivesUp, PTL

LEMMA StartAnswered == StartInv => BridgeAnswered
BY DEF StartInv, ControlRight, BridgeAnswered

\* The client registers with a peer that has answered.
THEOREM Answered == Spec => []BridgeAnswered
BY Started, StartAnswered, PTL

LEMMA StartNeverTooOpen == StartInv => NeverTooOpen
BY DEF StartInv, TestsRight, Judged, NeverTooOpen

\* No loss, delay or hole makes the NAT seem open to ports it is not open to,
\* in the first test, and in all of them while their keys are at port 3478.
THEOREM NotTooOpen == Spec => []NeverTooOpen
BY Started, StartNeverTooOpen, PTL

------------------------------------------------------------------------------
(* KeysKept: what the file had is in the cache when it is written.  In a   *)
(* file that gives an address two types the second line is not taken       *)
(* (KeyInfoInsert), and no other key of its type need be left.  So it is   *)
(* with a line whose address a CONFIG key has counted on to.               *)

\* The lines that are ever read.
AllLines == UNION {{f[i] : i \in DOMAIN f} : f \in FirstFiles \cup {Mails(a) : a \in DOMAIN Mailbox}}

\* What CONFIG keys may count on to is no other key's address.
Counts    == {PortAfter(l.addr, n) : l \in {m \in AllLines : m.type = "CONFIG"}, n \in 0..3}
Separate  == Self \notin Counts /\ \A l \in AllLines : l.type # "CONFIG" => l.addr \notin Counts
RightLine(l) == IF l.type = "CONFIG" THEN \A n \in 0..3 : PortAfter(l.addr, n) \in Counts
                ELSE l.addr \notin Counts

OneType(f) == \A i, j \in DOMAIN f : f[i].addr = f[j].addr => f[i] = f[j]
HasLine(c, l) == \E i \in Places(c) : LineOf(c.keys[i]) = l
InFile(l) == \E j \in DOMAIN file : file[j] = l
Loading   == pc = "load" /\ load.back = "config"

RightLines(f) == \A j \in DOMAIN f : RightLine(f[j])
RightKeys(c)  == \A i \in Places(c) : /\ RightLine(LineOf(c.keys[i]))
                                      /\ c.keys[i].type = "CONFIG" => c.keys[i].addr \in Counts
\* The CONFIG keys that have not been selected.
Uncounted(c)  == \A i \in Places(c) :
                   c.keys[i].type = "CONFIG" /\ c.keys[i].valid = "UNSURE" => c.keys[i].addr = c.keys[i].text

\* The lines of the file that are not in the cache are yet to be read.
ReadSoFar ==
  /\ ~load.mails
  /\ \A i \in Places(cache) : InFile(LineOf(cache.keys[i])) /\ cache.keys[i].addr = cache.keys[i].text
  /\ \A j \in DOMAIN load.lines : InFile(load.lines[j])
  /\ \A j \in DOMAIN file : \/ HasLine(cache, file[j])
                            \/ \E k \in DOMAIN load.lines : load.lines[k] = file[j]

FileRight ==
  /\ OneType(file) /\ RightLines(file) /\ RightKeys(cache)
  /\ pc = "load" => RightLines(load.lines)
  /\ pc = "read" => cache = EmptyCache
  /\ pc = "config" => Uncounted(cache)
  /\ Loading => ReadSoFar
  /\ pc \notin {"read", "off"} /\ ~Loading =>
        \A j \in DOMAIN file : file[j].addr # Self => HasLine(cache, file[j])

\* Nothing of c is missing in d but, perhaps, the program's own address.
Keeps(c, d) == /\ \A i \in Places(c) : c.keys[i].text # Self => HasLine(d, LineOf(c.keys[i]))
               /\ RightKeys(c) => RightKeys(d)

LEMMA LinesRight ==
  ASSUME Separate
  PROVE  /\ \A f \in FirstFiles : RightLines(f)
         /\ \A a : RightLines(Mails(a))
<1>1. \A l \in AllLines : RightLine(l)
  <2> SUFFICES ASSUME NEW l \in AllLines
               PROVE  RightLine(l)
    OBVIOUS
  <2>1. CASE l.type = "CONFIG"
    BY <2>1 DEF RightLine, Counts
  <2>2. CASE l.type # "CONFIG"
    BY <2>2 DEF RightLine, Separate
  <2> QED BY <2>1, <2>2
<1>2. \A f \in FirstFiles : RightLines(f)
  BY <1>1 DEF AllLines, RightLines
<1>3. ASSUME NEW a
      PROVE  RightLines(Mails(a))
  <2>1. CASE a \in DOMAIN Mailbox
    BY <1>1, <2>1 DEF AllLines, RightLines
  <2>2. CASE a \notin DOMAIN Mailbox
    BY <2>2 DEF Mails, RightLines
  <2> QED BY <2>1, <2>2
<1> QED BY <1>2, <1>3

LEMMA MarkedKeeps ==
  ASSUME NEW c, NEW d, NEW i, NEW v, IsMarked(c, d, i, v)
  PROVE  Keeps(c, d)
BY DEF IsMarked, Keeps, HasLine, SameKey, LineOf, RightKeys

LEMMA WorksFineKeeps ==
  ASSUME NEW c \in Caches, Told(c), NEW n
  PROVE  Keeps(c, KeyInfoWorksFine(c, n))
<1> DEFINE d == KeyInfoWorksFine(c, n)
<1>1. Places(d) = Places(c) /\ \A j \in Places(c) : SameKey(d.keys[j], c.keys[j])
  BY WorksFineMarks
<1> HIDE DEF d
<1>2. Keeps(c, d)
  BY <1>1 DEF Keeps, HasLine, SameKey, LineOf, RightKeys
<1> QED BY <1>2 DEF d

LEMMA InsertedKeeps ==
  ASSUME NEW c, NEW d, NEW line \in KeyLine, RightLine(line), IsInserted(c, d, line)
  PROVE  Keeps(c, d)
<1>1. \A i \in Places(c) : HasLine(d, LineOf(c.keys[i]))
  BY DEF IsInserted, HasLine
<1>2. ASSUME RightKeys(c), NEW j \in Places(d)
      PROVE  RightLine(LineOf(d.keys[j])) /\ (d.keys[j].type = "CONFIG" => d.keys[j].addr \in Counts)
  <2>1. CASE j \in Places(c)
    <3>1. d.keys[j] = c.keys[j]
      BY <2>1 DEF IsInserted
    <3>2. RightLine(LineOf(c.keys[j])) /\ (c.keys[j].type = "CONFIG" => c.keys[j].addr \in Counts)
      BY <1>2, <2>1, Zenon DEF RightKeys
    <3> QED BY <3>1, <3>2
  <2>2. CASE j \notin Places(c)
    <3>1. LineOf(d.keys[j]) = line /\ d.keys[j].addr = d.keys[j].text
      BY <2>2 DEF IsInserted
    <3>2. d.keys[j].type = line.type /\ d.keys[j].addr = line.addr
      BY <3>1 DEF LineOf
    <3>3. line.type = "CONFIG" => PortAfter(line.addr, 0) = line.addr /\ PortAfter(line.addr, 0) \in Counts
      BY PortAfterIs DEF RightLine, KeyLine
    <3> QED BY <3>1, <3>2, <3>3
  <2> QED BY <2>1, <2>2
<1> QED BY <1>1, <1>2 DEF Keeps, RightKeys

LEMMA SameKeeps ==
  ASSUME NEW c
  PROVE  Keeps(c, c)
BY DEF Keeps, HasLine

LEMMA KeepsBoth ==
  ASSUME NEW b, NEW c, NEW d, Keeps(b, c), Keeps(c, d)
  PROVE  Keeps(b, d)
<1>1. ASSUME NEW i \in Places(b), b.keys[i].text # Self
      PROVE  HasLine(d, LineOf(b.keys[i]))
  <2>1. PICK j \in Places(c) : LineOf(c.keys[j]) = LineOf(b.keys[i])
    BY <1>1 DEF Keeps, HasLine
  <2>2. c.keys[j].text = b.keys[i].text
    BY <2>1 DEF LineOf
  <2> QED BY <1>1, <2>1, <2>2 DEF Keeps
<1> QED BY <1>1 DEF Keeps

\* Once the file is read, a step that keeps the keys keeps its lines.
LEMMA FileStays ==
  ASSUME FileRight, pc \notin {"read", "off"}, ~Loading, Keeps(cache, cache'), file' = file,
         pc' # "read", pc' = "config" => Uncounted(cache'),
         pc' = "load" => load'.back # "config" /\ RightLines(load'.lines)
  PROVE  FileRight'
<1>1. OneType(file') /\ RightLines(file')
  BY DEF FileRight
<1>2. RightKeys(cache') /\ ~Loading'
  BY DEF FileRight, Keeps, Loading
<1>3. ASSUME NEW j \in DOMAIN file, file[j].addr # Self
      PROVE  HasLine(cache', file[j])
  <2>1. PICK i \in Places(cache) : LineOf(cache.keys[i]) = file[j]
    BY <1>3 DEF FileRight, HasLine
  <2>2. cache.keys[i].text = file[j].addr
    BY <2>1 DEF LineOf
  <2> QED BY <1>3, <2>1, <2>2 DEF Keeps
<1>4. (\A j \in DOMAIN file : file[j].addr # Self => HasLine(cache, file[j]))'
  BY <1>3 DEF HasLine, Places
<1>5. RightKeys(cache)' /\ (pc = "config" => Uncounted(cache))' /\ (pc = "load" => RightLines(load.lines))'
  BY <1>2 DEF RightKeys, Uncounted, Places, RightLines
<1> QED BY <1>1, <1>2, <1>4, <1>5 DEF FileRight

LEMMA BoundKeeps ==
  ASSUME NEW c \in Caches, NEW d, NEW i \in Places(c), NEW n \in 0..3, IsBound(c, d, i, n), Uncounted(c),
         c.keys[i].type = "CONFIG", c.keys[i].valid = "UNSURE"
  PROVE  Keeps(c, d) /\ Uncounted(d)
<1>1. \A j \in Places(c) : HasLine(d, LineOf(c.keys[j]))
  BY DEF IsBound, HasLine
<1>2. Uncounted(d)
  BY DEF IsBound, Uncounted
<1>3. ASSUME RightKeys(c)
      PROVE  d.keys[i].addr \in Counts
  <2>1. RightLine(LineOf(c.keys[i]))
    BY <1>3, Zenon DEF RightKeys
  <2>3. c.keys[i].addr = c.keys[i].text
    BY DEF Uncounted
  <2>2. LineOf(c.keys[i]).type = "CONFIG" /\ LineOf(c.keys[i]).addr = c.keys[i].text
    BY DEF LineOf
  <2> QED BY <2>1, <2>2, <2>3 DEF RightLine, IsBound
<1>4. RightKeys(c) => RightKeys(d)
  BY <1>3 DEF IsBound, RightKeys
<1> QED BY <1>1, <1>2, <1>4 DEF Keeps

LEMMA UseConfigFile == StartInv /\ FileRight /\ UseConfig => FileRight'
<1> SUFFICES ASSUME StartInv, FileRight, UseConfig
             PROVE  FileRight'
  OBVIOUS
<1> DEFINE i == KeyInfoSelectAnUnsureKey(cache, "CONFIG")
<1>1. /\ pc = "config" /\ file' = file
      /\ \/ pc' = "exit" /\ cache' = cache
         \/ i # 0 /\ (\E n \in 0..3 : cache' = Bound(cache, i, n)) /\ pc' = "config"
         \/ /\ i # 0 /\ \E n \in 0..3 : cache' = KeyInfoWorksFine(Bound(cache, i, n), cache.keys[i].num)
            /\ pc' \in {"nat", "bdg"}
  BY UseConfigIs DEF InRun
<1>2. cache \in Caches /\ Told(cache) /\ Uncounted(cache)
  BY <1>1 DEF StartInv, KeysRight, FileRight
<1>3. i # 0 => i \in Places(cache) /\ cache.keys[i].type = "CONFIG" /\ cache.keys[i].valid = "UNSURE"
  BY <1>2, FoundOf DEF KeyInfoSelectAnUnsureKey
<1> HIDE DEF i
<1>4. ASSUME NEW n \in 0..3, i # 0
      PROVE  LET b == Bound(cache, i, n)
             IN  b \in Caches /\ Told(b) /\ Keeps(cache, b) /\ Uncounted(b)
  <2> DEFINE b == Bound(cache, i, n)
  <2>1. IsBound(cache, b, i, n)
    BY <1>2, <1>3, <1>4, BoundOne
  <2> HIDE DEF b
  <2>2. b \in Caches /\ Told(b)
    BY <2>1 DEF IsBound
  <2>3. Keeps(cache, b) /\ Uncounted(b)
    BY <1>2, <1>3, <1>4, <2>1, BoundKeeps
  <2> QED BY <2>2, <2>3 DEF b
<1>5. Keeps(cache, cache') /\ (pc' = "config" => Uncounted(cache'))
  <2>1. CASE pc' = "exit" /\ cache' = cache
    BY <2>1, SameKeeps
  <2>2. CASE i # 0 /\ \E n \in 0..3 : cache' = Bound(cache, i, n)
    BY <1>4, <2>2
  <2>3. CASE /\ i # 0 /\ \E n \in 0..3 : cache' = KeyInfoWorksFine(Bound(cache, i, n), cache.keys[i].num)
             /\ pc' \in {"nat", "bdg"}
    <3>1. PICK n \in 0..3 : cache' = KeyInfoWorksFine(Bound(cache, i, n), cache.keys[i].num)
      BY <2>3
    <3> DEFINE b == Bound(cache, i, n)
    <3>2. b \in Caches /\ Told(b) /\ Keeps(cache, b)
      BY <1>4, <2>3
    <3>3. cache' = KeyInfoWorksFine(b, cache.keys[i].num)
      BY <3>1
    <3> HIDE DEF b
    <3>4. Keeps(b, cache')
      BY <3>2, <3>3, WorksFineKeeps
    <3> QED BY <2>3, <3>2, <3>4, KeepsBoth
  <2> QED BY <1>1, <2>1, <2>2, <2>3
<1> QED BY <1>1, <1>5, FileStays DEF Loading

\* A place a search finds is marked.
LEMMA FoundKeeps ==
  ASSUME StartInv, NEW i \in Places(cache) \cup {0}, i # 0 => cache' = Marked(cache, i, "NOT"),
         i = 0 => cache' = cache
  PROVE  Keeps(cache, cache')
<1>1. cache \in Caches /\ Told(cache) /\ "NOT" \in Valid
  BY DEF StartInv, KeysRight, Valid
<1>2. CASE i = 0
  BY <1>2, SameKeeps
<1>3. CASE i # 0
  <2>1. IsMarked(cache, cache', i, "NOT")
    BY <1>1, <1>3, MarkedOne
  <2> QED BY <2>1, MarkedKeeps
<1> QED BY <1>2, <1>3

LEMMA SelectFile == Separate /\ StartInv /\ FileRight /\ (SelectSTUN \/ SelectBridge \/ SelectMail) => FileRight'
<1> SUFFICES ASSUME Separate, StartInv, FileRight, SelectSTUN \/ SelectBridge \/ SelectMail
             PROVE  FileRight'
  OBVIOUS
<1>0. cache \in Caches
  BY DEF StartInv, KeysRight
<1>1. CASE SelectSTUN
  <2> DEFINE i == KeyInfoSelectAnotherKeyByPriority(cache, "STUNSERVER")
  <2>1. /\ pc = "nat" /\ pc' \in {"nat", "natmail"} /\ file' = file
        /\ i # 0 => cache' = Marked(cache, i, "NOT")
        /\ i = 0 => cache' = cache
    BY <1>1 DEF SelectSTUN, Select, Goes, InRun
  <2>2. i \in Places(cache) \cup {0}
    BY <1>0, FoundOf, LastOfIs DEF KeyInfoSelectAnotherKeyByPriority
  <2> HIDE DEF i
  <2>3. Keeps(cache, cache')
    BY <2>1, <2>2, FoundKeeps
  <2> QED BY <2>1, <2>3, FileStays DEF Loading
<1>2. CASE SelectBridge
  <2> DEFINE i == KeyInfoSelectAnUnsureKey(cache, "BRIDGEPEER")
  <2>1. /\ pc = "bdg" /\ pc' \in {"bdg", "bdgmail"} /\ file' = file
        /\ i # 0 => cache' = Marked(cache, i, "NOT")
        /\ i = 0 => cache' = cache
    BY <1>2 DEF SelectBridge, Select, Goes, InRun
  <2>2. i \in Places(cache) \cup {0}
    BY <1>0, FoundOf DEF KeyInfoSelectAnUnsureKey
  <2> HIDE DEF i
  <2>3. Keeps(cache, cache')
    BY <2>1, <2>2, FoundKeeps
  <2> QED BY <2>1, <2>3, FileStays DEF Loading
<1>3. CASE SelectMail
  <2> DEFINE i == KeyInfoSelectAnUnsureKey(cache, "MAILSERVER")
  <2>0. PICK again \in {"nat", "bdg"}, p \in {"natmail", "bdgmail"}, none \in {"exit", "main"} :
          UseMail(p, again, none)
    BY <1>3 DEF SelectMail
  <2>1. /\ pc \in {"natmail", "bdgmail"} /\ file' = file
        /\ pc' \in {"natmail", "bdgmail", "exit", "main"} \/ (pc' = "load" /\ load' = [lines |-> Mails(cache.keys[i].addr), mails |-> TRUE, back |-> again])
        /\ i # 0 => cache' = Marked(cache, i, "NOT")
        /\ i = 0 => cache' = cache
    BY <2>0 DEF UseMail, Goes, InRun, Reading
  <2>2. i \in Places(cache) \cup {0}
    BY <1>0, FoundOf DEF KeyInfoSelectAnUnsureKey
  <2>3. pc' = "load" => load'.back # "config" /\ RightLines(load'.lines)
    <3> DEFINE ls == Mails(cache.keys[i].addr)
    <3>1. \A l, m : LET r == [lines |-> l, mails |-> m, back |-> again] IN r.back = again /\ r.lines = l
      OBVIOUS
    <3>5. LET r == [lines |-> ls, mails |-> TRUE, back |-> again] IN r.back = again /\ r.lines = ls
      BY <3>1, Zenon
    <3>2. RightLines(ls)
      BY LinesRight
    <3> HIDE DEF i, ls
    <3>3. pc' = "load" => load' = [lines |-> ls, mails |-> TRUE, back |-> again]
      BY <2>1 DEF ls
    <3>4. pc' = "load" => load'.back = again /\ load'.lines = ls
      BY <3>3, <3>5, Zenon
    <3> QED BY <3>2, <3>4
  <2> HIDE DEF i
  <2>4. Keeps(cache, cache')
    BY <2>1, <2>2, FoundKeeps
  <2> QED BY <2>1, <2>3, <2>4, FileStays DEF Loading
<1> QED BY <1>1, <1>2, <1>3

LEMMA ReadFileFile == StartInv /\ FileRight /\ KeyInfoReadFile => FileRight'
<1> SUFFICES ASSUME StartInv, FileRight, KeyInfoReadFile
             PROVE  FileRight'
  OBVIOUS
<1>1. /\ pc = "read" /\ pc' = "load" /\ file' = file /\ cache' = cache
      /\ load' = [lines |-> file, mails |-> FALSE, back |-> "config"]
  BY DEF KeyInfoReadFile, Reading, Goes, InRun
<1>2. load'.lines = file /\ ~load'.mails /\ load'.back = "config"
  <2>1. \A m \in BOOLEAN : LET r == [lines |-> file, mails |-> m, back |-> "config"]
                          IN  r.lines = file /\ r.mails = m /\ r.back = "config"
    OBVIOUS
  <2>2. load'.lines = file /\ load'.mails = FALSE /\ load'.back = "config"
    BY <1>1, <2>1, Zenon
  <2> QED BY <2>2
<1>3. Places(cache) = {}
  BY <1>1, EmptyIs DEF FileRight
<1>4. Places(cache') = {}
  BY <1>1, <1>3
<1>5. ReadSoFar'
  <2>1. \A j \in DOMAIN file' : \E k \in DOMAIN load'.lines : load'.lines[k] = file'[j]
    BY <1>1, <1>2
  <2>2. (\A i \in Places(cache) : InFile(LineOf(cache.keys[i])) /\ cache.keys[i].addr = cache.keys[i].text)'
    BY <1>4 DEF Places
  <2>3. (\A j \in DOMAIN load.lines : InFile(load.lines[j]))'
    BY <1>1, <1>2 DEF InFile
  <2> QED BY <1>2, <2>1, <2>2, <2>3 DEF ReadSoFar
<1>6. Loading' /\ OneType(file') /\ RightLines(file') /\ RightLines(load'.lines)
  BY <1>1, <1>2 DEF Loading, FileRight
<1>7. RightKeys(cache)'
  BY <1>4 DEF RightKeys, Places
<1>8. RightLines(load.lines)'
  BY <1>6 DEF RightLines
<1> QED BY <1>1, <1>5, <1>6, <1>7, <1>8 DEF FileRight

\* The line that is read is in the cache then; another key of its address is
\* of the same line.
LEMMA LoadLineFile == StartInv /\ FileRight /\ LoadLine => FileRight'
<1> SUFFICES ASSUME StartInv, FileRight, LoadLine
             PROVE  FileRight'
  OBVIOUS
<1> DEFINE h == Head(load.lines)
<1>1. /\ pc = "load" /\ pc' = pc /\ file' = file /\ load.lines # <<>>
      /\ load' = [load EXCEPT !.lines = Tail(@)]
      /\ \/ cache' = KeyInfoInsert(cache, h)
         \/ load.mails /\ cache' = cache
  BY DEF LoadLine, InRun
<1>2. load \in Loads /\ load.lines \in Seq(KeyLine) /\ cache \in Caches /\ Told(cache)
  BY DEF StartInv, ControlRight, KeysRight, Loads
<1>3. load' = [lines |-> Tail(load.lines), mails |-> load.mails, back |-> load.back]
  <2> DEFINE ls == Tail(load.lines)
  <2>1. load' = [load EXCEPT !.lines = ls]
    BY <1>1
  <2> HIDE DEF ls
  <2>2. load' = [lines |-> ls, mails |-> load.mails, back |-> load.back]
    BY <1>2, <2>1 DEF Loads
  <2> QED BY <2>2 DEF ls
<1>4. load'.lines = Tail(load.lines) /\ load'.back = load.back /\ load'.mails = load.mails
  <2>1. load.mails \in BOOLEAN
    BY <1>2 DEF Loads
  <2>2. \A ls, b : \A m \in BOOLEAN : LET r == [lines |-> ls, mails |-> m, back |-> b]
                                     IN  r.lines = ls /\ r.mails = m /\ r.back = b
    OBVIOUS
  <2> QED BY <1>3, <2>1, <2>2, Zenon
<1>5. /\ h \in KeyLine /\ h = load.lines[1] /\ 1 \in DOMAIN load.lines
      /\ \A k \in DOMAIN load'.lines : k + 1 \in DOMAIN load.lines /\ load'.lines[k] = load.lines[k + 1]
      /\ \A k \in DOMAIN load.lines : k = 1 \/ (k - 1 \in DOMAIN load'.lines /\ load'.lines[k - 1] = load.lines[k])
  <2> DEFINE s == load.lines
             t == Tail(s)
  <2>1. s \in Seq(KeyLine) /\ s # <<>>
    BY <1>1, <1>2
  <2> HIDE DEF s
  <2>2. /\ Head(s) \in KeyLine /\ Head(s) = s[1] /\ Len(s) \in Nat /\ Len(s) # 0 /\ DOMAIN s = 1..Len(s)
        /\ t \in Seq(KeyLine) /\ Len(t) = Len(s) - 1 /\ \A k \in 1..Len(t) : t[k] = s[k + 1]
    BY <2>1, HeadTailProperties, LenProperties, EmptySeq
  <2>3. DOMAIN t = 1..Len(s) - 1
    BY <2>2, LenProperties
  <2> HIDE DEF t
  <2>4. /\ 1 \in DOMAIN s /\ \A k \in DOMAIN t : k + 1 \in DOMAIN s /\ t[k] = s[k + 1]
        /\ \A k \in DOMAIN s : k = 1 \/ (k - 1 \in DOMAIN t /\ t[k - 1] = s[k])
    BY <2>2, <2>3
  <2> QED BY <1>4, <2>2, <2>4 DEF s, t
<1> HIDE DEF h
<1>r. RightLine(h) /\ RightLines(load'.lines)
  BY <1>1, <1>5 DEF FileRight, RightLines
<1>6. CASE ~Loading
  <2>1. Keeps(cache, cache')
    <3>1. CASE cache' = cache
      BY <3>1, SameKeeps
    <3>2. CASE cache' = KeyInfoInsert(cache, h)
      <4>1. IsInserted(cache, cache', h)
        BY <1>2, <1>5, <3>2, InsertedLast
      <4> QED BY <1>5, <1>r, <4>1, InsertedKeeps
    <3> QED BY <1>1, <3>1, <3>2
  <2> QED BY <1>1, <1>4, <1>6, <1>r, <2>1, FileStays DEF Loading
<1>7. CASE Loading
  <2>1. ReadSoFar
    BY <1>7 DEF FileRight
  <2>2. IsInserted(cache, cache', h)
    BY <1>1, <1>2, <1>5, <2>1, InsertedLast DEF ReadSoFar
  <2>3. InFile(h)
    BY <1>5, <2>1 DEF ReadSoFar
  <2>4. \A i \in Places(cache') : InFile(LineOf(cache'.keys[i])) /\ cache'.keys[i].addr = cache'.keys[i].text
    BY <2>1, <2>2, <2>3 DEF IsInserted, ReadSoFar
  <2>5. HasLine(cache', h)
    <3>1. PICK i \in Places(cache') : cache'.keys[i].addr = h.addr
      BY <2>2 DEF IsInserted
    <3>2. InFile(LineOf(cache'.keys[i])) /\ LineOf(cache'.keys[i]).addr = h.addr
      BY <2>4, <3>1 DEF LineOf
    <3>3. LineOf(cache'.keys[i]) = h
      BY <2>3, <3>2 DEF InFile, FileRight, OneType
    <3> QED BY <3>3 DEF HasLine
  <2>6. \A l : HasLine(cache, l) => HasLine(cache', l)
    BY <2>2 DEF IsInserted, HasLine
  <2>7. \A j \in DOMAIN file : \/ HasLine(cache', file[j])
                               \/ \E k \in DOMAIN load'.lines : load'.lines[k] = file[j]
    <3> SUFFICES ASSUME NEW j \in DOMAIN file, ~HasLine(cache', file[j])
                 PROVE  \E k \in DOMAIN load'.lines : load'.lines[k] = file[j]
      OBVIOUS
    <3>1. PICK k \in DOMAIN load.lines : load.lines[k] = file[j]
      BY <2>1, <2>6 DEF ReadSoFar
    <3>2. k # 1
      BY <1>5, <2>5, <3>1
    <3>3. k - 1 \in DOMAIN load'.lines /\ load'.lines[k - 1] = file[j]
      BY <1>5, <3>1, <3>2
    <3> QED BY <3>3
  <2>8. \A k \in DOMAIN load'.lines : InFile(load'.lines[k])
    BY <1>5, <2>1 DEF ReadSoFar
  <2>9. ReadSoFar'
    BY <1>1, <1>4, <2>1, <2>4, <2>7, <2>8 DEF InFile, HasLine, Places, ReadSoFar
  <2>10. Loading' /\ pc' # "read" /\ OneType(file') /\ RightLines(file')
    BY <1>1, <1>4, <1>7 DEF Loading, FileRight
  <2>11. RightKeys(cache)' /\ RightLines(load.lines)'
    <3>1. Keeps(cache, cache')
      BY <1>5, <1>r, <2>2, InsertedKeeps
    <3>2. RightKeys(cache')
      BY <3>1 DEF Keeps, FileRight
    <3> QED BY <1>r, <3>2 DEF RightKeys, RightLines, Places
  <2> QED BY <1>1, <2>9, <2>10, <2>11 DEF FileRight
<1> QED BY <1>6, <1>7

LEMMA LoadedFile == StartInv /\ FileRight /\ Loaded => FileRight'
<1> SUFFICES ASSUME StartInv, FileRight, Loaded
             PROVE  FileRight'
  OBVIOUS
<1>1. /\ pc = "load" /\ load.lines = <<>> /\ pc' = load.back /\ file' = file
      /\ cache' = IF load.mails THEN KeyInfoWorksFine(cache, using) ELSE cache
      /\ load.back \in Backs /\ cache \in Caches /\ Told(cache)
  BY DEF Loaded, Goes, InRun, StartInv, ControlRight, KeysRight
<1>2. Keeps(cache, cache')
  BY <1>1, WorksFineKeeps, SameKeeps
<1>3. pc' \in {"config", "nat", "bdg", "main"}
  BY <1>1 DEF Backs
<1>4. CASE ~Loading
  BY <1>1, <1>2, <1>3, <1>4, FileStays DEF Loading
<1>5. CASE Loading
  <2>1. DOMAIN load.lines = {}
    BY <1>1
  <2>2. cache' = cache /\ \A j \in DOMAIN file : HasLine(cache, file[j])
    BY <1>1, <1>5, <2>1 DEF FileRight, ReadSoFar
  <2>3. (\A j \in DOMAIN file : file[j].addr # Self => HasLine(cache, file[j]))'
    BY <1>1, <2>2 DEF HasLine, Places
  <2>4. Uncounted(cache)' /\ RightKeys(cache)' /\ OneType(file') /\ RightLines(file')
    BY <1>1, <1>5, <2>2 DEF FileRight, ReadSoFar, Uncounted, RightKeys, Places
  <2> QED BY <1>1, <1>3, <2>3, <2>4 DEF FileRight, Loading
<1> QED BY <1>4, <1>5

LEMMA WriteFile == StartInv /\ FileRight /\ KeyInfoWrite => FileRight'
<1> SUFFICES ASSUME StartInv, FileRight, KeyInfoWrite
             PROVE  FileRight'
  OBVIOUS
<1>1. /\ pc' = "off" /\ cache' = DeleKeyInfoByType(cache, Works(cache)) /\ file' = KeyInfoWriteFile(cache')
      /\ cache \in Caches /\ Told(cache)
  BY DEF KeyInfoWrite, Goes, KeyInfoUpdate, StartInv, KeysRight
<1>2. IsUpdated(cache, cache', Works(cache))
  BY <1>1, DeleByTypeLeaves
<1>3. cache' \in Caches /\ Told(cache')
  BY <1>2 DEF IsUpdated
<1>4. /\ DOMAIN file' = Places(cache')
      /\ \A i \in Places(cache') : file'[i] = LineOf(cache'.keys[i])
  <2>1. file' \in Seq(KeyLine) /\ Len(file') = Len(cache'.keys)
        /\ \A i \in Places(cache') : file'[i] = LineOf(cache'.keys[i])
    BY <1>1, <1>3, WrittenIs
  <2>2. DOMAIN file' = 1..Len(file')
    BY <2>1, LenProperties
  <2> QED BY <2>1, <2>2 DEF Places
<1>5. RightKeys(cache')
  <2>1. \A j \in Places(cache') : \E i \in Places(cache) : SameKey(cache'.keys[j], cache.keys[i])
    BY <1>2 DEF IsUpdated
  <2>2. \A k, l : SameKey(k, l) => LineOf(k) = LineOf(l) /\ k.type = l.type /\ k.addr = l.addr
    BY DEF SameKey, LineOf
  <2> QED BY <2>1, <2>2 DEF FileRight, RightKeys
<1>6. OneType(file')
  <2> SUFFICES ASSUME NEW i \in Places(cache'), NEW j \in Places(cache'),
                      cache'.keys[i].text = cache'.keys[j].text
               PROVE  LineOf(cache'.keys[i]) = LineOf(cache'.keys[j])
    BY <1>4 DEF OneType, LineOf
  <2>1. \A m \in Places(cache') : cache'.keys[m].type # "CONFIG" => cache'.keys[m].addr = cache'.keys[m].text
    BY <1>3 DEF Told
  <2>2. \A m \in Places(cache') : cache'.keys[m].type = "CONFIG" <=> cache'.keys[m].text \in Counts
    <3> SUFFICES ASSUME NEW m \in Places(cache')
                 PROVE  cache'.keys[m].type = "CONFIG" <=> cache'.keys[m].text \in Counts
      OBVIOUS
    <3> DEFINE l == LineOf(cache'.keys[m])
    <3>0. RightLine(l)
      BY <1>5, Zenon DEF RightKeys
    <3>1. RightLine(l) /\ l.type = cache'.keys[m].type /\ l.addr = cache'.keys[m].text /\ l.addr \in NetAddr
      <4>1. cache'.keys[m].text \in NetAddr
        BY <1>3, KeysAre
      <4> QED BY <3>0, <4>1 DEF LineOf
    <3> HIDE DEF l
    <3>2. PortAfter(l.addr, 0) = l.addr /\ 0 \in 0..3
      BY <3>1, PortAfterIs
    <3> QED BY <3>1, <3>2 DEF RightLine
  <2>3. CASE cache'.keys[i].type = "CONFIG"
    BY <2>2, <2>3 DEF LineOf
  <2>4. CASE cache'.keys[i].type # "CONFIG"
    <3>1. cache'.keys[j].type # "CONFIG" /\ cache'.keys[i].addr = cache'.keys[j].addr
      BY <2>1, <2>2, <2>4
    <3>2. i = j
      BY <1>3, <2>4, <3>1 DEF Told, Apart
    <3> QED BY <3>2
  <2> QED BY <2>3, <2>4
<1>7. RightLines(file')
  <2> SUFFICES ASSUME NEW j \in Places(cache')
               PROVE  RightLine(file'[j])
    BY <1>4 DEF RightLines
  <2>1. RightLine(LineOf(cache'.keys[j]))
    BY <1>5, Zenon DEF RightKeys
  <2> QED BY <1>4, <2>1
<1>8. RightKeys(cache)'
  BY <1>5 DEF RightKeys, Places
<1> QED BY <1>1, <1>6, <1>7, <1>8 DEF FileRight, Loading

LEMMA UseFile == StartInv /\ FileRight /\ Use => FileRight'
<1> SUFFICES ASSUME StartInv, FileRight, NEW state, NEW heard, UsePolled(state, heard)
             PROVE  FileRight'
  BY DEF Use
<1>1. pc \in {"nat", "bdg"}
  BY DEF UsePolled, Polls, StartInv, ProcRight
<1>2. file' = file /\ pc' \in {pc, "bdg", "main"} /\ cache' \in {cache, KeyInfoWorksFine(cache, using)}
  BY DEF UsePolled, InRun, BdgHelloNotify, StunNotify, Goes
<1>3. Keeps(cache, cache')
  BY <1>2, SameKeeps, WorksFineKeeps DEF StartInv, KeysRight
<1> QED BY <1>1, <1>2, <1>3, FileStays DEF Loading

LEMMA ExitFile == FileRight /\ Exit => FileRight'
<1> SUFFICES ASSUME FileRight, Exit
             PROVE  FileRight'
  OBVIOUS
<1>1. pc = "main" /\ pc' = "exit" /\ file' = file /\ cache' = cache
  BY DEF Exit, Goes, InRun
<1> QED BY <1>1, SameKeeps, FileStays DEF Loading

LEMMA RestartFile == FileRight /\ Restart => FileRight'
<1> SUFFICES ASSUME FileRight, Restart
             PROVE  FileRight'
  OBVIOUS
<1>1. pc' = "read" /\ file' = file /\ cache' = EmptyCache
  BY DEF Restart, Goes
<1>2. RightKeys(cache)'
  BY <1>1, EmptyIs DEF RightKeys, Places
<1> QED BY <1>1, <1>2 DEF FileRight, Loading

\* What the main loop does to keys takes none but the program's own address.
LEMMA CommandFile ==
  ASSUME FileRight, Command, Keeps(cache, cache'), pc' \in {"main", "load"},
         pc' = "load" => load'.back # "config" /\ RightLines(load'.lines)
  PROVE  FileRight'
BY FileStays DEF Command, InRun, Loading

LEMMA IKeyFile == StartInv /\ FileRight /\ IKey => FileRight'
<1> SUFFICES ASSUME StartInv, FileRight, IKey
             PROVE  FileRight'
  OBVIOUS
<1>1. PICK i \in DOMAIN cache.keys, v \in {"NOT", "UNSURE"} : cache' = Marked(cache, i, v)
  BY DEF IKey
<1>2. cache \in Caches /\ Told(cache) /\ i \in Places(cache) /\ v \in Valid
  BY KeysAre DEF StartInv, KeysRight, Valid
<1>3. Keeps(cache, cache')
  BY <1>1, <1>2, MarkedOne, MarkedKeeps
<1> QED BY <1>3, CommandFile DEF IKey, KeyChange, Command

LEMMA StartPop3ProcessFile == StartInv /\ FileRight /\ StartPop3Process => FileRight'
<1> SUFFICES ASSUME StartInv, FileRight, StartPop3Process
             PROVE  FileRight'
  OBVIOUS
<1> DEFINE i == KeyInfoFindByType(cache, "MAILSERVER")
<1>1. i # 0 /\ cache' = Marked(cache, i, "NOT")
  BY DEF StartPop3Process
<1>2. i \in Places(cache) \cup {0}
  BY FoundByType DEF StartInv, KeysRight
<1> HIDE DEF i
<1>3. Keeps(cache, cache')
  BY <1>1, <1>2, FoundKeeps
<1> QED BY <1>3, CommandFile DEF StartPop3Process, KeyChange, Command

LEMMA ReadKeyFile == FileRight /\ ReadKey => FileRight'
<1> SUFFICES ASSUME FileRight, ReadKey
             PROVE  FileRight'
  OBVIOUS
<1>1. Command /\ cache' = cache /\ pc' = "load" /\ load' = [lines |-> file, mails |-> FALSE, back |-> "main"]
  BY DEF ReadKey, Reading, Goes
<1>2. load'.back = "main" /\ load'.lines = file
  <2>1. \A m : LET r == [lines |-> file, mails |-> m, back |-> "main"] IN r.back = "main" /\ r.lines = file
    OBVIOUS
  <2> QED BY <1>1, <2>1, Zenon
<1>3. RightLines(load'.lines)
  BY <1>2 DEF FileRight
<1> QED BY <1>1, <1>2, <1>3, SameKeeps, CommandFile

LEMMA NewAddrSentFile == Separate /\ StartInv /\ FileRight /\ NewAddrSent => FileRight'
<1> SUFFICES ASSUME Separate, StartInv, FileRight, NewAddrSent
             PROVE  FileRight'
  OBVIOUS
<1>1. cache' = KeyInfoDele(cache, temp) /\ temp # -1 /\ cache \in Caches /\ Told(cache) /\ TempIs(cache, temp)
  BY DEF NewAddrSent, StartInv, KeysRight
<1>2. IsWithout(cache, cache', temp)
  BY <1>1, DeleTakesOne
<1>3. Keeps(cache, cache')
  <2>1. ASSUME NEW i \in Places(cache), cache.keys[i].text # Self
        PROVE  HasLine(cache', LineOf(cache.keys[i]))
    <3>1. cache.keys[i].type = "CONFIG" => cache.keys[i].addr \in Counts
      BY Zenon DEF FileRight, RightKeys
    <3>2. cache.keys[i].addr # Self
      BY <1>1, <2>1, <3>1 DEF Told, Separate
    <3>3. cache.keys[i].num # temp
      BY <1>1, <3>2 DEF TempIs
    <3> QED BY <1>2, <3>3 DEF IsWithout, HasLine
  <2>2. RightKeys(cache) => RightKeys(cache')
    BY <1>2 DEF IsWithout, RightKeys
  <2> QED BY <2>1, <2>2 DEF Keeps
<1> QED BY <1>3, CommandFile DEF NewAddrSent, KeyChange, Command

LEMMA SendingNewAddrFile == Separate /\ StartInv /\ FileRight /\ SendingNewAddr => FileRight'
<1> SUFFICES ASSUME Separate, StartInv, FileRight, SendingNewAddr
             PROVE  FileRight'
  OBVIOUS
<1> DEFINE i == KeyInfoFindByType(cache, "SMTPSERVER")
           b == Marked(cache, i, "NOT")
           line == [type |-> "BRIDGEPEER", addr |-> Self]
<1>1. i # 0 /\ cache' = KeyInfoInsert(b, line)
  BY DEF SendingNewAddr
<1>2. i \in Places(cache) /\ cache \in Caches /\ Told(cache) /\ "NOT" \in Valid
  BY <1>1, FoundByType DEF StartInv, KeysRight, Valid
<1>3. line \in KeyLine /\ RightLine(line)
  BY StartUpAssumption DEF KeyLine, KeyType, RightLine, Separate
<1> HIDE DEF i, line
<1>4. IsMarked(cache, b, i, "NOT")
  BY <1>2, MarkedOne
<1> HIDE DEF b
<1>5. IsInserted(b, cache', line)
  BY <1>1, <1>3, <1>4, InsertedLast DEF IsMarked
<1>6. Keeps(cache, cache')
  BY <1>3, <1>4, <1>5, MarkedKeeps, InsertedKeeps, KeepsBoth
<1> QED BY <1>6, CommandFile DEF SendingNewAddr, KeyChange, Command

LEMMA StutterFile == FileRight /\ UNCHANGED vars => FileRight'
BY DEF FileRight, vars, Loading, ReadSoFar, InFile, HasLine, Places, RightLines, RightKeys, Uncounted

LEMMA NextFile == Separate /\ StartInv /\ FileRight /\ [Next]_vars => FileRight'
BY ReadFileFile, LoadLineFile, LoadedFile, UseConfigFile, SelectFile, WriteFile, UseFile, ExitFile,
   RestartFile, IKeyFile, ReadKeyFile, SendingNewAddrFile, NewAddrSentFile, StartPop3ProcessFile, StutterFile
   DEF Next, Main

\* What KeyInfoWrite leaves of a type.
LEMMA WriteKeeps ==
  ASSUME StartInv, FileRight, KeyInfoWrite, NEW ty \in KeyType
  PROVE  \/ \E l \in Lines(file', ty) : \E k \in Keys : LineOf(k) = l /\ k.valid = "WORKS"
         \/ \A l \in Lines(file, ty) : l.addr # Self => l \in Lines(file', ty)
<1>1. /\ pc = "exit" /\ cache' = DeleKeyInfoByType(cache, Works(cache)) /\ file' = KeyInfoWriteFile(cache')
      /\ cache \in Caches /\ Told(cache)
  BY DEF KeyInfoWrite, KeyInfoUpdate, StartInv, KeysRight
<1>2. IsUpdated(cache, cache', Works(cache))
  BY <1>1, DeleByTypeLeaves
<1>3. cache' \in Caches
  BY <1>2 DEF IsUpdated
<1>4. DOMAIN cache.keys = Places(cache)
  BY <1>1, KeysAre
<1>5. DOMAIN file' = Places(cache') /\ \A i \in Places(cache') : file'[i] = LineOf(cache'.keys[i])
  <2>1. file' \in Seq(KeyLine) /\ Len(file') = Len(cache'.keys)
        /\ \A i \in Places(cache') : file'[i] = LineOf(cache'.keys[i])
    BY <1>1, <1>3, WrittenIs
  <2>2. DOMAIN file' = 1..Len(file')
    BY <2>1, LenProperties
  <2> QED BY <2>1, <2>2 DEF Places
<1>6. ASSUME NEW i \in Places(cache), ~Discarded(cache.keys[i], Works(cache))
      PROVE  \E j \in DOMAIN file' : file'[j] = LineOf(cache.keys[i])
  BY <1>2, <1>5, <1>6 DEF IsUpdated, SameKey, LineOf
<1>7. CASE ty \in Works(cache)
  <2>1. PICK i \in Places(cache) : cache.keys[i].valid = "WORKS" /\ cache.keys[i].type = ty
    BY <1>4, <1>7 DEF Works
  <2>2. ~Discarded(cache.keys[i], Works(cache))
    BY <2>1 DEF Discarded
  <2>3. PICK j \in DOMAIN file' : file'[j] = LineOf(cache.keys[i])
    BY <1>6, <2>2
  <2>4. file'[j] \in Lines(file', ty)
    BY <2>1, <2>3 DEF Lines, LineOf
  <2>5. cache.keys[i] \in Keys
    BY <1>4 DEF Keys
  <2> QED BY <2>1, <2>3, <2>4, <2>5
<1>8. CASE ty \notin Works(cache)
  <2> SUFFICES ASSUME NEW l \in Lines(file, ty), l.addr # Self
               PROVE  l \in Lines(file', ty)
    OBVIOUS
  <2>1. PICK j \in DOMAIN file : file[j] = l /\ l.type = ty
    BY DEF Lines
  <2>2. HasLine(cache, l)
    BY <1>1, <2>1 DEF FileRight, Loading
  <2>3. PICK i \in Places(cache) : LineOf(cache.keys[i]) = l
    BY <2>2 DEF HasLine
  <2>4. ~Discarded(cache.keys[i], Works(cache))
    BY <1>8, <2>1, <2>3 DEF Discarded, LineOf
  <2>5. PICK m \in DOMAIN file' : file'[m] = l
    BY <1>6, <2>3, <2>4
  <2> QED BY <2>1, <2>5 DEF Lines
<1> QED BY <1>7, <1>8

\* Of every type the file had, a key that has worked is left, or all are, when
\* no file that the first run finds gives an address two types, and no CONFIG
\* key can count on to the address of a key of another type.
THEOREM Kept ==
  ASSUME \A f \in FirstFiles : OneType(f), Separate
  PROVE  Spec => KeysKept
<1>1. Init => FileRight
  <2> SUFFICES ASSUME Init
               PROVE  FileRight
    OBVIOUS
  <2>1. pc = "read" /\ cache = EmptyCache /\ OneType(file) /\ RightLines(file)
    BY LinesRight DEF Init
  <2>2. RightKeys(cache)
    BY <2>1, EmptyIs DEF RightKeys
  <2> QED BY <2>1, <2>2 DEF FileRight, Loading
<1>2. StartInv /\ FileRight /\ [Next]_vars => FileRight'
  BY NextFile
<1>3. StartInv /\ FileRight /\ [Next]_vars =>
        [ KeyInfoWrite =>
          \A t \in KeyType :
            \/ \E l \in Lines(file', t) : \E k \in Keys : LineOf(k) = l /\ k.valid = "WORKS"
            \/ \A l \in Lines(file, t) : l.addr # Self => l \in Lines(file', t) ]_vars
  BY WriteKeeps
<1> QED BY <1>1, <1>2, <1>3, Started, PTL DEF Spec, KeysKept
=============================================================================
