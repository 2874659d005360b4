------------------------------ MODULE KeyInfo ------------------------------
(***************************************************************************)
(* The key cache (keyinfo.c): what the program knows of mail, STUN, SMTP   *)
(* and bridge servers, read from tknet.info and from mails, marked by use, *)
(* and written back.  A line of the file or of a mail is the type and the  *)
(* address of a key; the rest of its text plays no part in the cache.  The *)
(* address of a key starts as that of its text, which is what is written.  *)
(***************************************************************************)
EXTENDS NetAddr, Sequences, SequencesExt

KeyType == {"CONFIG", "STUNSERVER", "MAILSERVER", "SMTPSERVER", "BRIDGEPEER"}
Valid   == {"UNSURE", "NOT", "WORKS"}
KeyLine == [type : KeyType, addr : NetAddr]
Key     == [type : KeyType, text : NetAddr, addr : NetAddr, valid : Valid, num : Nat]

\* A cache: the list of keys in order, and KeyInfoNumbers.
EmptyCache == [keys |-> <<>>, numbers |-> 0]

\* 0 or the place of the first key with this address.
FindKeyInfoByAddr(c, a) == SelectInSeq(c.keys, LAMBDA k : k.addr = a)
FindKeyInfoByNum(c, n)  == SelectInSeq(c.keys, LAMBDA k : k.num = n)
FindOf(c, t, v) == SelectInSeq(c.keys, LAMBDA k : k.type = t /\ k.valid = v)
LastOf(c, t, v) == SelectLastInSeq(c.keys, LAMBDA k : k.type = t /\ k.valid = v)

NewKeyInfo(line, n) == [type |-> line.type, text |-> line.addr, addr |-> line.addr,
                        valid |-> "UNSURE", num |-> n]

\* Mutant of KeyInfoInsert: the same server again.
KeyInfoInsertAgain(c, line) ==
  [keys |-> Append(c.keys, NewKeyInfo(line, c.numbers)), numbers |-> c.numbers + 1]

KeyInfoInsert(c, line) ==
  IF FindKeyInfoByAddr(c, line.addr) # 0 THEN c
  ELSE [keys |-> Append(c.keys, NewKeyInfo(line, c.numbers)), numbers |-> c.numbers + 1]

\* The line a key was read from.
LineOf(k) == [type |-> k.type, addr |-> k.text]
KeyInfoWriteFile(c) == [i \in DOMAIN c.keys |-> LineOf(c.keys[i])]

Marked(c, i, v) == [c EXCEPT !.keys[i].valid = v]

\* A CONFIG key that is selected, n of whose ports are taken.
Counted(k, n)  == [k EXCEPT !.valid = "NOT", !.addr = PortAfter(@, n)]
Bound(c, i, n) == [c EXCEPT !.keys[i] = Counted(@, n)]

\* Mutant of KeyInfoSelectAnUnsureKey: only the first key of the type is looked at.
SelectFirst(c, t) ==
  LET i == SelectInSeq(c.keys, LAMBDA k : k.type = t)
  IN  IF i # 0 /\ c.keys[i].valid # "UNSURE" THEN 0 ELSE i

\* The key to try next: 0, or its place.  Whoever selects one marks it NOT.
KeyInfoSelectAnUnsureKey(c, t) == FindOf(c, t, "UNSURE")

\* Mutant of KeyInfoSelectAnotherKeyByPriority: those that did not work, too.
SelectAgain(c, t) == SelectLastInSeq(c.keys, LAMBDA k : k.type = t)

KeyInfoSelectAnotherKeyByPriority(c, t) ==
  IF FindOf(c, t, "UNSURE") # 0 THEN FindOf(c, t, "UNSURE") ELSE LastOf(c, t, "WORKS")

KeyInfoFindByType(c, t) == SelectInSeq(c.keys, LAMBDA k : k.type = t)

KeyInfoWorksFine(c, n) == IF FindKeyInfoByNum(c, n) = 0 THEN c
                          ELSE Marked(c, FindKeyInfoByNum(c, n), "WORKS")

KeyInfoDele(c, n) == IF FindKeyInfoByNum(c, n) = 0 THEN c
                     ELSE [c EXCEPT !.keys = RemoveAt(@, FindKeyInfoByNum(c, n))]

Works(c) == {c.keys[i].type : i \in {j \in DOMAIN c.keys : c.keys[j].valid = "WORKS"}}
Fresh(k) == IF k.valid = "WORKS" THEN [k EXCEPT !.valid = "UNSURE"] ELSE k

\* Of these types, the keys that did not work go.
DeleKeyInfoByType(c, types) ==
  LET upto[i \in 0..Len(c.keys)] ==
        IF i = 0 THEN <<>>
        ELSE IF c.keys[i].valid = "NOT" /\ c.keys[i].type \in types THEN upto[i - 1]
        ELSE Append(upto[i - 1], Fresh(c.keys[i]))
  IN  [c EXCEPT !.keys = upto[Len(c.keys)]]

\* Mutant of KeyInfoUpdate: whether or not another key of the type works.
KeyInfoUpdateAll(c) == DeleKeyInfoByType(c, KeyType)

\* For every type a key of which works.
KeyInfoUpdate(c) == DeleKeyInfoByType(c, Works(c))
=============================================================================
