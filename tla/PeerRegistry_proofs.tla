------------------------- MODULE PeerRegistry_proofs -------------------------
(***************************************************************************)
(* For any number of padawans, power cuts, long presses and lost frames:   *)
(* the state keeps its type, the master counts on no padawan that has      *)
(* forgotten it, and what a node lists is what its flash will give back.   *)
(***************************************************************************)
EXTENDS PeerRegistry, TLAPS

-----------------------------------------------------------------------------
(* Lemmas about sequences.                                                 *)

(* The members of a sequence, as it grows and shrinks.                     *)
LEMMA ListedFacts ==
  ASSUME NEW S, NEW s \in Seq(S)
  PROVE  /\ Listed(s) \subseteq S
         /\ Listed(<<>>) = {}
         /\ \A x \in S : Listed(Append(s, x)) = Listed(s) \cup {x}
         /\ s # <<>> => Head(s) \in Listed(s) /\ Listed(Tail(s)) \subseteq Listed(s)
<1>1. Listed(s) \subseteq S /\ Listed(<<>>) = {}
  BY DEF Listed
<1>2. ASSUME NEW x \in S PROVE Listed(Append(s, x)) = Listed(s) \cup {x}
  <2>1. Append(s, x) \in Seq(S) /\ Len(Append(s, x)) = Len(s) + 1 /\ Append(s, x)[Len(s) + 1] = x
    OBVIOUS
  <2>2. \A k \in 1 .. Len(s) : Append(s, x)[k] = s[k]
    OBVIOUS
  <2>3. DOMAIN Append(s, x) = 1 .. Len(s) + 1 /\ DOMAIN s = 1 .. Len(s) /\ Len(s) \in Nat
    BY <2>1
  <2> QED
    BY <2>1, <2>2, <2>3 DEF Listed
<1>3. ASSUME s # <<>> PROVE Head(s) \in Listed(s) /\ Listed(Tail(s)) \subseteq Listed(s)
  <2>1. Len(s) \in Nat \ {0} /\ Head(s) = s[1] /\ DOMAIN s = 1 .. Len(s)
    BY <1>3
  <2>2. Tail(s) \in Seq(S) /\ Len(Tail(s)) = Len(s) - 1
    BY <1>3
  <2>3. \A k \in 1 .. Len(s) - 1 : Tail(s)[k] = s[k + 1]
    BY <1>3
  <2>4. DOMAIN Tail(s) = 1 .. Len(s) - 1
    BY <2>2
  <2> QED
    BY <2>1, <2>3, <2>4 DEF Listed
<1> QED
  BY <1>1, <1>2, <1>3

(* What init keeps of a sequence.                                          *)
LEMMA PrefixFacts ==
  ASSUME NEW S, NEW s \in Seq(S), NEW k \in 0 .. Len(s)
  PROVE  /\ SubSeq(s, 1, k) \in Seq(S) /\ Len(SubSeq(s, 1, k)) = k
         /\ \A i \in 1 .. k : SubSeq(s, 1, k)[i] = s[i]
         /\ Listed(SubSeq(s, 1, k)) \subseteq Listed(s)
<1>1. SubSeq(s, 1, k) \in Seq(S) /\ Len(SubSeq(s, 1, k)) = k
  OBVIOUS
<1>2. \A i \in 1 .. k : SubSeq(s, 1, k)[i] = s[i]
  OBVIOUS
<1>3. DOMAIN SubSeq(s, 1, k) = 1 .. k /\ 1 .. k \subseteq DOMAIN s
  BY <1>1
<1> QED
  BY <1>1, <1>2, <1>3 DEF Listed

-----------------------------------------------------------------------------
(* What is true of the flash f, the list s and the handler of one node.    *)

(* Past the count there is no key.                                         *)
Clean(f) == \A i \in 1 .. PeerLimit : i > f.count => f.key[i] = NoMac

(* No address is listed twice.                                             *)
Good(s) == s \in Seq(Macs) /\ Len(s) <= PeerLimit /\ \A i, j \in 1 .. Len(s) : s[i] = s[j] => i = j

(* The next step of a handler.                                             *)
Stage(t) == IF t = <<>> THEN "none" ELSE Head(t)

(* The gaps that the handler is not about to close.                        *)
Open(f, s, g) == Gaps(f) \ (IF g = "key" THEN {Len(s)} ELSE {})

(* The keys below n hold the list.                                         *)
Holds(f, s, n) == \A i \in 1 .. n : f.key[i] = s[i]

(* Flash and list agree, as far as the handler has come.                   *)
Agree(f, s, g) ==
  /\ f.count + (IF g = "count" THEN 1 ELSE 0) = Len(s)
  /\ Holds(f, s, Len(s) - (IF g \in {"count", "key"} THEN 1 ELSE 0))
  /\ g = "key" => f.key[Len(s)] = NoMac

(* A node that has power.                                                  *)
Local(f, s, g) ==
  /\ f \in FlashType /\ Clean(f) /\ Good(s)
  /\ Len(s) <= f.count + (IF g = "count" THEN 1 ELSE 0)
  /\ g \in {"count", "key"} => s # <<>> /\ s[Len(s)] # NoMac
  /\ AtMostOne(Open(f, s, g)) => Agree(f, s, g)

(* A node that has none.                                                   *)
Off(f) ==
  /\ f \in FlashType /\ Clean(f)
  /\ AtMostOne(Gaps(f)) =>
       f.count <= PeerLimit /\ \A i, j \in 1 .. f.count : f.key[i] = f.key[j] => i = j

(* What is stored, key by key.                                             *)
LEMMA StoredFacts ==
  ASSUME NEW f \in FlashType
  PROVE  /\ f.count \in Nat /\ f.master \in BOOLEAN /\ f.key \in [1 .. PeerLimit -> Macs]
         /\ Stored(f) \in Seq(Macs) /\ Len(Stored(f)) = f.count
         /\ \A i \in 1 .. f.count : Stored(f)[i] = IF i \in 1 .. PeerLimit THEN f.key[i] ELSE NoMac
         /\ Gaps(f) = {i \in 1 .. f.count : i \in 1 .. PeerLimit => f.key[i] = NoMac}
<1>1. f.count \in Nat /\ f.master \in BOOLEAN /\ f.key \in [1 .. PeerLimit -> Macs]
  BY DEF FlashType
<1>2. Stored(f) \in [1 .. f.count -> Macs]
  BY <1>1 DEF Stored, Macs
<1>3. Stored(f) \in Seq(Macs) /\ Len(Stored(f)) = f.count
  BY <1>1, <1>2
<1> QED
  BY <1>1, <1>3 DEF Gaps, Stored

(* What the writes do to the fields of the flash.                          *)
LEMMA FlashWrites ==
  ASSUME NEW f \in FlashType
  PROVE  /\ SaveCount(f) \in FlashType /\ SaveCount(f).count = f.count + 1
         /\ SaveCount(f).key = f.key /\ SaveCount(f).master = f.master
         /\ SaveMaster(f) \in FlashType /\ SaveMaster(f).count = f.count
         /\ SaveMaster(f).key = f.key /\ SaveMaster(f).master
         /\ EraseMaster(f) \in FlashType /\ EraseMaster(f).count = f.count
         /\ EraseMaster(f).key = f.key /\ ~EraseMaster(f).master
<1>1. SaveCount(f) \in FlashType /\ SaveCount(f).count = f.count + 1 /\ SaveCount(f).key = f.key
  BY DEF FlashType, SaveCount
<1>2. SaveCount(f).master = f.master
  BY Zenon DEF FlashType, SaveCount
<1>3. SaveMaster(f) \in FlashType /\ EraseMaster(f) \in FlashType
  BY DEF FlashType, SaveMaster, EraseMaster
<1>4. SaveMaster(f).count = f.count /\ SaveMaster(f).key = f.key /\ SaveMaster(f).master
  BY Zenon DEF FlashType, SaveMaster
<1>5. EraseMaster(f).count = f.count /\ EraseMaster(f).key = f.key /\ ~EraseMaster(f).master
  BY Zenon DEF FlashType, EraseMaster
<1> QED
  BY <1>1, <1>2, <1>3, <1>4, <1>5

(* The key of the last peer listed is saved.                               *)
LEMMA KeyWrite ==
  ASSUME NEW f \in FlashType, NEW s \in Seq(Macs), Len(s) \in 1 .. PeerLimit
  PROVE  /\ SaveKey(f, s) \in FlashType
         /\ SaveKey(f, s).count = f.count /\ SaveKey(f, s).master = f.master
         /\ \A i \in 1 .. PeerLimit :
              SaveKey(f, s).key[i] = IF i = Len(s) THEN s[i] ELSE f.key[i]
<1> DEFINE k == [f.key EXCEPT ![Len(s)] = s[Len(s)]]
<1>1. f.key \in [1 .. PeerLimit -> Macs] /\ s[Len(s)] \in Macs
  BY StoredFacts
<1>2. k \in [1 .. PeerLimit -> Macs] /\ \A i \in 1 .. PeerLimit : k[i] = IF i = Len(s) THEN s[i] ELSE f.key[i]
  BY <1>1
<1>3. SaveKey(f, s).count = f.count /\ SaveKey(f, s).master = f.master /\ SaveKey(f, s).key = k
  BY Zenon DEF FlashType, SaveKey
<1>4. SaveKey(f, s) = [f EXCEPT !.key = k]
  BY DEF SaveKey
<1> HIDE DEF k
<1>5. SaveKey(f, s) \in FlashType
  BY <1>2, <1>4 DEF FlashType
<1> QED
  BY <1>2, <1>3, <1>5

(* Everything is erased.                                                   *)
LEMMA PeersErased ==
  ASSUME NEW f \in FlashType, Clean(f)
  PROVE  /\ ErasePeers(f) \in FlashType
         /\ ErasePeers(f).count = 0 /\ ErasePeers(f).master = f.master
         /\ \A i \in 1 .. PeerLimit : ErasePeers(f).key[i] = NoMac
<1> DEFINE k == [i \in 1 .. PeerLimit |-> IF i <= f.count THEN NoMac ELSE f.key[i]]
<1>1. f.count \in Nat /\ f.key \in [1 .. PeerLimit -> Macs]
  BY StoredFacts
<1>2. k \in [1 .. PeerLimit -> Macs]
  BY <1>1 DEF Macs
<1>3. \A i \in 1 .. PeerLimit : k[i] = NoMac
  BY <1>1, RegistryAssumption DEF Clean
<1>4. ErasePeers(f) = [f EXCEPT !.count = 0, !.key = k]
  BY DEF ErasePeers
<1> HIDE DEF k
<1>5. ErasePeers(f).count = 0 /\ ErasePeers(f).master = f.master /\ ErasePeers(f).key = k
  BY <1>4, Zenon DEF FlashType
<1>6. [f EXCEPT !.count = 0, !.key = k] \in FlashType
  BY <1>2 DEF FlashType
<1> QED
  BY <1>3, <1>4, <1>5, <1>6

(* The count is saved: the key it announces is missing as yet.             *)
LEMMA CountSaved ==
  ASSUME NEW f, NEW s, Local(f, s, "count")
  PROVE  /\ Local(SaveCount(f), s, "key")
         /\ Listed(Stored(SaveCount(f))) \subseteq Listed(Stored(f)) \cup {NoMac}
         /\ SaveCount(f).master = f.master
<1> DEFINE h == SaveCount(f)
<1>1. f \in FlashType /\ Clean(f) /\ Good(s) /\ Len(s) <= f.count + 1 /\ s # <<>> /\ s[Len(s)] # NoMac
  BY DEF Local
<1>2. f.count \in Nat /\ f.key \in [1 .. PeerLimit -> Macs] /\ Len(s) \in Nat \ {0}
  BY <1>1, StoredFacts DEF Good
<1>3. h \in FlashType /\ h.count = f.count + 1 /\ h.key = f.key /\ h.master = f.master
  BY <1>1, FlashWrites
<1> HIDE DEF h
<1>4. Clean(h)
  BY <1>1, <1>2, <1>3, RegistryAssumption DEF Clean
<1>5. Gaps(h) = Gaps(f) \cup {f.count + 1}
  <2>1. f.count + 1 \in 1 .. PeerLimit => f.key[f.count + 1] = NoMac
    BY <1>1, <1>2 DEF Clean
  <2>2. \A i \in 1 .. f.count + 1 : i \in 1 .. f.count \/ i = f.count + 1
    BY <1>2
  <2>3. 1 .. f.count \subseteq 1 .. f.count + 1 /\ f.count + 1 \in 1 .. f.count + 1
    BY <1>2
  <2> QED
    BY <1>1, <1>2, <1>3, <2>1, <2>2, <2>3, StoredFacts
<1>6. ASSUME AtMostOne(Open(h, s, "key")) PROVE Agree(h, s, "key")
  <2>1. AtMostOne(Open(f, s, "count"))
    <3> SUFFICES ASSUME NEW i \in Gaps(f), NEW j \in Gaps(f), i # j PROVE FALSE
      BY DEF AtMostOne, Open
    <3>1. i \in 1 .. f.count /\ j \in 1 .. f.count
      BY DEF Gaps
    <3>2. Open(h, s, "key") = (Gaps(f) \cup {f.count + 1}) \ {Len(s)}
      BY <1>5 DEF Open
    <3>3. CASE Len(s) = f.count + 1
      BY <1>2, <1>6, <3>1, <3>2, <3>3 DEF AtMostOne
    <3>4. CASE Len(s) # f.count + 1
      <4>1. f.count + 1 \in Open(h, s, "key") /\ f.count + 1 # i /\ f.count + 1 # j
        BY <1>2, <3>1, <3>2, <3>4
      <4>2. i \in Open(h, s, "key") \/ j \in Open(h, s, "key")
        BY <3>2
      <4> QED
        BY <1>6, <4>1, <4>2 DEF AtMostOne
    <3> QED
      BY <3>3, <3>4
  <2>2. Agree(f, s, "count")
    BY <2>1 DEF Local
  <2>3. Len(s) <= PeerLimit
    BY <1>1 DEF Good
  <2> QED
    BY <1>1, <1>2, <1>3, <2>2, <2>3 DEF Agree, Holds, Clean
<1>7. Listed(Stored(h)) \subseteq Listed(Stored(f)) \cup {NoMac}
  <2> SUFFICES ASSUME NEW i \in 1 .. f.count + 1, Stored(h)[i] # NoMac
               PROVE  Stored(h)[i] \in Listed(Stored(f))
    BY <1>1, <1>2, <1>3, StoredFacts DEF Listed
  <2>1. i \in 1 .. PeerLimit /\ Stored(h)[i] = f.key[i] /\ f.key[i] # NoMac
    BY <1>3, StoredFacts
  <2>2. i \in 1 .. f.count
    BY <1>1, <1>2, <2>1 DEF Clean
  <2>3. Stored(f)[i] = f.key[i] /\ i \in DOMAIN Stored(f)
    BY <1>1, <2>1, <2>2, StoredFacts
  <2> QED
    BY <2>1, <2>3 DEF Listed
<1> QED
  BY <1>1, <1>2, <1>3, <1>4, <1>6, <1>7 DEF Local, h

(* The key is saved: the last peer listed is whole.                        *)
LEMMA KeySaved ==
  ASSUME NEW f, NEW s, Local(f, s, "key"), NEW g \in {"none", "master", "ack"}
  PROVE  /\ Local(SaveKey(f, s), s, g)
         /\ Listed(Stored(SaveKey(f, s))) \subseteq Listed(Stored(f)) \cup {s[Len(s)]}
         /\ SaveKey(f, s).master = f.master
<1> DEFINE h == SaveKey(f, s)
<1>1. f \in FlashType /\ Clean(f) /\ Good(s) /\ Len(s) <= f.count /\ s # <<>> /\ s[Len(s)] # NoMac
  BY StoredFacts DEF Local
<1>2. f.count \in Nat /\ f.key \in [1 .. PeerLimit -> Macs] /\ Len(s) \in 1 .. PeerLimit /\ s \in Seq(Macs)
  BY <1>1, StoredFacts, RegistryAssumption DEF Good
<1>3. /\ h \in FlashType /\ h.count = f.count /\ h.master = f.master
      /\ \A i \in 1 .. PeerLimit : h.key[i] = IF i = Len(s) THEN s[i] ELSE f.key[i]
  BY <1>1, <1>2, KeyWrite
<1> HIDE DEF h
<1>4. Clean(h)
  BY <1>1, <1>2, <1>3, RegistryAssumption DEF Clean
<1>5. Gaps(h) = Gaps(f) \ {Len(s)}
  <2>1. \A i \in 1 .. f.count : i \in Gaps(h) <=> i \in Gaps(f) /\ i # Len(s)
    BY <1>1, <1>2, <1>3, StoredFacts
  <2>2. Gaps(h) \subseteq 1 .. f.count /\ Gaps(f) \subseteq 1 .. f.count
    BY <1>3 DEF Gaps
  <2> QED
    BY <2>1, <2>2
<1>6. ASSUME AtMostOne(Open(h, s, g)) PROVE Agree(h, s, g)
  <2>1. Open(h, s, g) = Open(f, s, "key")
    BY <1>5 DEF Open
  <2>2. Agree(f, s, "key")
    BY <1>6, <2>1 DEF Local
  <2>3. f.count = Len(s) /\ \A i \in 1 .. Len(s) - 1 : f.key[i] = s[i]
    BY <1>2, <2>2 DEF Agree, Holds
  <2>4. \A i \in 1 .. Len(s) : h.key[i] = s[i]
    BY <1>2, <1>3, <2>3, RegistryAssumption
  <2> QED
    BY <1>2, <1>3, <2>3, <2>4 DEF Agree, Holds
<1>7. Listed(Stored(h)) \subseteq Listed(Stored(f)) \cup {s[Len(s)]}
  <2>1. DOMAIN Stored(h) = 1 .. f.count /\ DOMAIN Stored(f) = 1 .. f.count
    BY <1>1, <1>3 DEF Stored
  <2>2. \A i \in 1 .. f.count : Stored(h)[i] = Stored(f)[i] \/ Stored(h)[i] = s[Len(s)]
    BY <1>1, <1>2, <1>3, StoredFacts
  <2> QED
    BY <2>1, <2>2 DEF Listed
<1> QED
  BY <1>1, <1>2, <1>3, <1>4, <1>6, <1>7 DEF Local, h

(* Once the peer is saved the rest of the handler, and what it or the      *)
(* button writes of the master, leave count, keys and list alone.          *)
LEMMA SameKeys ==
  ASSUME NEW f, NEW s, NEW g, NEW k, Local(f, s, g),
         k = g \/ {g, k} \subseteq {"none", "master", "ack"},
         NEW h \in FlashType, h.count = f.count, h.key = f.key
  PROVE  Local(h, s, k) /\ Stored(h) = Stored(f)
<1>1. Stored(h) = Stored(f) /\ Gaps(h) = Gaps(f) /\ (Clean(f) => Clean(h))
  BY DEF Stored, Gaps, Clean
<1>2. Open(h, s, k) = Open(f, s, g) /\ (Agree(f, s, g) => Agree(h, s, k))
  BY <1>1 DEF Open, Agree, Holds
<1> QED
  BY <1>1, <1>2 DEF Local

(* A peer is listed and about to be saved.                                 *)
LEMMA PeerCached ==
  ASSUME NEW f, NEW s, Local(f, s, "none"),
         NEW p \in Nodes, p \notin Listed(s), Len(s) < PeerLimit
  PROVE  Local(f, Append(s, p), "count")
<1> DEFINE t == Append(s, p)
<1>1. f \in FlashType /\ Clean(f) /\ Good(s) /\ Len(s) <= f.count /\ p \in Macs /\ p # NoMac
  BY StoredFacts, RegistryAssumption DEF Local, Macs
<1>2. f.count \in Nat /\ Len(s) \in Nat /\ s \in Seq(Macs) /\ PeerLimit \in Nat
  BY <1>1, StoredFacts, RegistryAssumption DEF Good
<1>3. t \in Seq(Macs) /\ Len(t) = Len(s) + 1 /\ t[Len(s) + 1] = p /\ t # <<>>
  BY <1>1, <1>2
<1>4. \A i \in 1 .. Len(s) : t[i] = s[i] /\ t[i] # p
  <2>1. \A i \in 1 .. Len(s) : t[i] = s[i]
    BY <1>1, <1>2
  <2>2. \A i \in 1 .. Len(s) : s[i] \in Listed(s)
    BY <1>2 DEF Listed
  <2> QED
    BY <2>1, <2>2
<1> HIDE DEF t
<1>5. \A i \in 1 .. Len(t) : i \in 1 .. Len(s) \/ i = Len(s) + 1
  BY <1>2, <1>3
<1>6. Good(t)
  <2>1. Len(t) <= PeerLimit
    BY <1>2, <1>3
  <2>2. ASSUME NEW i \in 1 .. Len(t), NEW j \in 1 .. Len(t), t[i] = t[j] PROVE i = j
    BY <1>1, <1>3, <1>4, <1>5, <2>2 DEF Good
  <2> QED
    BY <1>3, <2>1, <2>2 DEF Good
<1>7. ASSUME AtMostOne(Open(f, t, "count")) PROVE Agree(f, t, "count")
  <2>1. AtMostOne(Open(f, s, "none"))
    BY <1>7 DEF Open
  <2>2. Agree(f, s, "none")
    BY <2>1 DEF Local
  <2> QED
    BY <1>2, <1>3, <1>4, <2>2 DEF Agree, Holds
<1> QED
  BY <1>1, <1>2, <1>3, <1>6, <1>7 DEF Local, t

(* Wherever the power is cut, the next restart can use what is stored.     *)
LEMMA PowerLost ==
  ASSUME NEW f, NEW s, NEW g, Local(f, s, g)
  PROVE  Off(f)
<1>1. f \in FlashType /\ Clean(f) /\ Good(s)
  BY DEF Local
<1>2. f.count \in Nat /\ Len(s) \in Nat /\ PeerLimit \in Nat /\ Len(s) <= PeerLimit
  BY <1>1, StoredFacts, RegistryAssumption DEF Good
<1> SUFFICES ASSUME AtMostOne(Gaps(f))
             PROVE  f.count <= PeerLimit /\ \A i, j \in 1 .. f.count : f.key[i] = f.key[j] => i = j
  BY <1>1 DEF Off
<1>3. Agree(f, s, g)
  BY DEF AtMostOne, Open, Local
<1>4. f.count <= Len(s)
  BY <1>2, <1>3 DEF Agree
<1>5. CASE g = "key"
  <2>1. f.count = Len(s) /\ f.key[Len(s)] = NoMac /\ \A i \in 1 .. Len(s) - 1 : f.key[i] = s[i]
    BY <1>2, <1>3, <1>5 DEF Agree, Holds
  <2>2. ASSUME NEW i \in 1 .. f.count, f.key[i] = NoMac PROVE i = Len(s)
    <3>1. i \in Gaps(f) /\ Len(s) \in Gaps(f)
      BY <1>1, <1>2, <2>1, <2>2, StoredFacts
    <3> QED
      BY <3>1 DEF AtMostOne
  <2>3. ASSUME NEW i \in 1 .. f.count, NEW j \in 1 .. f.count, f.key[i] = f.key[j] PROVE i = j
    <3>1. CASE i = Len(s) \/ j = Len(s)
      BY <2>1, <2>2, <2>3, <3>1
    <3>2. CASE i # Len(s) /\ j # Len(s)
      BY <1>1, <1>2, <2>1, <2>3, <3>2 DEF Good
    <3> QED
      BY <3>1, <3>2
  <2> QED
    BY <1>2, <1>4, <2>3
<1>6. CASE g # "key"
  <2>1. \A i \in 1 .. f.count : f.key[i] = s[i]
    BY <1>2, <1>3, <1>6 DEF Agree, Holds
  <2> QED
    BY <1>1, <1>2, <1>4, <2>1 DEF Good
<1> QED
  BY <1>5, <1>6

(* An erased registration, too.                                            *)
LEMMA PeersWiped ==
  ASSUME NEW f \in FlashType, Clean(f)
  PROVE  Off(ErasePeers(f)) /\ ErasePeers(f).master = f.master /\ Listed(Stored(ErasePeers(f))) = {}
<1>1. /\ ErasePeers(f) \in FlashType /\ ErasePeers(f).count = 0 /\ ErasePeers(f).master = f.master
      /\ \A i \in 1 .. PeerLimit : ErasePeers(f).key[i] = NoMac
  BY PeersErased
<1>2. Stored(ErasePeers(f)) = <<>>
  BY <1>1 DEF Stored
<1> QED
  BY <1>1, <1>2, RegistryAssumption DEF Off, Clean, Listed

(* init lists what is stored, all of it unless two gaps meet.              *)
LEMMA PeersLoaded ==
  ASSUME NEW f, Off(f), NEW k \in Loadable(Stored(f)), k + 1 \notin Loadable(Stored(f))
  PROVE  Local(f, SubSeq(Stored(f), 1, k), "none")
<1> DEFINE s == Stored(f)
           t == SubSeq(s, 1, k)
<1>1. f \in FlashType /\ Clean(f)
  BY DEF Off
<1>2. /\ f.count \in Nat /\ s \in Seq(Macs) /\ Len(s) = f.count
      /\ \A i \in 1 .. f.count : s[i] = IF i \in 1 .. PeerLimit THEN f.key[i] ELSE NoMac
  BY <1>1, StoredFacts
<1>3. k \in 0 .. Len(s) /\ k <= PeerLimit /\ \A i, j \in 1 .. k : s[i] = s[j] => i = j
  BY DEF Loadable
<1>4. t \in Seq(Macs) /\ Len(t) = k /\ \A i \in 1 .. k : t[i] = s[i]
  BY <1>2, <1>3, PrefixFacts
<1>5. k + 1 \notin Loadable(s)
  OBVIOUS
<1> HIDE DEF s, t
<1>6. Good(t)
  BY <1>3, <1>4 DEF Good
<1>7. ASSUME AtMostOne(Open(f, t, "none")) PROVE Agree(f, t, "none")
  <2>1. f.count <= PeerLimit /\ \A i, j \in 1 .. f.count : f.key[i] = f.key[j] => i = j
    BY <1>7 DEF Off, Open
  <2>2. \A i \in 1 .. f.count : s[i] = f.key[i]
    BY <1>2, <2>1, RegistryAssumption
  <2>3. k = f.count
    <3> SUFFICES ASSUME k # f.count PROVE FALSE
      OBVIOUS
    <3>1. k + 1 \in 0 .. Len(s) /\ k + 1 <= PeerLimit
      BY <1>2, <1>3, <2>1, RegistryAssumption
    <3>2. \A i, j \in 1 .. k + 1 : s[i] = s[j] => i = j
      BY <1>2, <2>1, <2>2, <3>1
    <3> QED
      BY <1>5, <3>1, <3>2 DEF Loadable
  <2> QED
    BY <1>2, <1>4, <2>2, <2>3 DEF Agree, Holds
<1>8. Len(t) <= f.count
  BY <1>2, <1>3, <1>4
<1>9. Local(f, t, "none")
  BY <1>1, <1>6, <1>7, <1>8, <1>2 DEF Local
<1> QED
  BY <1>9 DEF t, s

(* Out of a handler list and flash are the same.                           *)
LEMMA ListIsStored ==
  ASSUME NEW f, NEW s, Local(f, s, "none"), AtMostOne(Gaps(f))
  PROVE  s = Stored(f)
<1>1. f \in FlashType /\ Good(s) /\ Agree(f, s, "none")
  BY DEF Local, Open
<1>2. /\ f.count = Len(s) /\ f.count \in Nat /\ s \in Seq(Macs) /\ Len(s) <= PeerLimit
      /\ \A i \in 1 .. Len(s) : f.key[i] = s[i]
  BY <1>1, StoredFacts DEF Good, Agree, Holds
<1>3. \A i \in 1 .. Len(s) : Stored(f)[i] = s[i]
  BY <1>1, <1>2, StoredFacts, RegistryAssumption
<1>4. Stored(f) \in Seq(Macs) /\ Len(Stored(f)) = Len(s)
  BY <1>1, <1>2, StoredFacts
<1> QED
  BY <1>2, <1>3, <1>4

-----------------------------------------------------------------------------
(* Frames and queues.                                                      *)

Queues == [Nodes -> Seq(FrameType)]

(* The padawans whose acknowledgement is on its way to the master.         *)
Acks(q) == {m.from : m \in {x \in Listed(q[Master]) : x.kind = "REGISTRATION_ACK"}}

LEMMA Frames ==
  ASSUME NEW n \in Nodes
  PROVE  /\ \A k \in {"REGISTRATION", "POLL"} \cup Events : Frame(k, n) \in FrameType
         /\ \A k \in {"REGISTRATION_REQ", "REGISTRATION_ACK", "POLL_ACK"} :
              n \in Padawans => Frame(k, n) \in FrameType
         /\ \A k : Frame(k, n).kind = k /\ Frame(k, n).from = n
         /\ \A b \in BOOLEAN : /\ [Frame("REGISTRATION", n) EXCEPT !.named = b] \in FrameType
                               /\ [Frame("REGISTRATION", n) EXCEPT !.named = b].kind = "REGISTRATION"
<1>1. \A k \in {"REGISTRATION", "POLL"} \cup Events : Frame(k, n) \in FrameType
  BY DEF Frame, FrameType
<1>2. \A k \in {"REGISTRATION_REQ", "REGISTRATION_ACK", "POLL_ACK"} :
        n \in Padawans => Frame(k, n) \in FrameType
  BY DEF Frame, FrameType
<1>3. \A k : Frame(k, n).kind = k /\ Frame(k, n).from = n
  BY DEF Frame
<1>4. ASSUME NEW b \in BOOLEAN
      PROVE  /\ [Frame("REGISTRATION", n) EXCEPT !.named = b] \in FrameType
             /\ [Frame("REGISTRATION", n) EXCEPT !.named = b].kind = "REGISTRATION"
  <2>1. [Frame("REGISTRATION", n) EXCEPT !.named = b] = [kind |-> "REGISTRATION", from |-> n, named |-> b]
    BY DEF Frame
  <2> QED
    BY <2>1 DEF FrameType
<1> QED
  BY <1>1, <1>2, <1>3, <1>4

LEMMA Posted ==
  ASSUME NEW q \in Queues, NEW n \in Nodes, NEW m \in FrameType
  PROVE  /\ Post(q, n, m) \in Queues
         /\ \A k \in Nodes \ {n} : Post(q, n, m)[k] = q[k]
         /\ Acks(Post(q, n, m)) \subseteq
              Acks(q) \cup (IF m.kind = "REGISTRATION_ACK" THEN {m.from} ELSE {})
<1>1. CASE Post(q, n, m) = q
  BY <1>1
<1>2. CASE Post(q, n, m) = [q EXCEPT ![n] = Append(@, m)]
  <2>1. q[n] \in Seq(FrameType) /\ q[Master] \in Seq(FrameType) /\ Append(q[n], m) \in Seq(FrameType)
    BY DEF Queues, Nodes
  <2>2. Post(q, n, m) \in Queues /\ \A k \in Nodes \ {n} : Post(q, n, m)[k] = q[k]
    BY <1>2, <2>1 DEF Queues
  <2>3. Post(q, n, m)[n] = Append(q[n], m)
    BY <1>2 DEF Queues
  <2>4. Listed(Append(q[n], m)) = Listed(q[n]) \cup {m}
    BY <2>1, ListedFacts
  <2>5. Listed(Post(q, n, m)[Master]) \subseteq Listed(q[Master]) \cup {m}
    BY <2>2, <2>3, <2>4 DEF Nodes
  <2> QED
    BY <2>2, <2>5 DEF Acks
<1> QED
  BY <1>1, <1>2 DEF Post

LEMMA Rested ==
  ASSUME queue \in Queues, NEW n \in Nodes, queue[n] # <<>>
  PROVE  /\ Rest(n) \in Queues /\ Acks(Rest(n)) \subseteq Acks(queue)
         /\ Head(queue[n]) \in FrameType /\ Head(queue[n]) \in Listed(queue[n])
         /\ Head(queue[n]).kind \in {"REGISTRATION_REQ", "REGISTRATION_ACK", "POLL_ACK"}
              => Head(queue[n]).from \in Padawans
<1>1. queue[n] \in Seq(FrameType) /\ queue[Master] \in Seq(FrameType)
  BY DEF Queues, Nodes
<1>2. Tail(queue[n]) \in Seq(FrameType) /\ Head(queue[n]) \in FrameType
  BY <1>1
<1>3. Listed(Tail(queue[n])) \subseteq Listed(queue[n]) /\ Head(queue[n]) \in Listed(queue[n])
  BY <1>1, ListedFacts
<1>4. Rest(n) \in Queues /\ Listed(Rest(n)[Master]) \subseteq Listed(queue[Master])
  BY <1>2, <1>3 DEF Rest, Queues, Nodes
<1>5. Head(queue[n]).kind \in {"REGISTRATION_REQ", "REGISTRATION_ACK", "POLL_ACK"}
        => Head(queue[n]).from \in Padawans
  BY <1>2 DEF FrameType, Events
<1> QED
  BY <1>2, <1>3, <1>4, <1>5 DEF Acks

-----------------------------------------------------------------------------
(* The inductive invariant.                                                *)

(* What is left of a handler.                                              *)
Handlers(n) ==
  IF n = Master THEN {<<>>, <<"key">>, <<"count", "key">>}
  ELSE {<<>>, <<"ack">>, <<"master", "ack">>, <<"key", "master", "ack">>,
        <<"count", "key", "master", "ack">>}

NodeOK(n) ==
  /\ todo[n] \in Handlers(n)
  /\ n = Master => ~flash[n].master
  /\ n \in on => Local(flash[n], list[n], Stage(todo[n])) /\ Listed(list[n]) \subseteq driver[n]
  /\ n \notin on => Off(flash[n]) /\ todo[n] = <<>> /\ list[n] = <<>>

(* The master may count on p.                                              *)
Remembers(p) == flash[p].master \/ p \in erased

(* The master counts on p, or p is about to let it.                        *)
CountedOn(p) ==
  \/ p \in Listed(list[Master]) \/ p \in Listed(Stored(flash[Master]))
  \/ p \in Acks(queue) \/ todo[p] = <<"ack">>

RegistryInvariant ==
  /\ TypeOK
  /\ \A n \in Nodes : NodeOK(n)
  /\ \A p \in Padawans : CountedOn(p) => Remembers(p)

LEMMA HandlerFacts ==
  ASSUME NEW n \in Nodes, NEW t \in Handlers(n), t # <<>>
  PROVE  /\ Head(t) \in {"count", "key", "master", "ack"} /\ Stage(t) = Head(t)
         /\ Tail(t) \in Handlers(n)
         /\ Head(t) = "count" => Stage(Tail(t)) = "key"
         /\ Head(t) = "key" => Stage(Tail(t)) \in {"none", "master"}
         /\ Head(t) = "master" => Stage(Tail(t)) = "ack" /\ n # Master
         /\ Head(t) = "ack" => Tail(t) = <<>> /\ t = <<"ack">>
         /\ Tail(t) = <<"ack">> => Head(t) = "master"
<1>1. CASE t = <<"key">>
  BY <1>1 DEF Handlers, Stage
<1>2. CASE t = <<"count", "key">>
  BY <1>2 DEF Handlers, Stage
<1>3. CASE t = <<"ack">>
  BY <1>3 DEF Handlers, Stage
<1>4. CASE t = <<"master", "ack">>
  BY <1>4 DEF Handlers, Stage
<1>5. CASE t = <<"key", "master", "ack">>
  BY <1>5 DEF Handlers, Stage
<1>6. CASE t = <<"count", "key", "master", "ack">>
  BY <1>6, SMTT(40) DEF Handlers, Stage
<1> QED
  BY <1>1, <1>2, <1>3, <1>4, <1>5, <1>6 DEF Handlers

LEMMA HandlerType ==
  ASSUME NEW n \in Nodes, NEW t \in Handlers(n)
  PROVE  t \in Seq({"count", "key", "master", "ack"})
<1> DEFINE S == {"count", "key", "master", "ack"}
<1>1. "count" \in S /\ "key" \in S /\ "master" \in S /\ "ack" \in S
  OBVIOUS
<1> HIDE DEF S
<1>2. /\ <<>> \in Seq(S) /\ <<"ack">> \in Seq(S) /\ <<"key">> \in Seq(S)
      /\ <<"count", "key">> \in Seq(S) /\ <<"master", "ack">> \in Seq(S)
      /\ <<"key", "master", "ack">> \in Seq(S) /\ <<"count", "key", "master", "ack">> \in Seq(S)
  BY <1>1
<1>3. t \in Seq(S)
  BY <1>2, Zenon DEF Handlers
<1> QED
  BY <1>3 DEF S

(* The invariant holds at the start.                                       *)
THEOREM InitRegistry == Init => RegistryInvariant
<1> SUFFICES ASSUME Init PROVE RegistryInvariant
  OBVIOUS
<1> USE RegistryAssumption
<1>1. Away \in Seq(Padawans) /\ Listed(Away) \subseteq Padawans /\ Len(Away) \in Nat
  BY ListedFacts
<1>2. Listed(<<>>) = {}
  BY DEF Listed
<1> DEFINE Known(n) == IF n = Master THEN Away ELSE IF n \in Listed(Away) THEN <<Master>> ELSE <<>>
<1>3. ASSUME NEW n \in Nodes
      PROVE  /\ Known(n) \in Seq(Nodes) /\ Len(Known(n)) <= PeerLimit
             /\ \A i, j \in 1 .. Len(Known(n)) : Known(n)[i] = Known(n)[j] => i = j
  <2>1. DOMAIN Away = 1 .. Len(Away) /\ Len(Away) <= PeerLimit /\ Away \in Seq(Nodes)
    BY <1>1 DEF Nodes
  <2>2. CASE n = Master
    BY <2>1, <2>2
  <2>3. CASE n # Master /\ n \in Listed(Away)
    <3>1. Known(n) = <<Master>> /\ Master \in Nodes
      BY <2>3 DEF Nodes
    <3> QED
      BY <3>1
  <2>4. CASE n # Master /\ n \notin Listed(Away)
    BY <2>4
  <2> QED
    BY <2>2, <2>3, <2>4
<1>4. \A n \in Nodes : flash[n] = [master |-> n \in Listed(Away), count |-> Len(Known(n)), key |-> Keys(Known(n))]
  BY DEF Init
<1> HIDE DEF Known
<1>5. ASSUME NEW n \in Nodes
      PROVE  /\ flash[n] \in FlashType /\ Clean(flash[n]) /\ Off(flash[n])
             /\ flash[n].count = Len(Known(n)) /\ (flash[n].master <=> n \in Listed(Away))
             /\ Stored(flash[n]) = Known(n)
  <2> DEFINE s == Known(n)
  <2>1. s \in Seq(Nodes) /\ Len(s) \in Nat /\ Len(s) <= PeerLimit /\ DOMAIN s = 1 .. Len(s)
    BY <1>3
  <2>2. Keys(s) \in [1 .. PeerLimit -> Macs] /\ \A i \in 1 .. PeerLimit : Keys(s)[i] = IF i \in 1 .. Len(s) THEN s[i] ELSE NoMac
    BY <2>1 DEF Keys, Macs
  <2>3. PICK b \in BOOLEAN : b <=> n \in Listed(Away)
    OBVIOUS
  <2>4. flash[n] = [master |-> b, count |-> Len(s), key |-> Keys(s)]
    BY <1>4, <2>3, Zenon
  <2>5. flash[n].count = Len(s) /\ flash[n].key = Keys(s) /\ (flash[n].master <=> n \in Listed(Away))
    BY <2>3, <2>4
  <2>6. flash[n] \in FlashType
    BY <2>1, <2>2, <2>4 DEF FlashType
  <2>7. Clean(flash[n])
    BY <2>1, <2>2, <2>5 DEF Clean
  <2>8. \A i \in 1 .. Len(s) : Keys(s)[i] = s[i]
    BY <2>1, <2>2
  <2>9. Off(flash[n])
    <3>1. \A i, j \in 1 .. Len(s) : Keys(s)[i] = Keys(s)[j] => i = j
      BY <1>3, <2>8
    <3> QED
      BY <2>1, <2>5, <2>6, <2>7, <3>1 DEF Off
  <2>10. /\ Stored(flash[n]) \in Seq(Macs) /\ Len(Stored(flash[n])) = Len(s)
        /\ \A i \in 1 .. Len(s) : Stored(flash[n])[i] = s[i]
    BY <2>1, <2>5, <2>6, <2>8, StoredFacts, SMTT(40)
  <2>11. Stored(flash[n]) = s
    BY <2>1, <2>10
  <2> QED
    BY <2>5, <2>6, <2>7, <2>9, <2>11
<1>6. TypeOK
  <2>1. /\ on \subseteq Nodes /\ discovery \subseteq on /\ wiping \subseteq on
        /\ knows \subseteq Padawans \cap on /\ acked \subseteq Padawans
        /\ polling \in BOOLEAN /\ view \in [Padawans -> {"unknown", "ack", "nak"}]
        /\ troubles \in 0 .. MaxTroubles /\ erased \subseteq Padawans
    <3>1. /\ on = Nodes \ Listed(Away) /\ discovery = {} /\ knows = {} /\ wiping = {}
          /\ acked = {} /\ troubles = 0 /\ erased = {}
          /\ view = [p \in Padawans |-> "unknown"]
      BY DEF Init
    <3>2. polling = FALSE
      BY DEF Init
    <3>3. polling \in BOOLEAN
      BY <3>2
    <3>4. view \in [Padawans -> {"unknown", "ack", "nak"}] /\ troubles \in 0 .. MaxTroubles
      BY <3>1
    <3> QED
      BY <3>1, <3>3, <3>4
  <2>2. Away \in Seq(Macs) /\ <<>> \in Seq(Macs) /\ Listed(Away) \subseteq Macs
    BY <1>1 DEF Macs, Nodes
  <2>3. list \in [Nodes -> Seq(Macs)] /\ driver \in [Nodes -> SUBSET Macs]
    BY <2>2 DEF Init
  <2>4. queue \in [Nodes -> Seq(FrameType)] /\ todo \in [Nodes -> Seq({"count", "key", "master", "ack"})]
    BY DEF Init
  <2>5. flash \in [Nodes -> FlashType]
    BY <1>5 DEF Init
  <2> QED
    BY <2>1, <2>3, <2>4, <2>5 DEF TypeOK
<1>7. ASSUME NEW n \in Nodes PROVE NodeOK(n)
  <2>1. todo[n] = <<>> /\ Stage(<<>>) = "none" /\ <<>> \in Handlers(n)
    BY DEF Init, Stage, Handlers
  <2>2. n = Master => ~flash[n].master
    BY <1>1, <1>5
  <2>3. n \in on <=> n \notin Listed(Away)
    BY DEF Init
  <2>4. list[n] = (IF n = Master THEN Away ELSE <<>>) /\ driver[n] = (IF n = Master THEN Listed(Away) ELSE {})
    BY DEF Init
  <2>5. ASSUME n \in on PROVE list[n] = Known(n)
    BY <2>3, <2>4, <2>5 DEF Known
  <2>6. ASSUME n \in on PROVE Local(flash[n], list[n], "none")
    <3>1. list[n] \in Seq(Macs) /\ Len(list[n]) = flash[n].count /\ list[n] = Stored(flash[n])
      BY <1>5, <2>5, <2>6, StoredFacts
    <3>2. Good(list[n])
      BY <1>3, <2>5, <2>6, <3>1 DEF Good
    <3>3. \A i \in 1 .. Len(list[n]) : flash[n].key[i] = list[n][i]
      BY <1>5, <3>1, <3>2, StoredFacts DEF Good
    <3> QED
      BY <1>5, <3>1, <3>2, <3>3, StoredFacts DEF Local, Agree, Holds
  <2>7. n \notin on => list[n] = <<>>
    BY <1>1, <2>3, <2>4
  <2>8. Listed(list[n]) \subseteq driver[n]
    BY <1>2, <2>4
  <2> QED
    BY <1>5, <2>1, <2>2, <2>6, <2>7, <2>8 DEF NodeOK
<1>8. ASSUME NEW p \in Padawans, CountedOn(p) PROVE Remembers(p)
  <2>1. list[Master] = Away /\ Stored(flash[Master]) = Away /\ todo[p] = <<>> /\ queue[Master] = <<>>
    BY <1>5 DEF Init, Nodes, Known
  <2>2. p \in Listed(Away)
    BY <1>2, <1>8, <2>1 DEF CountedOn, Acks
  <2> QED
    BY <1>5, <2>2 DEF Remembers, Nodes
<1> QED
  BY <1>6, <1>7, <1>8 DEF RegistryInvariant

-----------------------------------------------------------------------------
(* Steps that touch no list, no handler and no flash.                      *)

Quiet ==
  /\ TypeOK' /\ UNCHANGED <<on, list, todo, flash, erased>>
  /\ \A n \in Nodes : driver[n] \subseteq driver'[n]
  /\ Acks(queue') \subseteq Acks(queue)

LEMMA QuietStep ==
  ASSUME RegistryInvariant, Quiet
  PROVE  RegistryInvariant'
<1>1. ASSUME NEW n \in Nodes PROVE NodeOK(n)'
  BY DEF RegistryInvariant, Quiet, NodeOK
<1>2. ASSUME NEW p \in Padawans, CountedOn(p)' PROVE Remembers(p)'
  BY <1>2 DEF RegistryInvariant, Quiet, CountedOn, Remembers
<1> QED
  BY <1>1, <1>2 DEF RegistryInvariant, Quiet

(* What is left unchanged keeps its type.                                  *)
LEMMA QueueOnly ==
  ASSUME TypeOK, queue' \in Queues, Acks(queue') \subseteq Acks(queue),
         UNCHANGED <<on, radio, todo, flash, wiping, view, erased>>, troubles' \in 0 .. MaxTroubles
  PROVE  Quiet
BY DEF TypeOK, Quiet, Queues, radio

LEMMA AnyNodeQuiet ==
  ASSUME RegistryInvariant, NEW n \in Nodes, Ignore(n) \/ Press(n) \/ Lose(n)
  PROVE  Quiet
<1>1. TypeOK /\ queue \in Queues /\ troubles \in 0 .. MaxTroubles
  BY DEF RegistryInvariant, TypeOK, Queues
<1>2. CASE Ignore(n)
  BY <1>1, <1>2, QueueOnly, Rested DEF Ignore, bounds
<1>3. CASE Press(n)
  <2>1. n \in on /\ discovery' \subseteq discovery \cup {n}
        /\ UNCHANGED <<on, knows, list, driver, acked, polling, queue, todo, flash, wiping, view, bounds>>
    BY <1>3 DEF Press
  <2>2. discovery' \subseteq on'
    BY <1>1, <2>1 DEF TypeOK
  <2> QED
    BY <1>1, <2>1, <2>2 DEF TypeOK, Quiet, Queues, bounds
<1>4. CASE Lose(n)
  <2>1. troubles' \in 0 .. MaxTroubles
    BY <1>1, <1>4, RegistryAssumption DEF Lose
  <2> QED
    BY <1>1, <1>4, <2>1, QueueOnly, Rested DEF Lose
<1> QED
  BY <1>2, <1>3, <1>4

LEMMA PadawanQuiet ==
  ASSUME RegistryInvariant, NEW p \in Padawans,
         SendRegistrationRequest(p) \/ RefuseRegistration(p) \/ AskTick(p) \/ HandlePoll(p)
  PROVE  Quiet
<1>1. TypeOK /\ queue \in Queues /\ troubles \in 0 .. MaxTroubles /\ p \in Nodes /\ Master \in Nodes
  BY DEF RegistryInvariant, TypeOK, Queues, Nodes
<1>2. CASE SendRegistrationRequest(p)
  <2> DEFINE m == Frame("REGISTRATION_REQ", p)
  <2>1. m \in FrameType /\ m.kind # "REGISTRATION_ACK"
    BY <1>1, Frames
  <2> HIDE DEF m
  <2>2. /\ queue[p] # <<>> /\ discovery' \subseteq discovery
        /\ queue' = Rest(p) \/ queue' = Post(Rest(p), Master, m)
        /\ UNCHANGED <<on, knows, list, driver, acked, polling, todo, flash, wiping, view, bounds>>
    BY <1>2 DEF SendRegistrationRequest, MayLeaveDiscovery, TakesNext, m
  <2>3. Rest(p) \in Queues /\ Acks(Rest(p)) \subseteq Acks(queue)
    BY <1>1, <2>2, Rested
  <2>4. Post(Rest(p), Master, m) \in Queues /\ Acks(Post(Rest(p), Master, m)) \subseteq Acks(Rest(p))
    BY <1>1, <2>1, <2>3, Posted
  <2>5. queue' \in Queues /\ Acks(queue') \subseteq Acks(queue)
    BY <2>2, <2>3, <2>4
  <2> QED
    BY <1>1, <2>2, <2>5 DEF TypeOK, Quiet, Queues, bounds
<1>3. CASE RefuseRegistration(p)
  BY <1>1, <1>3, QueueOnly, Rested DEF RefuseRegistration, TakesNext, bounds
<1>4. CASE AskTick(p)
  <2> DEFINE m == Frame("SEND_REGISTRATION_REQ", p)
  <2>1. m \in FrameType /\ m.kind # "REGISTRATION_ACK"
    BY <1>1, Frames DEF Events
  <2> HIDE DEF m
  <2>2. queue' = Post(queue, p, m) /\ UNCHANGED <<on, radio, todo, flash, wiping, view, bounds>>
    BY <1>4 DEF AskTick, m
  <2>3. queue' \in Queues /\ Acks(queue') \subseteq Acks(queue)
    BY <1>1, <2>1, <2>2, Posted
  <2> QED
    BY <1>1, <2>2, <2>3, QueueOnly DEF bounds
<1>5. CASE HandlePoll(p)
  <2> DEFINE m == Frame("POLL_ACK", p)
  <2>1. m \in FrameType /\ m.kind # "REGISTRATION_ACK"
    BY <1>1, Frames
  <2> HIDE DEF m
  <2>2. /\ queue' = Rest(p) \/ queue' = Post(Rest(p), Master, m)
        /\ UNCHANGED <<on, radio, todo, flash, wiping, view, bounds>>
        /\ queue[p] # <<>>
    BY <1>5 DEF HandlePoll, TakesNext, m
  <2>3. Rest(p) \in Queues /\ Acks(Rest(p)) \subseteq Acks(queue)
    BY <1>1, <2>2, Rested
  <2>4. Post(Rest(p), Master, m) \in Queues /\ Acks(Post(Rest(p), Master, m)) \subseteq Acks(Rest(p))
    BY <1>1, <2>1, <2>3, Posted
  <2> QED
    BY <1>1, <2>2, <2>3, <2>4, QueueOnly DEF bounds
<1> QED
  BY <1>2, <1>3, <1>4, <1>5

LEMMA MasterQuiet ==
  ASSUME RegistryInvariant,
         \/ PollTick \/ PollPadawans \/ HandlePollAck \/ PollResponseTimeExpired
         \/ HandleRegistrationReq
  PROVE  Quiet
<1>1. TypeOK /\ queue \in Queues /\ Master \in Nodes
  BY DEF RegistryInvariant, TypeOK, Queues, Nodes
<1>2. CASE PollTick
  <2> DEFINE m == Frame(IF polling THEN "EXPIRE_POLLS" ELSE "POLL_PADAWANS", Master)
  <2>1. m \in FrameType /\ m.kind # "REGISTRATION_ACK"
    BY <1>1, Frames DEF Events
  <2> HIDE DEF m
  <2>2. /\ queue' = Post(queue, Master, m) /\ polling' = ~polling
        /\ UNCHANGED <<on, discovery, knows, list, driver, acked, todo, flash, wiping, view, bounds>>
    BY <1>2 DEF PollTick, m
  <2>3. queue' \in Queues /\ Acks(queue') \subseteq Acks(queue)
    BY <1>1, <2>1, <2>2, Posted
  <2>4. polling' \in BOOLEAN
    BY <2>2
  <2> QED
    BY <1>1, <2>2, <2>3, <2>4 DEF TypeOK, Quiet, Queues, bounds
<1>3. CASE PollPadawans
  <2> DEFINE m == Frame("POLL", Master)
  <2>1. m \in FrameType /\ m.kind # "REGISTRATION_ACK"
    BY <1>1, Frames
  <2> HIDE DEF m
  <2>2. /\ queue[Master] # <<>> /\ acked' = {}
        /\ queue' = [n \in Nodes |->
                       IF n = Master THEN Tail(queue[n])
                       ELSE IF n \in Listed(list[Master]) THEN Post(queue, n, m)[n]
                       ELSE queue[n]]
        /\ UNCHANGED <<on, discovery, knows, list, driver, polling, todo, flash, wiping, view, bounds>>
    BY <1>3 DEF PollPadawans, TakesNext, m
  <2>3. queue' \in Queues
    <3>1. \A n \in Nodes : Post(queue, n, m)[n] \in Seq(FrameType) /\ queue[n] \in Seq(FrameType)
      BY <1>1, <2>1, Posted DEF Queues
    <3>2. Tail(queue[Master]) \in Seq(FrameType)
      BY <1>1, <2>2, <3>1
    <3> QED
      BY <2>2, <3>1, <3>2 DEF Queues
  <2>4. queue'[Master] = Rest(Master)[Master]
    BY <1>1, <2>2 DEF Rest, Queues
  <2>5. Acks(queue') \subseteq Acks(queue)
    <3>1. Acks(Rest(Master)) \subseteq Acks(queue)
      BY <1>1, <2>2, Rested
    <3> QED
      BY <2>4, <3>1 DEF Acks
  <2>6. acked' \subseteq Padawans
    BY <2>2
  <2> QED
    BY <1>1, <2>2, <2>3, <2>5, <2>6 DEF TypeOK, Quiet, Queues, bounds
<1>4. CASE HandlePollAck
  <2>1. /\ queue[Master] # <<>> /\ Head(queue[Master]).kind = "POLL_ACK" /\ queue' = Rest(Master)
        /\ UNCHANGED <<on, discovery, knows, list, driver, polling, todo, flash, wiping, bounds>>
    BY <1>4 DEF HandlePollAck, TakesNext
  <2>2. queue' \in Queues /\ Acks(queue') \subseteq Acks(queue) /\ Head(queue[Master]).from \in Padawans
    BY <1>1, <2>1, Rested
  <2>3. acked' \subseteq Padawans /\ view' \in [Padawans -> {"unknown", "ack", "nak"}]
    BY <1>1, <1>4, <2>2 DEF HandlePollAck, TypeOK
  <2> QED
    BY <1>1, <2>1, <2>2, <2>3 DEF TypeOK, Quiet, Queues, bounds
<1>5. CASE PollResponseTimeExpired
  <2>1. /\ queue[Master] # <<>> /\ queue' = Rest(Master) /\ acked' = {}
        /\ view' = [p \in Padawans |-> IF p \in Listed(list[Master]) \ acked THEN "nak" ELSE view[p]]
        /\ UNCHANGED <<on, discovery, knows, list, driver, polling, todo, flash, wiping, bounds>>
    BY <1>5 DEF PollResponseTimeExpired, TakesNext
  <2>2. queue' \in Queues /\ Acks(queue') \subseteq Acks(queue)
    BY <1>1, <2>1, Rested
  <2>3. acked' \subseteq Padawans /\ view' \in [Padawans -> {"unknown", "ack", "nak"}]
    BY <1>1, <2>1 DEF TypeOK
  <2> QED
    BY <1>1, <2>1, <2>2, <2>3 DEF TypeOK, Quiet, Queues, bounds
<1>6. CASE HandleRegistrationReq
  <2> DEFINE from == Head(queue[Master]).from
             named == from \in Listed(list[Master]) \/ Len(list[Master]) < NameCount
             m == [Frame("REGISTRATION", Master) EXCEPT !.named = named]
  <2>1. named \in BOOLEAN
    OBVIOUS
  <2>2. /\ queue[Master] # <<>> /\ Head(queue[Master]).kind = "REGISTRATION_REQ"
        /\ queue' = Post(Rest(Master), from, m)
        /\ driver' = [driver EXCEPT ![Master] = @ \cup {from}]
        /\ UNCHANGED <<on, discovery, knows, list, acked, polling, todo, flash, wiping, view, bounds>>
    BY <1>6 DEF HandleRegistrationReq, TakesNext
  <2>3. /\ Rest(Master) \in Queues /\ Acks(Rest(Master)) \subseteq Acks(queue)
        /\ from \in Padawans /\ from \in Nodes /\ from \in Macs
    BY <1>1, <2>2, Rested DEF Nodes, Macs
  <2> HIDE DEF named, from
  <2>4. m \in FrameType /\ m.kind # "REGISTRATION_ACK"
    BY <1>1, <2>1, Frames
  <2> HIDE DEF m
  <2>5. queue' \in Queues /\ Acks(queue') \subseteq Acks(queue)
    BY <2>2, <2>3, <2>4, Posted
  <2>6. driver' \in [Nodes -> SUBSET Macs] /\ \A k \in Nodes : driver[k] \subseteq driver'[k]
    BY <1>1, <2>2, <2>3 DEF TypeOK
  <2> QED
    BY <1>1, <2>2, <2>5, <2>6 DEF TypeOK, Quiet, Queues, bounds
<1> QED
  BY <1>2, <1>3, <1>4, <1>5, <1>6

-----------------------------------------------------------------------------
(* Registration.                                                           *)

LEMMA CachedFacts ==
  ASSUME NEW f, NEW s, Local(f, s, "none"), NEW x \in Nodes
  PROVE  /\ Cached(s, x) \in Seq(Macs) /\ Listed(Cached(s, x)) \subseteq Listed(s) \cup {x}
         /\ Cached(s, x) = s => \A g \in {"none", "master", "ack"} : Local(f, s, g)
         /\ Cached(s, x) # s => Local(f, Cached(s, x), "count")
<1>1. s \in Seq(Macs) /\ f \in FlashType /\ x \in Macs
  BY DEF Local, Good, Macs
<1>2. CASE x \in Listed(s) \/ Len(s) >= PeerLimit
  <2>1. Cached(s, x) = s
    BY <1>2 DEF Cached
  <2> QED
    BY <1>1, <2>1, SameKeys
<1>3. CASE ~(x \in Listed(s) \/ Len(s) >= PeerLimit)
  <2>1. Cached(s, x) = Append(s, x)
    BY <1>3 DEF Cached
  <2>2. Append(s, x) \in Seq(Macs) /\ Append(s, x) # s /\ Listed(Append(s, x)) = Listed(s) \cup {x}
    BY <1>1, ListedFacts
  <2>3. Len(s) < PeerLimit
    BY <1>1, <1>3, RegistryAssumption
  <2> QED
    BY <1>3, <2>1, <2>2, <2>3, PeerCached
<1> QED
  BY <1>2, <1>3

(* A step of node n leaves the list, the handler and the flash of the      *)
(* other nodes alone.                                                      *)
OnlyAt(n) ==
  \A k \in Nodes \ {n} :
    /\ list'[k] = list[k] /\ driver'[k] = driver[k] /\ todo'[k] = todo[k] /\ flash'[k] = flash[k]
    /\ k \in on' <=> k \in on

LEMMA OthersOK ==
  ASSUME RegistryInvariant, NEW n \in Nodes, OnlyAt(n), NodeOK(n)'
  PROVE  \A k \in Nodes : NodeOK(k)'
<1> SUFFICES ASSUME NEW k \in Nodes \ {n} PROVE NodeOK(k)'
  OBVIOUS
<1>1. NodeOK(k)
  BY DEF RegistryInvariant
<1> QED
  BY <1>1 DEF NodeOK, OnlyAt

LEMMA HandleRegistrationStep ==
  ASSUME RegistryInvariant, NEW p \in Padawans, HandleRegistration(p)
  PROVE  RegistryInvariant'
<1> DEFINE s == Cached(list[p], Master)
           t == AfterRegistration(list[p])
<1>1. TypeOK /\ NodeOK(p) /\ queue \in Queues /\ p \in Nodes /\ Master \in Nodes /\ p # Master
  BY RegistryAssumption DEF RegistryInvariant, TypeOK, Queues, Nodes
<1>2. /\ p \in on /\ todo[p] = <<>> /\ queue[p] # <<>> /\ queue' = Rest(p)
      /\ knows' = knows \cup {p}
      /\ driver' = [driver EXCEPT ![p] = @ \cup {Master}]
      /\ list' = [list EXCEPT ![p] = s]
      /\ todo' = [todo EXCEPT ![p] = t]
      /\ UNCHANGED <<on, discovery, acked, polling, flash, wiping, view, bounds>>
  BY DEF HandleRegistration, TakesNext
<1>3. Local(flash[p], list[p], "none") /\ Listed(list[p]) \subseteq driver[p]
  BY <1>1, <1>2 DEF NodeOK, Stage
<1>4. s \in Seq(Macs) /\ Listed(s) \subseteq Listed(list[p]) \cup {Master}
  BY <1>1, <1>3, CachedFacts
<1>5. Local(flash[p], s, Stage(t)) /\ t \in Handlers(p) /\ t # <<"ack">>
  <2>1. CASE s = list[p]
    <3>1. t = <<"master", "ack">>
      BY <2>1 DEF AfterRegistration
    <3>2. Stage(t) = "master" /\ t \in Handlers(p) /\ t # <<"ack">>
      BY <1>1, <3>1 DEF Stage, Handlers
    <3>3. Local(flash[p], list[p], "master")
      BY <1>1, <1>3, <2>1, CachedFacts
    <3> QED
      BY <2>1, <3>2, <3>3
  <2>2. CASE s # list[p]
    <3>1. t = <<"count", "key", "master", "ack">>
      BY <2>2 DEF AfterRegistration
    <3>2. Stage(t) = "count" /\ t \in Handlers(p) /\ t # <<"ack">>
      BY <1>1, <3>1 DEF Stage, Handlers
    <3>3. Local(flash[p], s, "count")
      BY <1>1, <1>3, <2>2, CachedFacts
    <3> QED
      BY <3>2, <3>3
  <2> QED
    BY <2>1, <2>2
<1> HIDE DEF s, t
<1>6. queue' \in Queues /\ Acks(queue') \subseteq Acks(queue)
  BY <1>1, <1>2, Rested
<1>7. /\ list'[p] = s /\ driver'[p] = driver[p] \cup {Master} /\ todo'[p] = t
      /\ OnlyAt(p)
  BY <1>1, <1>2 DEF OnlyAt, TypeOK
<1>8. TypeOK'
  <2>1. list' \in [Nodes -> Seq(Macs)]
    BY <1>1, <1>2, <1>4 DEF TypeOK
  <2>2. driver' \in [Nodes -> SUBSET Macs]
    BY <1>1, <1>2 DEF TypeOK, Macs
  <2>3. t \in Seq({"count", "key", "master", "ack"})
    BY <1>1, <1>5, HandlerType
  <2>4. todo' \in [Nodes -> Seq({"count", "key", "master", "ack"})]
    BY <1>1, <1>2, <2>3 DEF TypeOK
  <2> QED
    BY <1>1, <1>2, <1>6, <2>1, <2>2, <2>4 DEF TypeOK, Queues, bounds
<1>9. NodeOK(p)'
  BY <1>1, <1>2, <1>3, <1>4, <1>5, <1>7 DEF NodeOK
<1>10. \A k \in Nodes : NodeOK(k)'
  BY <1>1, <1>7, <1>9, OthersOK
<1>11. ASSUME NEW x \in Padawans, CountedOn(x)' PROVE Remembers(x)'
  <2>1. CountedOn(x)
    <3>1. x \in Nodes /\ list'[Master] = list[Master] /\ flash' = flash
      BY <1>1, <1>2, <1>7 DEF OnlyAt, Nodes
    <3>2. todo'[x] = <<"ack">> => todo[x] = <<"ack">>
      BY <1>1, <1>5, <1>7, <3>1 DEF OnlyAt
    <3> QED
      BY <1>6, <1>11, <3>1, <3>2 DEF CountedOn
  <2>2. Remembers(x)
    BY <2>1 DEF RegistryInvariant
  <2> QED
    BY <1>2, <2>2 DEF Remembers, bounds
<1> QED
  BY <1>8, <1>10, <1>11 DEF RegistryInvariant

LEMMA HandleRegistrationAckStep ==
  ASSUME RegistryInvariant, HandleRegistrationAck
  PROVE  RegistryInvariant'
<1> DEFINE x == Head(queue[Master]).from
           s == Cached(list[Master], x)
           t == Saving(list[Master], x)
<1>1. TypeOK /\ NodeOK(Master) /\ queue \in Queues /\ Master \in Nodes
  BY DEF RegistryInvariant, TypeOK, Queues, Nodes
<1>2. /\ Master \in on /\ todo[Master] = <<>> /\ queue[Master] # <<>> /\ queue' = Rest(Master)
      /\ Head(queue[Master]).kind = "REGISTRATION_ACK" /\ Accepts(Master)
      /\ list' = [list EXCEPT ![Master] = s]
      /\ todo' = [todo EXCEPT ![Master] = t]
      /\ UNCHANGED <<on, discovery, knows, driver, acked, polling, flash, wiping, view, bounds>>
  BY DEF HandleRegistrationAck, TakesNext
<1>3. Local(flash[Master], list[Master], "none") /\ Listed(list[Master]) \subseteq driver[Master]
  BY <1>1, <1>2 DEF NodeOK, Stage
<1>4. /\ queue' \in Queues /\ Acks(queue') \subseteq Acks(queue)
      /\ x \in Padawans /\ x \in Nodes /\ x \in Acks(queue)
  BY <1>1, <1>2, Rested DEF Acks, Nodes
<1>5. x \in driver[Master]
  BY <1>2 DEF Accepts, Broadcasts
<1>6. s \in Seq(Macs) /\ Listed(s) \subseteq Listed(list[Master]) \cup {x}
  BY <1>3, <1>4, CachedFacts
<1>7. Local(flash[Master], s, Stage(t)) /\ t \in Handlers(Master)
  <2>1. CASE s = list[Master]
    <3>1. t = <<>>
      BY <2>1 DEF Saving
    <3> QED
      BY <1>3, <2>1, <3>1 DEF Stage, Handlers
  <2>2. CASE s # list[Master]
    <3>1. t = <<"count", "key">>
      BY <2>2 DEF Saving
    <3>2. Stage(t) = "count" /\ t \in Handlers(Master)
      BY <3>1 DEF Stage, Handlers
    <3>3. Local(flash[Master], s, "count")
      BY <1>3, <1>4, <2>2, CachedFacts
    <3> QED
      BY <3>2, <3>3
  <2> QED
    BY <2>1, <2>2
<1> HIDE DEF x, s, t
<1>8. list'[Master] = s /\ driver' = driver /\ todo'[Master] = t /\ OnlyAt(Master)
  BY <1>1, <1>2 DEF OnlyAt, TypeOK
<1>9. TypeOK'
  <2>1. list' \in [Nodes -> Seq(Macs)]
    BY <1>1, <1>2, <1>6 DEF TypeOK
  <2>2. t \in Seq({"count", "key", "master", "ack"})
    BY <1>1, <1>7, HandlerType
  <2>3. todo' \in [Nodes -> Seq({"count", "key", "master", "ack"})]
    BY <1>1, <1>2, <2>2 DEF TypeOK
  <2> QED
    BY <1>1, <1>2, <1>4, <2>1, <2>3 DEF TypeOK, Queues, bounds
<1>10. NodeOK(Master)'
  BY <1>1, <1>2, <1>3, <1>5, <1>6, <1>7, <1>8 DEF NodeOK
<1>11. \A k \in Nodes : NodeOK(k)'
  BY <1>1, <1>8, <1>10, OthersOK
<1>12. ASSUME NEW p \in Padawans, CountedOn(p)' PROVE Remembers(p)'
  <2>1. p \in Nodes \ {Master}
    BY RegistryAssumption DEF Nodes
  <2>2. todo'[p] = todo[p] /\ flash' = flash
    BY <1>2, <1>8, <2>1 DEF OnlyAt
  <2>3. CountedOn(p)
    BY <1>4, <1>6, <1>8, <1>12, <2>2 DEF CountedOn
  <2>4. Remembers(p)
    BY <2>3 DEF RegistryInvariant
  <2> QED
    BY <1>2, <2>4 DEF Remembers, bounds
<1> QED
  BY <1>9, <1>11, <1>12 DEF RegistryInvariant

LEMMA SendRegistrationAckStep ==
  ASSUME RegistryInvariant, NEW p \in Padawans, SendRegistrationAck(p)
  PROVE  RegistryInvariant'
<1> DEFINE m == Frame("REGISTRATION_ACK", p)
<1>1. TypeOK /\ NodeOK(p) /\ queue \in Queues /\ p \in Nodes /\ Master \in Nodes /\ p # Master
  BY RegistryAssumption DEF RegistryInvariant, TypeOK, Queues, Nodes
<1>2. m \in FrameType /\ m.kind = "REGISTRATION_ACK" /\ m.from = p
  BY <1>1, Frames
<1> HIDE DEF m
<1>3. /\ p \in on /\ todo[p] # <<>> /\ Head(todo[p]) = "ack"
      /\ queue' = Post(queue, Master, m) /\ discovery' \subseteq discovery
      /\ todo' = [todo EXCEPT ![p] = Tail(@)]
      /\ UNCHANGED <<on, knows, list, driver, acked, polling, flash, wiping, view, bounds>>
  BY DEF SendRegistrationAck, MayLeaveDiscovery, m
<1>4. todo[p] = <<"ack">> /\ Tail(todo[p]) = <<>> /\ Stage(todo[p]) = "ack"
  BY <1>1, <1>3, HandlerFacts DEF NodeOK
<1>5. todo' = [todo EXCEPT ![p] = <<>>] /\ todo'[p] = <<>> /\ OnlyAt(p)
  BY <1>1, <1>3, <1>4 DEF OnlyAt, TypeOK
<1>6. queue' \in Queues /\ Acks(queue') \subseteq Acks(queue) \cup {p}
  BY <1>1, <1>2, <1>3, Posted
<1>7. TypeOK'
  <2>1. todo' \in [Nodes -> Seq({"count", "key", "master", "ack"})]
    BY <1>1, <1>5 DEF TypeOK
  <2> QED
    BY <1>1, <1>3, <1>6, <2>1 DEF TypeOK, Queues, bounds
<1>8. NodeOK(p)'
  <2>1. Local(flash[p], list[p], "ack") /\ Listed(list[p]) \subseteq driver[p]
    BY <1>1, <1>3, <1>4 DEF NodeOK
  <2>2. Local(flash[p], list[p], "none")
    <3>1. flash[p] \in FlashType
      BY <1>1 DEF TypeOK
    <3> QED
      BY <2>1, <3>1, SameKeys
  <2>3. Stage(<<>>) = "none" /\ <<>> \in Handlers(p)
    BY <1>1 DEF Stage, Handlers
  <2> QED
    BY <1>1, <1>3, <1>5, <2>1, <2>2, <2>3 DEF NodeOK
<1>9. \A k \in Nodes : NodeOK(k)'
  BY <1>1, <1>5, <1>8, OthersOK
<1>10. ASSUME NEW x \in Padawans, CountedOn(x)' PROVE Remembers(x)'
  <2>1. CountedOn(x)
    <3>1. x \in Nodes
      BY DEF Nodes
    <3>2. x # p => todo'[x] = todo[x]
      BY <1>5, <3>1 DEF OnlyAt
    <3> QED
      BY <1>3, <1>4, <1>5, <1>6, <1>10, <3>2 DEF CountedOn
  <2>2. Remembers(x)
    BY <2>1 DEF RegistryInvariant
  <2> QED
    BY <1>3, <2>2 DEF Remembers, bounds
<1> QED
  BY <1>7, <1>9, <1>10 DEF RegistryInvariant

-----------------------------------------------------------------------------
(* Writes to flash, power and the button.                                  *)

(* What the next write of the handler makes of the flash.                  *)
Written(f, s, g) ==
  CASE g = "count" -> SaveCount(f)
    [] g = "key" -> SaveKey(f, s)
    [] g = "master" -> SaveMaster(f)

LEMMA WriteFacts ==
  ASSUME NEW n \in Nodes, NEW t \in Handlers(n), t # <<>>, Head(t) # "ack",
         NEW f, NEW s, Local(f, s, Stage(t))
  PROVE  /\ Local(Written(f, s, Head(t)), s, Stage(Tail(t)))
         /\ Listed(Stored(Written(f, s, Head(t)))) \subseteq Listed(Stored(f)) \cup Listed(s) \cup {NoMac}
         /\ Head(t) = "master" => Written(f, s, Head(t)).master
         /\ Head(t) # "master" => Written(f, s, Head(t)).master = f.master
<1> DEFINE h == Written(f, s, Head(t))
<1>1. /\ Head(t) \in {"count", "key", "master"} /\ Stage(t) = Head(t)
      /\ Head(t) = "count" => Stage(Tail(t)) = "key"
      /\ Head(t) = "key" => Stage(Tail(t)) \in {"none", "master"}
      /\ Head(t) = "master" => Stage(Tail(t)) = "ack"
  BY HandlerFacts
<1>2. f \in FlashType /\ s \in Seq(Macs)
  BY DEF Local, Good
<1>3. CASE Head(t) = "count"
  <2>1. h = SaveCount(f) /\ Local(f, s, "count") /\ Stage(Tail(t)) = "key"
    BY <1>1, <1>3 DEF Written
  <2> QED
    BY <1>3, <2>1, CountSaved
<1>4. CASE Head(t) = "key"
  <2>1. h = SaveKey(f, s) /\ Local(f, s, "key") /\ Stage(Tail(t)) \in {"none", "master", "ack"}
    BY <1>1, <1>4 DEF Written
  <2>2. /\ Local(h, s, Stage(Tail(t))) /\ h.master = f.master
        /\ Listed(Stored(h)) \subseteq Listed(Stored(f)) \cup {s[Len(s)]}
    BY <2>1, KeySaved
  <2>3. s[Len(s)] \in Listed(s)
    <3>1. s # <<>> /\ Len(s) \in DOMAIN s
      BY <1>2, <2>1 DEF Local
    <3> QED
      BY <3>1 DEF Listed
  <2> QED
    BY <1>4, <2>2, <2>3
<1>5. CASE Head(t) = "master"
  <2>1. h = SaveMaster(f) /\ Local(f, s, "master") /\ Stage(Tail(t)) = "ack"
    BY <1>1, <1>5 DEF Written
  <2>2. h \in FlashType /\ h.count = f.count /\ h.key = f.key /\ h.master
    <3> HIDE DEF h
    <3>1. SaveMaster(f) \in FlashType /\ SaveMaster(f).count = f.count /\ SaveMaster(f).key = f.key
      BY <1>2, FlashWrites
    <3>2. SaveMaster(f).master
      BY <1>2, FlashWrites, Zenon
    <3>3. h.master
      BY <2>1, <3>2, Zenon
    <3> QED
      BY <2>1, <3>1, <3>3
  <2>3. Local(h, s, "ack") /\ Stored(h) = Stored(f)
    BY <2>1, <2>2, SameKeys
  <2> QED
    BY <1>5, <2>1, <2>2, <2>3
<1> QED
  BY <1>1, <1>3, <1>4, <1>5

LEMMA WriteStep ==
  ASSUME RegistryInvariant, NEW n \in Nodes, Write(n)
  PROVE  RegistryInvariant'
<1> DEFINE f == flash[n]
           h == Written(f, list[n], Head(todo[n]))
<1>1. TypeOK /\ NodeOK(n) /\ Master \in Nodes /\ Padawans \subseteq Nodes \ {Master}
  BY RegistryAssumption DEF RegistryInvariant, Nodes
<1>2. /\ n \in on /\ todo[n] # <<>> /\ Head(todo[n]) # "ack"
      /\ flash' = [flash EXCEPT ![n] = h]
      /\ todo' = [todo EXCEPT ![n] = Tail(@)]
      /\ erased' = IF Head(todo[n]) = "master" THEN erased \ {n} ELSE erased
      /\ UNCHANGED <<on, radio, queue, wiping, view, troubles>>
  BY DEF Write, Written
<1>3. todo[n] \in Handlers(n) /\ Local(f, list[n], Stage(todo[n])) /\ Listed(list[n]) \subseteq driver[n]
  BY <1>1, <1>2 DEF NodeOK
<1>4. /\ Local(h, list[n], Stage(Tail(todo[n])))
      /\ Listed(Stored(h)) \subseteq Listed(Stored(f)) \cup Listed(list[n]) \cup {NoMac}
      /\ Head(todo[n]) = "master" => h.master
      /\ Head(todo[n]) # "master" => h.master = f.master
  BY <1>2, <1>3, WriteFacts
<1>5. h \in FlashType
  BY <1>4 DEF Local
<1> HIDE DEF h, f
<1>6. /\ flash'[n] = h /\ todo'[n] = Tail(todo[n]) /\ list' = list /\ driver' = driver
      /\ OnlyAt(n)
  BY <1>1, <1>2 DEF OnlyAt, TypeOK, radio
<1>7. /\ Tail(todo[n]) \in Handlers(n)
      /\ Tail(todo[n]) = <<"ack">> => Head(todo[n]) = "master"
      /\ Head(todo[n]) = "master" => n # Master
  BY <1>2, <1>3, HandlerFacts
<1>8. TypeOK'
  <2>1. flash' \in [Nodes -> FlashType]
    BY <1>1, <1>2, <1>5 DEF TypeOK
  <2>2. todo' \in [Nodes -> Seq({"count", "key", "master", "ack"})]
    <3>1. Tail(todo[n]) \in Seq({"count", "key", "master", "ack"})
      BY <1>7, HandlerType
    <3> QED
      BY <1>1, <1>2, <3>1 DEF TypeOK
  <2>3. erased' \subseteq Padawans
    BY <1>1, <1>2 DEF TypeOK
  <2> QED
    BY <1>1, <1>2, <2>1, <2>2, <2>3 DEF TypeOK, radio
<1>9. NodeOK(n)'
  <2>1. n = Master => ~h.master
    BY <1>1, <1>4, <1>7 DEF NodeOK, f
  <2> QED
    BY <1>2, <1>3, <1>4, <1>6, <1>7, <2>1 DEF NodeOK
<1>10. \A k \in Nodes : NodeOK(k)'
  BY <1>6, <1>9, OthersOK
<1>11. ASSUME NEW p \in Padawans, CountedOn(p)' PROVE Remembers(p)'
  <2>1. p \in Nodes /\ p # Master /\ p # NoMac
    BY <1>1, RegistryAssumption
  <2>2. CASE p = n /\ Head(todo[n]) = "master"
    BY <1>4, <1>6, <2>2 DEF Remembers
  <2>3. CASE ~(p = n /\ Head(todo[n]) = "master")
    <3>1. Remembers(p) => Remembers(p)'
      <4>1. flash'[p].master = flash[p].master
        BY <1>4, <1>6, <2>1, <2>3 DEF OnlyAt, f
      <4>2. p \in erased => p \in erased'
        BY <1>2, <2>3
      <4> QED
        BY <4>1, <4>2 DEF Remembers
    <3>2. todo'[p] = <<"ack">> => todo[p] = <<"ack">>
      BY <1>6, <1>7, <2>1, <2>3 DEF OnlyAt
    <3>3. p \in Listed(Stored(flash'[Master])) => p \in Listed(Stored(flash[Master])) \cup Listed(list[Master])
      BY <1>1, <1>4, <1>6, <2>1 DEF OnlyAt, f
    <3>4. CountedOn(p)
      BY <1>2, <1>6, <1>11, <3>2, <3>3 DEF CountedOn
    <3> QED
      BY <3>1, <3>4 DEF RegistryInvariant
  <2> QED
    BY <2>2, <2>3
<1> QED
  BY <1>8, <1>10, <1>11 DEF RegistryInvariant

(* What a node is without power, and what the others are.                  *)
LEMMA DownFacts ==
  ASSUME TypeOK, NEW n \in Nodes, Down(n), on' = on \ {n}
  PROVE  /\ on' \subseteq Nodes /\ discovery' \subseteq on' /\ wiping' \subseteq on'
         /\ knows' \subseteq Padawans \cap on' /\ acked' \subseteq Padawans /\ polling' \in BOOLEAN
         /\ list' \in [Nodes -> Seq(Macs)] /\ driver' \in [Nodes -> SUBSET Macs]
         /\ queue' \in [Nodes -> Seq(FrameType)]
         /\ todo' \in [Nodes -> Seq({"count", "key", "master", "ack"})]
         /\ list'[n] = <<>> /\ todo'[n] = <<>>
         /\ \A k \in Nodes : Listed(list'[k]) \subseteq Listed(list[k])
         /\ Acks(queue') \subseteq Acks(queue)
         /\ \A k \in Nodes \ {n} : list'[k] = list[k] /\ driver'[k] = driver[k] /\ todo'[k] = todo[k]
<1>1. /\ discovery' = discovery \ {n} /\ knows' = knows \ {n} /\ wiping' = wiping \ {n}
      /\ list' = [list EXCEPT ![n] = <<>>] /\ driver' = [driver EXCEPT ![n] = {}]
      /\ queue' = [queue EXCEPT ![n] = <<>>] /\ todo' = [todo EXCEPT ![n] = <<>>]
  BY DEF Down
<1>2. acked' \subseteq Padawans
  BY DEF Down, TypeOK
<1>3. polling' \in BOOLEAN
  <2>1. polling \in BOOLEAN
    BY DEF TypeOK
  <2>2. polling' = FALSE \/ polling' = polling
    BY DEF Down
  <2> QED
    BY <2>1, <2>2
<1>4. /\ on' \subseteq Nodes /\ discovery' \subseteq on' /\ wiping' \subseteq on'
      /\ knows' \subseteq Padawans \cap on'
  BY <1>1 DEF TypeOK
<1>5. /\ list' \in [Nodes -> Seq(Macs)] /\ driver' \in [Nodes -> SUBSET Macs]
      /\ list'[n] = <<>>
      /\ \A k \in Nodes \ {n} : list'[k] = list[k] /\ driver'[k] = driver[k]
  BY <1>1 DEF TypeOK
<1>6. /\ todo' \in [Nodes -> Seq({"count", "key", "master", "ack"})]
      /\ todo'[n] = <<>> /\ \A k \in Nodes \ {n} : todo'[k] = todo[k]
  BY <1>1 DEF TypeOK
<1>7. /\ queue' \in [Nodes -> Seq(FrameType)]
      /\ queue'[n] = <<>> /\ \A k \in Nodes \ {n} : queue'[k] = queue[k]
  BY <1>1 DEF TypeOK
<1>8. Listed(<<>>) = {}
  BY DEF Listed
<1>9. Acks(queue') \subseteq Acks(queue)
  <2>1. Master \in Nodes
    BY DEF Nodes
  <2> QED
    BY <1>7, <1>8, <2>1 DEF Acks
<1>10. \A k \in Nodes : Listed(list'[k]) \subseteq Listed(list[k])
  BY <1>5, <1>8
<1> QED
  BY <1>2, <1>3, <1>4, <1>5, <1>6, <1>7, <1>9, <1>10

LEMMA EmptyHandler ==
  ASSUME NEW n \in Nodes
  PROVE  <<>> \in Handlers(n) /\ Stage(<<>>) = "none"
BY DEF Handlers, Stage

LEMMA PowerOffStep ==
  ASSUME RegistryInvariant, NEW n \in Nodes, PowerOff(n)
  PROVE  RegistryInvariant'
<1>1. TypeOK /\ NodeOK(n) /\ Master \in Nodes
  BY DEF RegistryInvariant, Nodes
<1>2. /\ n \in on /\ on' = on \ {n} /\ Down(n) /\ troubles < MaxTroubles /\ troubles' = troubles + 1
      /\ flash' = flash /\ view' = view /\ erased' = erased
  BY DEF PowerOff
<1>3. TypeOK'
  <2>1. troubles' \in 0 .. MaxTroubles
    BY <1>1, <1>2, RegistryAssumption DEF TypeOK
  <2> QED
    BY <1>1, <1>2, <2>1, DownFacts DEF TypeOK
<1>4. NodeOK(n)'
  <2>1. Off(flash[n])
    BY <1>1, <1>2, PowerLost DEF NodeOK
  <2>2. list'[n] = <<>> /\ todo'[n] = <<>>
    BY <1>1, <1>2, DownFacts
  <2> QED
    BY <1>1, <1>2, <2>1, <2>2, EmptyHandler DEF NodeOK
<1>5. OnlyAt(n)
  BY <1>1, <1>2, DownFacts DEF OnlyAt
<1>6. \A k \in Nodes : NodeOK(k)'
  BY <1>4, <1>5, OthersOK
<1>7. ASSUME NEW p \in Padawans, CountedOn(p)' PROVE Remembers(p)'
  <2>1. todo'[p] = <<"ack">> => todo[p] = <<"ack">>
    <3>1. list'[n] = <<>> /\ todo'[n] = <<>> /\ \A k \in Nodes \ {n} : todo'[k] = todo[k]
      BY <1>1, <1>2, DownFacts
    <3>2. p \in Nodes /\ <<>> # <<"ack">>
      BY DEF Nodes
    <3> QED
      BY <3>1, <3>2
  <2>2. Listed(list'[Master]) \subseteq Listed(list[Master]) /\ Acks(queue') \subseteq Acks(queue)
    BY <1>1, <1>2, DownFacts
  <2>3. CountedOn(p)
    BY <1>2, <1>7, <2>1, <2>2 DEF CountedOn
  <2> QED
    BY <1>2, <2>3 DEF RegistryInvariant, Remembers
<1> QED
  BY <1>3, <1>6, <1>7 DEF RegistryInvariant

LEMMA WipePeersStep ==
  ASSUME RegistryInvariant, NEW n \in Nodes, WipePeers(n)
  PROVE  RegistryInvariant'
<1>1. TypeOK /\ NodeOK(n) /\ Master \in Nodes
  BY DEF RegistryInvariant, Nodes
<1>2. /\ n \in on /\ on' = on \ {n} /\ Down(n)
      /\ flash' = [flash EXCEPT ![n] = ErasePeers(@)]
      /\ view' = view /\ erased' = erased /\ troubles' = troubles
  BY <1>1 DEF WipePeers, TypeOK, bounds
<1>3. flash[n] \in FlashType /\ Clean(flash[n])
  BY <1>1, <1>2 DEF NodeOK, Local
<1>4. /\ Off(ErasePeers(flash[n])) /\ ErasePeers(flash[n]).master = flash[n].master
      /\ Listed(Stored(ErasePeers(flash[n]))) = {} /\ ErasePeers(flash[n]) \in FlashType
  BY <1>3, PeersWiped DEF Off
<1>5. /\ flash' \in [Nodes -> FlashType] /\ flash'[n] = ErasePeers(flash[n])
      /\ \A k \in Nodes \ {n} : flash'[k] = flash[k]
  BY <1>1, <1>2, <1>4 DEF TypeOK
<1>6. TypeOK'
  BY <1>1, <1>2, <1>5, DownFacts DEF TypeOK
<1>7. NodeOK(n)'
  <2>1. list'[n] = <<>> /\ todo'[n] = <<>>
    BY <1>1, <1>2, DownFacts
  <2> QED
    BY <1>1, <1>2, <1>4, <1>5, <2>1, EmptyHandler DEF NodeOK
<1>8. OnlyAt(n)
  BY <1>1, <1>2, <1>5, DownFacts DEF OnlyAt
<1>9. \A k \in Nodes : NodeOK(k)'
  BY <1>7, <1>8, OthersOK
<1>10. ASSUME NEW p \in Padawans, CountedOn(p)' PROVE Remembers(p)'
  <2>1. todo'[p] = <<"ack">> => todo[p] = <<"ack">>
    <3>1. list'[n] = <<>> /\ todo'[n] = <<>> /\ \A k \in Nodes \ {n} : todo'[k] = todo[k]
      BY <1>1, <1>2, DownFacts
    <3>2. p \in Nodes /\ <<>> # <<"ack">>
      BY DEF Nodes
    <3> QED
      BY <3>1, <3>2
  <2>2. Listed(list'[Master]) \subseteq Listed(list[Master]) /\ Acks(queue') \subseteq Acks(queue)
    BY <1>1, <1>2, DownFacts
  <2>3. Listed(Stored(flash'[Master])) \subseteq Listed(Stored(flash[Master]))
    BY <1>1, <1>4, <1>5
  <2>4. CountedOn(p)
    BY <1>10, <2>1, <2>2, <2>3 DEF CountedOn
  <2>5. flash'[p].master = flash[p].master
    BY <1>4, <1>5 DEF Nodes
  <2> QED
    BY <1>2, <2>4, <2>5 DEF RegistryInvariant, Remembers
<1> QED
  BY <1>6, <1>9, <1>10 DEF RegistryInvariant

LEMMA WipeMasterStep ==
  ASSUME RegistryInvariant, NEW n \in Nodes, WipeMaster(n)
  PROVE  RegistryInvariant'
<1> DEFINE h == EraseMaster(flash[n])
<1>1. TypeOK /\ NodeOK(n) /\ Master \in Nodes
  BY DEF RegistryInvariant, Nodes
<1>2. /\ n \in on /\ troubles < MaxTroubles /\ troubles' = troubles + 1 /\ wiping' = wiping \cup {n}
      /\ flash' = [flash EXCEPT ![n] = h] /\ erased' = erased \cup ({n} \cap Padawans)
      /\ UNCHANGED <<on, radio, queue, todo, view>>
  BY DEF WipeMaster
<1>3. flash[n] \in FlashType
  BY <1>1 DEF TypeOK
<1>4. h \in FlashType /\ h.count = flash[n].count /\ h.key = flash[n].key /\ ~h.master
  BY <1>3, FlashWrites
<1> HIDE DEF h
<1>5. /\ Local(flash[n], list[n], Stage(todo[n])) => Local(h, list[n], Stage(todo[n]))
      /\ Stored(h) = Stored(flash[n])
  BY <1>4, SameKeys DEF Stored
<1>6. flash' \in [Nodes -> FlashType] /\ flash'[n] = h /\ \A k \in Nodes \ {n} : flash'[k] = flash[k]
  BY <1>1, <1>2, <1>4 DEF TypeOK
<1>7. TypeOK'
  <2>1. troubles' \in 0 .. MaxTroubles
    BY <1>1, <1>2, RegistryAssumption DEF TypeOK
  <2>2. wiping' \subseteq on' /\ erased' \subseteq Padawans
    BY <1>1, <1>2 DEF TypeOK
  <2> QED
    BY <1>1, <1>2, <1>6, <2>1, <2>2 DEF TypeOK, radio
<1>8. NodeOK(n)'
  BY <1>1, <1>2, <1>4, <1>5, <1>6 DEF NodeOK, radio
<1>9. OnlyAt(n)
  BY <1>2, <1>6 DEF OnlyAt, radio
<1>10. \A k \in Nodes : NodeOK(k)'
  BY <1>8, <1>9, OthersOK
<1>11. ASSUME NEW p \in Padawans, CountedOn(p)' PROVE Remembers(p)'
  <2>1. Stored(flash'[Master]) = Stored(flash[Master])
    BY <1>1, <1>5, <1>6
  <2>2. CountedOn(p)
    BY <1>2, <1>11, <2>1 DEF CountedOn, radio
  <2>3. Remembers(p)
    BY <2>2 DEF RegistryInvariant
  <2>4. p = n => p \in erased'
    BY <1>2
  <2>5. p # n => flash'[p] = flash[p]
    BY <1>6 DEF Nodes
  <2> QED
    BY <1>2, <2>3, <2>4, <2>5 DEF Remembers
<1> QED
  BY <1>7, <1>10, <1>11 DEF RegistryInvariant

LEMMA BootStep ==
  ASSUME RegistryInvariant, NEW n \in Nodes, Boot(n)
  PROVE  RegistryInvariant'
<1> DEFINE s == Stored(flash[n])
<1>1. TypeOK /\ NodeOK(n) /\ Master \in Nodes
  BY DEF RegistryInvariant, Nodes
<1>2. PICK k \in Loadable(s) :
        /\ k + 1 \notin Loadable(s)
        /\ list' = [list EXCEPT ![n] = SubSeq(s, 1, k)]
        /\ driver' = [driver EXCEPT ![n] = Listed(SubSeq(s, 1, k))]
  BY DEF Boot
<1>3. /\ n \notin on /\ on' = on \cup {n}
      /\ knows' = IF flash[n].master THEN knows \cup {n} ELSE knows
      /\ UNCHANGED <<discovery, polling, queue, todo, flash, wiping, view, bounds>>
  BY DEF Boot
<1>4. acked' \subseteq Padawans
  BY <1>1 DEF Boot, TypeOK
<1>5. Off(flash[n]) /\ todo[n] = <<>> /\ flash[n] \in FlashType
  BY <1>1, <1>3 DEF NodeOK, Off
<1>6. Local(flash[n], SubSeq(s, 1, k), "none")
  BY <1>2, <1>5, PeersLoaded
<1>7. s \in Seq(Macs) /\ k \in 0 .. Len(s)
  BY <1>5, StoredFacts DEF Loadable
<1> DEFINE t == SubSeq(s, 1, k)
<1>8. t \in Seq(Macs) /\ Listed(t) \subseteq Listed(s)
  BY <1>7, PrefixFacts
<1>9. Listed(s) \subseteq Macs
  BY <1>7, ListedFacts
<1> HIDE DEF s, t
<1>10. /\ list'[n] = t /\ driver'[n] = Listed(t) /\ OnlyAt(n)
       /\ list' \in [Nodes -> Seq(Macs)] /\ driver' \in [Nodes -> SUBSET Macs]
  BY <1>1, <1>2, <1>3, <1>8, <1>9 DEF OnlyAt, TypeOK, t
<1>11. TypeOK'
  <2>1. on' \subseteq Nodes /\ discovery' \subseteq on' /\ wiping' \subseteq on'
    BY <1>1, <1>3 DEF TypeOK
  <2>2. knows' \subseteq Padawans \cap on'
    BY <1>1, <1>3 DEF TypeOK, NodeOK, Nodes
  <2> QED
    BY <1>1, <1>3, <1>4, <1>10, <2>1, <2>2 DEF TypeOK, bounds
<1>12. NodeOK(n)'
  <2>1. Stage(todo[n]) = "none"
    BY <1>5, EmptyHandler
  <2> QED
    BY <1>1, <1>3, <1>6, <1>10, <2>1 DEF NodeOK, t
<1>13. \A m \in Nodes : NodeOK(m)'
  BY <1>10, <1>12, OthersOK
<1>14. ASSUME NEW p \in Padawans, CountedOn(p)' PROVE Remembers(p)'
  <2>1. p \in Listed(list'[Master]) => p \in Listed(list[Master]) \cup Listed(Stored(flash[Master]))
    BY <1>1, <1>8, <1>10 DEF OnlyAt, s
  <2>2. CountedOn(p)
    BY <1>3, <1>14, <2>1 DEF CountedOn
  <2> QED
    BY <1>3, <2>2 DEF RegistryInvariant, Remembers, bounds
<1> QED
  BY <1>11, <1>13, <1>14 DEF RegistryInvariant

-----------------------------------------------------------------------------
(* The theorems.                                                           *)

LEMMA NextRegistry == RegistryInvariant /\ [Next]_vars => RegistryInvariant'
<1> SUFFICES ASSUME RegistryInvariant, [Next]_vars PROVE RegistryInvariant'
  OBVIOUS
<1>1. ASSUME NEW n \in Nodes, Task(n) PROVE RegistryInvariant'
  <2>1. CASE Ignore(n)
    BY <2>1, AnyNodeQuiet, QuietStep
  <2>2. CASE Write(n)
    BY <2>2, WriteStep
  <2>3. CASE MasterTask
    <3>1. CASE HandleRegistrationAck
      BY <3>1, HandleRegistrationAckStep
    <3>2. CASE HandleRegistrationReq \/ PollPadawans \/ HandlePollAck \/ PollResponseTimeExpired
      BY <3>2, MasterQuiet, QuietStep
    <3> QED
      BY <2>3, <3>1, <3>2 DEF MasterTask
  <2>4. CASE n \in Padawans /\ PadawanTask(n)
    <3>1. CASE HandleRegistration(n)
      BY <2>4, <3>1, HandleRegistrationStep
    <3>2. CASE SendRegistrationAck(n)
      BY <2>4, <3>2, SendRegistrationAckStep
    <3>3. CASE SendRegistrationRequest(n) \/ RefuseRegistration(n) \/ HandlePoll(n)
      BY <2>4, <3>3, PadawanQuiet, QuietStep
    <3> QED
      BY <2>4, <3>1, <3>2, <3>3 DEF PadawanTask
  <2> QED
    BY <1>1, <2>1, <2>2, <2>3, <2>4 DEF Task
<1>2. CASE PollTick
  BY <1>2, MasterQuiet, QuietStep
<1>3. ASSUME NEW p \in Padawans, AskTick(p) PROVE RegistryInvariant'
  BY <1>3, PadawanQuiet, QuietStep
<1>4. ASSUME NEW n \in Nodes, PowerOff(n) \/ Boot(n) \/ Press(n) \/ WipeMaster(n) \/ WipePeers(n) \/ Lose(n)
      PROVE  RegistryInvariant'
  <2>1. CASE Press(n) \/ Lose(n)
    BY <2>1, AnyNodeQuiet, QuietStep
  <2> QED
    BY <1>4, <2>1, PowerOffStep, BootStep, WipeMasterStep, WipePeersStep
<1>5. CASE UNCHANGED vars
  <2>1. Quiet
    BY <1>5 DEF Quiet, RegistryInvariant, TypeOK, vars, radio, bounds
  <2> QED
    BY <2>1, QuietStep
<1> QED
  BY <1>1, <1>2, <1>3, <1>4, <1>5 DEF Next, World

(* The state keeps its type, whatever power, buttons and air do.           *)
THEOREM RegistryTyped == Spec => []TypeOK
<1>1. RegistryInvariant => TypeOK
  BY DEF RegistryInvariant
<1> QED
  BY <1>1, InitRegistry, NextRegistry, PTL DEF Spec

(* The master counts on no padawan that has forgotten it.                  *)
THEOREM RegistrationKept == Spec => []RegistrationIsKept
<1>1. RegistryInvariant => RegistrationIsKept
  BY DEF RegistryInvariant, RegistrationIsKept, CountedOn, Remembers, Acks
<1> QED
  BY <1>1, InitRegistry, NextRegistry, PTL DEF Spec

(* Between two handlers the list is what the next restart will load, and   *)
(* the driver reaches all of it.                                           *)
THEOREM ListSurvivesRestart == Spec => []StoredAsListed
<1>1. RegistryInvariant => StoredAsListed
  <2> SUFFICES ASSUME RegistryInvariant, NEW n \in on
               PROVE  /\ todo[n] = <<>> /\ AtMostOne(Gaps(flash[n])) => list[n] = Stored(flash[n])
                      /\ Listed(list[n]) \subseteq driver[n]
    BY DEF StoredAsListed
  <2>1. n \in Nodes /\ NodeOK(n)
    BY DEF RegistryInvariant, TypeOK
  <2>2. Local(flash[n], list[n], Stage(todo[n])) /\ Listed(list[n]) \subseteq driver[n]
    BY <2>1 DEF NodeOK
  <2>3. todo[n] = <<>> => Stage(todo[n]) = "none"
    BY DEF Stage
  <2> QED
    BY <2>2, <2>3, ListIsStored
<1> QED
  BY <1>1, InitRegistry, NextRegistry, PTL DEF Spec
=============================================================================
