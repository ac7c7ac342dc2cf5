-------------------------- MODULE AudioBufferProofs --------------------------
(***************************************************************************)
(* Through one flat memory AudioBuffer keeps its channels apart, whatever  *)
(* alignment, lengths, offsets and inputs it works with: its memory is     *)
(* divided among the channels without a rest, a call changes the samples   *)
(* it is about and no other, and what put() delivers is what is valid.     *)
(***************************************************************************)
EXTENDS AudioBuffer, FiniteSetTheorems, TLAPS

(***************************************************************************)
(* Addresses: sample i of channel c is at c * s + i, where every channel   *)
(* has s samples.                                                          *)
(***************************************************************************)
LEMMA Products ==
    ASSUME NEW a \in Nat, NEW s \in Nat
    PROVE  a * s \in Nat /\ (a * s = 0 <=> a = 0 \/ s = 0)
OBVIOUS

LEMMA ProductsGrow ==
    ASSUME NEW a \in Nat, NEW b \in Nat, NEW s \in Nat, a < b
    PROVE  a * s + s <= b * s
<1>1. (b - a - 1) \in Nat /\ (b - a - 1) * s >= 0
  <2>1. b - a - 1 \in Nat
    OBVIOUS
  <2> DEFINE e == b - a - 1
  <2>2. e \in Nat
    BY <2>1
  <2> HIDE DEF e
  <2>3. e * s >= 0
    BY <2>2
  <2> QED BY <2>1, <2>3 DEF e
<1>2. (b - a - 1) * s = b * s - a * s - s
  OBVIOUS
<1>3. a * s \in Nat /\ b * s \in Nat
  BY Products
<1> QED BY <1>1, <1>2, <1>3

\* A sample of a channel is inside the memory.
LEMMA Address ==
    ASSUME NEW chans \in Nat, NEW s \in Nat, NEW c \in 0 .. chans - 1, NEW i \in 0 .. s - 1
    PROVE  /\ c * s + i \in 0 .. chans * s - 1 /\ c * s \in Nat /\ c \in Nat /\ i \in Nat
           /\ 0 < s /\ 0 < chans
<1>1. c \in Nat /\ c < chans
  OBVIOUS
<1>2. c * s + s <= chans * s /\ c * s \in Nat /\ chans * s \in Nat
  BY <1>1, ProductsGrow, Products
<1> QED BY <1>1, <1>2

\* No two samples are at one address.
LEMMA AddressIsOne ==
    ASSUME NEW s \in Nat, NEW c \in Nat, NEW d \in Nat, NEW i \in 0 .. s - 1, NEW j \in 0 .. s - 1,
           c * s + i = d * s + j
    PROVE  c = d /\ i = j
<1>1. c * s \in Nat /\ d * s \in Nat /\ i \in Nat /\ j \in Nat /\ i < s /\ j < s
  BY Products
<1>2. ~(c < d)
  <2> SUFFICES ASSUME c < d PROVE FALSE
    OBVIOUS
  <2>1. c * s + s <= d * s
    BY ProductsGrow
  <2> QED BY <1>1, <2>1
<1>3. ~(d < c)
  <2> SUFFICES ASSUME d < c PROVE FALSE
    OBVIOUS
  <2>1. d * s + s <= c * s
    BY ProductsGrow
  <2> QED BY <1>1, <2>1
<1>4. c = d
  BY <1>2, <1>3
<1> QED BY <1>1, <1>4

\* Quotient and remainder of a positive number.
LEMMA Parts ==
    ASSUME NEW k \in Nat, NEW s \in Nat, 0 < s
    PROVE  /\ k \div s \in Nat /\ k % s \in 0 .. s - 1 
           /\ k = (k \div s) * s + (k % s)
<1>1. k \div s \in Nat /\ k % s \in 0 .. s - 1 /\ k = s * (k \div s) + (k % s)
  OBVIOUS
<1> DEFINE q == k \div s
<1>2. q \in Nat /\ k = s * q + (k % s)
  BY <1>1
<1> HIDE DEF q
<1>3. s * q = q * s
  BY <1>2
<1> QED BY <1>1, <1>2, <1>3 DEF q

\* Every place of the memory is that of a sample.
LEMMA AddressOf ==
    ASSUME NEW chans \in Nat, NEW s \in Nat, NEW k \in 0 .. chans * s - 1
    PROVE  /\ 0 < s /\ k \in Nat
           /\ k \div s \in 0 .. chans - 1 /\ k % s \in 0 .. s - 1 
           /\ k = (k \div s) * s + (k % s)
<1>1. chans * s \in Nat /\ k \in Nat /\ k < chans * s
  BY Products
<1>2. 0 < s
  BY <1>1, Products
<1> DEFINE q == k \div s
           r == k % s
<1>3. q \in Nat /\ r \in 0 .. s - 1 /\ k = q * s + r
  BY <1>1, <1>2, Parts
<1> HIDE DEF q, r
<1>4. q < chans
  <2> SUFFICES ASSUME chans <= q PROVE FALSE
    BY <1>3
  <2>1. q * s \in Nat
    BY <1>3, Products
  <2>2. chans * s <= q * s
    <3>1. CASE chans = q
      BY <3>1
    <3>2. CASE chans < q
      <4>1. chans * s + s <= q * s
        BY <1>3, <3>2, ProductsGrow
      <4> QED BY <1>1, <2>1, <4>1
    <3> QED BY <1>3, <3>1, <3>2
  <2> QED BY <1>1, <1>3, <2>1, <2>2
<1> QED BY <1>1, <1>2, <1>3, <1>4 DEF q, r

LEMMA Quotient ==
    ASSUME NEW chans \in Nat, NEW s \in Nat, 0 < chans
    PROVE  (chans * s) \div chans = s
<1> DEFINE k == chans * s
<1>1. k \in Nat /\ k = s * chans
  BY Products
<1> DEFINE q == k \div chans
           r == k % chans
<1> HIDE DEF k
<1>2. q \in Nat /\ r \in 0 .. chans - 1 /\ k = q * chans + r
  BY <1>1, Parts
<1>3. 0 \in 0 .. chans - 1 /\ s * chans + 0 = q * chans + r
  <2>1. s * chans \in Nat
    BY Products
  <2> QED BY <1>1, <1>2, <2>1
<1> HIDE DEF q, r
<1>4. s = q
  BY <1>2, <1>3, AddressIsOne
<1> QED BY <1>4 DEF q, k

LEMMA Counting ==
    ASSUME NEW n \in Nat
    PROVE  Cardinality(0 .. n - 1) = n
<1>1. 0 \in Int /\ n - 1 \in Int
  OBVIOUS
<1>2. Cardinality(0 .. n - 1) = IF 0 > n - 1 THEN 0 ELSE (n - 1) - 0 + 1
  BY <1>1, FS_Interval
<1> QED BY <1>2

\* How many samples a channel has.
SizeOf(data, chans) == 
    IF Cardinality(DOMAIN data) = 0 THEN 0 ELSE Cardinality(DOMAIN data) \div chans

\* A memory of chans channels of s samples each has that size.
LEMMA SizeOfIs ==
    ASSUME NEW chans \in Nat, NEW s \in Nat, NEW data, DOMAIN data = 0 .. chans * s - 1
    PROVE  /\ Cardinality(DOMAIN data) = chans * s /\ chans * s \in Nat
           /\ SizeOf(data, chans) = IF chans = 0 THEN 0 ELSE s
<1>1. chans * s \in Nat /\ (chans * s = 0 <=> chans = 0 \/ s = 0)
  BY Products
<1>2. Cardinality(DOMAIN data) = chans * s
  BY <1>1, Counting
<1>3. 0 < chans => (chans * s) \div chans = s
  BY Quotient
<1> QED BY <1>1, <1>2, <1>3 DEF SizeOf

-----------------------------------------------------------------------------
(***************************************************************************)
(* The memory as its type says it is, before and after a call.             *)
(***************************************************************************)
LEMMA AudioFields ==
    ASSUME AudioTypeOK
    PROVE  /\ size \in Nat /\ mChannels \in Nat /\ mChannels \in 0 .. MaxChannels
           /\ mValidSize \in Nat /\ access \in {"own", "lent", "const"}
           /\ Cells = mChannels * size /\ Cells \in Nat /\ Cells <= MaxCells
           /\ DOMAIN mBuffer = 0 .. mChannels * size - 1
           /\ mBuffer \in [0 .. mChannels * size - 1 -> Samples]
           /\ mChannels = 0 => size = 0
           /\ size > 0 \/ (mChannels > 0 /\ ~ResizesFail) => mValidSize <= size
           /\ access = "own" => size % Align = 0
           /\ Align \in Nat \ {0} /\ MaxChannels \in Nat \ {0} /\ MaxCells \in Nat
           /\ 0 \in Samples /\ SampleMod \in Nat \ {0}
<1>1. /\ {Align, SampleMod, MaxChannels} \subseteq Nat \ {0} /\ MaxCells \in Nat
  BY AudioBufferAssumption
<1>2. mChannels \in Nat /\ size \in Nat /\ Cells \in Nat /\ Cells = mChannels * size
  BY <1>1 DEF AudioTypeOK
<1>3. mChannels = 0 => Cells = 0
  BY <1>2, Products
<1>4. mChannels = 0 => size = 0
  BY <1>3 DEF size
<1>5. 0 \in Samples
  BY <1>1 DEF Samples
<1> QED BY <1>1, <1>2, <1>4, <1>5 DEF AudioTypeOK, Flat, Sound

\* What is needed of the memory of chans channels of s samples each.
LEMMA Typed ==
    ASSUME NEW chans \in 0 .. MaxChannels, NEW s \in Nat, chans * s <= MaxCells,
           mBuffer' \in [0 .. chans * s - 1 -> Samples], mChannels' = chans,
           mValidSize' \in Nat, access' \in {"own", "lent", "const"},
           0 < chans /\ (0 < s \/ ~ResizesFail) => mValidSize' <= s,
           access' = "own" => s % Align = 0
    PROVE  /\ AudioTypeOK' /\ size' = IF chans = 0 THEN 0 ELSE s
           /\ planes' = [c \in 0 .. chans - 1 |-> [i \in 0 .. s - 1 |-> mBuffer'[c * s + i]]]
<1>1. /\ Align \in Nat \ {0} /\ MaxChannels \in Nat /\ MaxCells \in Nat /\ chans \in Nat
  BY AudioBufferAssumption
<1>2. DOMAIN mBuffer' = 0 .. chans * s - 1
  OBVIOUS
<1> DEFINE m == mBuffer'
<1>3. /\ Cardinality(DOMAIN m) = chans * s /\ chans * s \in Nat
      /\ SizeOf(m, chans) = IF chans = 0 THEN 0 ELSE s
  <2> HIDE DEF m
  <2> QED BY <1>1, <1>2, SizeOfIs DEF m
<1>4. Cells' = chans * s /\ size' = IF chans = 0 THEN 0 ELSE s
  BY <1>3 DEF Cells, size, SizeOf
<1>5. chans * s = chans * size'
  <2>1. CASE chans = 0
    BY <1>4, <2>1
  <2>2. CASE chans # 0
    BY <1>4, <2>2
  <2> QED BY <2>1, <2>2
<1>6. 0 % Align = 0
  BY <1>1
<1>7. AudioTypeOK'
  BY <1>1, <1>3, <1>4, <1>5, <1>6 DEF AudioTypeOK, Flat, Sound
<1>8. planes' = [c \in 0 .. chans - 1 |-> [i \in 0 .. s - 1 |-> mBuffer'[c * s + i]]]
  <2>1. CASE chans = 0
    <3>1. 0 .. chans - 1 = {}
      BY <2>1
    <3> QED BY <3>1 DEF planes
  <2>2. CASE chans # 0
    BY <1>4, <2>2 DEF planes, get
  <2> QED BY <2>1, <2>2
<1> QED BY <1>4, <1>7, <1>8
-----------------------------------------------------------------------------
(***************************************************************************)
(* Stores: v has for each of the channels stored to, a set chans, the      *)
(* samples that are stored, from an offset on.  What Stored says of every  *)
(* cell is that it belongs to one of them, or to none.                     *)
(***************************************************************************)
Into(k, chans, offset, length) == {c \in chans : k - get(c) - offset \in 0 .. length - 1}

Last(into) == CHOOSE c \in into : \A d \in into : d <= c

StoredBy(chans, offset, length, v) ==
    [k \in DOMAIN mBuffer |->
        IF Into(k, chans, offset, length) = {} THEN mBuffer[k]
        ELSE v[Last(Into(k, chans, offset, length))]
              [k - get(Last(Into(k, chans, offset, length))) - offset]]

\* The same channel by channel.
Shows(d, chans, offset, length, v) ==
    /\ DOMAIN d = DOMAIN mBuffer /\ d = [k \in DOMAIN d |-> d[k]]
    /\ \A c \in 0 .. mChannels - 1 : \A i \in 0 .. size - 1 :
          d[get(c) + i] = IF c \in chans /\ i - offset \in 0 .. length - 1
                          THEN v[c][i - offset] ELSE mBuffer[get(c) + i]

\* Stores are within the channels they are for.
Within(chans, offset, length) ==
    /\ chans \subseteq 0 .. mChannels - 1 /\ offset \in Nat /\ length \in Int
    /\ offset + length <= size

\* A cell belongs to one channel, so that stores to it are to that channel.
LEMMA IntoIsOne ==
    ASSUME AudioTypeOK, NEW chans, NEW offset, NEW length, Within(chans, offset, length),
           NEW c \in 0 .. mChannels - 1, NEW i \in 0 .. size - 1
    PROVE  LET into == Into(get(c) + i, chans, offset, length) IN
           IF c \in chans /\ i - offset \in 0 .. length - 1 
           THEN into # {} /\ Last(into) = c
           ELSE into = {}
<1> DEFINE k == get(c) + i
           into == Into(k, chans, offset, length)
<1>1. size \in Nat /\ mChannels \in Nat /\ c \in Nat /\ i \in Nat
  BY AudioFields
<1>2. ASSUME NEW d \in chans, k - get(d) - offset \in 0 .. length - 1
      PROVE  d = c /\ i - offset \in 0 .. length - 1
  <2> DEFINE j == k - get(d) - offset
  <2>1. d \in Nat /\ offset \in Nat /\ length \in Int /\ offset + length <= size
    BY <1>1, <1>2 DEF Within
  <2>2. d * size \in Nat /\ c * size \in Nat
    BY <1>1, <2>1, Products
  <2>3. j \in 0 .. length - 1
    BY <1>2
  <2>4. c * size + i = d * size + (offset + j)
    BY <1>1, <2>1, <2>2 DEF get
  <2> HIDE DEF j
  <2>5. offset + j \in 0 .. size - 1
    BY <1>1, <2>1, <2>3
  <2>6. c = d /\ i = offset + j
    BY <1>1, <2>1, <2>4, <2>5, AddressIsOne
  <2> QED BY <1>1, <2>1, <2>3, <2>6
<1>3. ASSUME c \in chans, i - offset \in 0 .. length - 1
      PROVE  k - get(c) - offset \in 0 .. length - 1
  <2>1. c * size \in Nat
    BY <1>1, Products
  <2>2. k - get(c) - offset = i - offset
    BY <1>1, <2>1 DEF get, Within
  <2> QED BY <1>3, <2>2
<1> HIDE DEF k
<1>4. CASE c \in chans /\ i - offset \in 0 .. length - 1
  <2>1. into = {c}
    BY <1>2, <1>3, <1>4 DEF Into
  <2> HIDE DEF into
  <2>2. Last(into) = c
    <3>1. c <= c
      BY <1>1
    <3> QED BY <2>1, <3>1 DEF Last
  <2>3. into # {} /\ Last(into) = c
    BY <2>1, <2>2
  <2> QED BY <1>4, <2>3 DEF k, into
<1>5. CASE ~(c \in chans /\ i - offset \in 0 .. length - 1)
  <2>1. into = {}
    BY <1>2, <1>5 DEF Into
  <2> QED BY <1>5, <2>1 DEF k
<1> QED BY <1>4, <1>5

\* Stores to the memory are stores to the channels.
LEMMA StoredShows ==
    ASSUME AudioTypeOK, NEW chans, NEW offset, NEW length, Within(chans, offset, length), NEW v
    PROVE  Shows(StoredBy(chans, offset, length, v), chans, offset, length, v)
<1> DEFINE d == StoredBy(chans, offset, length, v)
<1>1. DOMAIN d = DOMAIN mBuffer /\ d = [k \in DOMAIN d |-> d[k]]
  BY DEF StoredBy
<1>2. ASSUME NEW c \in 0 .. mChannels - 1, NEW i \in 0 .. size - 1
      PROVE  d[get(c) + i] = IF c \in chans /\ i - offset \in 0 .. length - 1
                             THEN v[c][i - offset] ELSE mBuffer[get(c) + i]
  <2> DEFINE k == get(c) + i
             into == Into(k, chans, offset, length)
  <2>1. size \in Nat /\ mChannels \in Nat /\ DOMAIN mBuffer = 0 .. mChannels * size - 1
    BY AudioFields
  <2>2. k \in DOMAIN mBuffer /\ get(c) \in Nat /\ i \in Nat
    BY <2>1, Address DEF get
  <2>3. k - get(c) - offset = i - offset
    BY <2>2 DEF Within
  <2>4. d[k] = IF into = {} THEN mBuffer[k] ELSE v[Last(into)][k - get(Last(into)) - offset]
    BY <2>2 DEF StoredBy
  <2>5. IF c \in chans /\ i - offset \in 0 .. length - 1 THEN into # {} /\ Last(into) = c
        ELSE into = {}
    BY IntoIsOne
  <2> HIDE DEF into, d
  <2>6. CASE c \in chans /\ i - offset \in 0 .. length - 1
    <3>1. d[k] = v[c][k - get(c) - offset]
      BY <2>4, <2>5, <2>6
    <3> QED BY <2>3, <2>6, <3>1
  <2>7. CASE ~(c \in chans /\ i - offset \in 0 .. length - 1)
    BY <2>4, <2>5, <2>7
  <2> QED BY <2>6, <2>7
<1> HIDE DEF d
<1> QED BY <1>1, <1>2 DEF Shows, d

\* What a store leaves, if what is stored are samples.
LEMMA ShowsKeeps ==
    ASSUME AudioTypeOK, NEW chans, NEW offset, NEW length, Within(chans, offset, length), NEW v,
           Shows(mBuffer', chans, offset, length, v),
           \A c \in chans : \A i \in 0 .. length - 1 : v[c][i] \in Samples,
           mChannels' = mChannels, access' = access, mValidSize' \in Nat,
           mValidSize' = mValidSize \/ mValidSize' <= size
    PROVE  /\ AudioTypeOK' /\ size' = size
           /\ planes' = [c \in 0 .. mChannels - 1 |-> [i \in 0 .. size - 1 |->
                           IF c \in chans /\ i - offset \in 0 .. length - 1
                           THEN v[c][i - offset] ELSE planes[c][i]]]
<1>1. /\ size \in Nat /\ mChannels \in Nat /\ mChannels \in 0 .. MaxChannels
      /\ mBuffer \in [0 .. mChannels * size - 1 -> Samples]
      /\ DOMAIN mBuffer = 0 .. mChannels * size - 1
      /\ mChannels * size <= MaxCells /\ access \in {"own", "lent", "const"}
      /\ access = "own" => size % Align = 0
      /\ size > 0 \/ (mChannels > 0 /\ ~ResizesFail) => mValidSize <= size
      /\ mChannels = 0 => size = 0
  BY AudioFields
<1>2. ASSUME NEW k \in 0 .. mChannels * size - 1 PROVE mBuffer'[k] \in Samples
  <2> DEFINE c == k \div size
             i == k % size
  <2>1. c \in 0 .. mChannels - 1 /\ i \in 0 .. size - 1 /\ k = get(c) + i
    BY <1>1, AddressOf DEF get
  <2> HIDE DEF c, i
  <2>2. mBuffer[k] \in Samples
    BY <1>1
  <2> QED BY <2>1, <2>2 DEF Shows
<1>3. mBuffer' \in [0 .. mChannels * size - 1 -> Samples]
  BY <1>1, <1>2 DEF Shows
<1>4. 0 < mChannels /\ (0 < size \/ ~ResizesFail) => mValidSize' <= size
  BY <1>1
<1>5. /\ AudioTypeOK' /\ size' = IF mChannels = 0 THEN 0 ELSE size
      /\ planes' = [c \in 0 .. mChannels - 1 |-> [i \in 0 .. size - 1 |-> mBuffer'[c * size + i]]]
  BY <1>1, <1>3, <1>4, Typed
<1>6. \A c \in 0 .. mChannels - 1 : \A i \in 0 .. size - 1 :
         mBuffer'[c * size + i] = IF c \in chans /\ i - offset \in 0 .. length - 1
                                  THEN v[c][i - offset] ELSE planes[c][i]
  BY DEF Shows, planes, get
<1> QED BY <1>1, <1>5, <1>6

-----------------------------------------------------------------------------
\* The last of the channels a cell belongs to is one of those stored to.
LEMMA LastIsIn ==
    ASSUME AudioTypeOK, NEW chans, NEW offset, NEW length, Within(chans, offset, length),
           NEW k \in DOMAIN mBuffer, NEW into, into = Into(k, chans, offset, length), into # {}
    PROVE  /\ Last(into) \in chans /\ Last(into) \in 0 .. mChannels - 1
           /\ k - get(Last(into)) - offset \in 0 .. length - 1
           /\ get(Last(into)) + offset + (k - get(Last(into)) - offset) = k
<1> DEFINE c == k \div size
           i == k % size
<1>1. /\ size \in Nat /\ mChannels \in Nat /\ DOMAIN mBuffer = 0 .. mChannels * size - 1
  BY AudioFields
<1>2. c \in 0 .. mChannels - 1 /\ i \in 0 .. size - 1 /\ k = get(c) + i /\ k \in Nat
  BY <1>1, AddressOf DEF get
<1> HIDE DEF c, i
<1>3. IF c \in chans /\ i - offset \in 0 .. length - 1 THEN into # {} /\ Last(into) = c
      ELSE into = {}
  BY <1>2, IntoIsOne
<1>4. c \in chans /\ i - offset \in 0 .. length - 1 /\ Last(into) = c
  BY <1>3
<1>5. get(c) \in Nat
  BY <1>1, <1>2, Products DEF get
<1>6. offset \in Nat
  BY DEF Within
<1> QED BY <1>2, <1>4, <1>5, <1>6

\* What is stored, the channels after that, and that it is what part has.
Holds(v, chans, length) == \A c \in chans : \A i \in 0 .. length - 1 : v[c][i] \in Samples

Over(chans, offset, length, v) ==
    [c \in 0 .. mChannels - 1 |-> [i \in 0 .. size - 1 |->
        IF c \in chans /\ i - offset \in 0 .. length - 1 THEN v[c][i - offset] ELSE planes[c][i]]]

Covers(chans, offset, length, v, part) ==
    \A c \in 0 .. mChannels - 1 : \A i \in 0 .. size - 1 :
        /\ c \in chans /\ i - offset \in 0 .. length - 1
           <=> c \in DOMAIN part /\ i - offset \in DOMAIN part[c]
        /\ c \in chans /\ i - offset \in 0 .. length - 1
           => v[c][i - offset] = part[c][i - offset]

\* What a store leaves.
LEMMA StoreKeeps ==
    ASSUME AudioTypeOK, NEW chans, NEW offset, NEW length, Within(chans, offset, length), NEW v,
           mBuffer' = StoredBy(chans, offset, length, v),
           Holds(v, chans, length),
           mChannels' = mChannels, access' = access, mValidSize' \in Nat,
           mValidSize' = mValidSize \/ mValidSize' <= size
    PROVE  /\ AudioTypeOK' /\ size' = size
           /\ planes' = Over(chans, offset, length, v)
<1>1. Shows(mBuffer', chans, offset, length, v)
  BY StoredShows
<1> QED BY <1>1, ShowsKeeps DEF Holds, Over

\* To store v, where v covers what part has, is to record part.
LEMMA StoreRecords ==
    ASSUME AudioTypeOK, NEW chans, NEW offset, NEW length, NEW v, NEW part,
           planes' = Over(chans, offset, length, v), Covers(chans, offset, length, v, part)
    PROVE  planes' = P!With(planes, part, offset, P!New)
<1>1. DOMAIN planes = 0 .. mChannels - 1 
  BY DEF planes
<1>2. \A c \in 0 .. mChannels - 1 : DOMAIN planes[c] = 0 .. size - 1
  BY DEF planes
<1>3. P!With(planes, part, offset, P!New)
        = [c \in 0 .. mChannels - 1 |-> [i \in 0 .. size - 1 |->
             IF c \in DOMAIN part /\ i - offset \in DOMAIN part[c]
             THEN part[c][i - offset] ELSE planes[c][i]]]
  BY <1>1, <1>2, Zenon DEF P!With, P!New
<1> QED BY <1>3 DEF Over, Covers

\* Samples that come in are samples.
LEMMA Incomings ==
    ASSUME NEW scaled \in BOOLEAN, NEW s \in Samples
    PROVE  Incoming(scaled, s) \in Samples
BY AudioBufferAssumption DEF Incoming

\* What there is room for is no more than is asked for, and stays inside.
LEMMA RoomIs ==
    ASSUME AudioTypeOK, NEW length \in Nat, NEW offset \in Nat, offset <= size
    PROVE  /\ Room(length, offset) \in Nat /\ offset + Room(length, offset) <= size
           /\ offset + Room(length, offset) = P!Least(offset + length, size)
           /\ \A i \in 0 .. size - 1 : i - offset \in 0 .. Room(length, offset) - 1
                                       <=> i - offset \in 0 .. length - 1
           /\ \A i \in 0 .. Room(length, offset) - 1 : i \in 0 .. length - 1
<1>1. size \in Nat
  BY AudioFields
<1> QED BY <1>1 DEF Room, Lesser, P!Least
-----------------------------------------------------------------------------
\* set() to a value records it in every channel.
LEMMA SetLevelImplements ==
    ASSUME AudioTypeOK, NEW level \in Levels, NEW length \in Lengths, NEW offset \in Offsets,
           SetLevel(level, length, offset)
    PROVE  AudioTypeOK' /\ P!PlanesCall
<1> DEFINE long == IF length = 0 THEN size ELSE length
           n == Room(long, offset)
           v == [c \in 0 .. mChannels - 1 |-> [i \in 0 .. n - 1 |-> level]]
           part == [c \in P!Channels |-> [i \in 0 .. long - 1 |-> level]]
<1>1. /\ level \in Samples /\ length \in Nat /\ offset \in Nat /\ size \in Nat /\ offset <= size
      /\ long \in Nat /\ long \in Lengths \cup {size} /\ mValidSize \in Nat /\ mChannels \in Nat
  BY AudioBufferAssumption, AudioFields DEF SetLevel
<1>2. mChannels' = mChannels /\ access' = access /\ mValidSize' = mValidSize
  BY DEF SetLevel
<1> HIDE DEF long
<1>3. /\ n \in Nat /\ offset + n <= size
      /\ \A i \in 0 .. size - 1 : i - offset \in 0 .. n - 1 <=> i - offset \in 0 .. long - 1
  BY <1>1, RoomIs
<1>4. Within(0 .. mChannels - 1, offset, n)
  BY <1>1, <1>3 DEF Within
<1>5. mBuffer' = StoredBy(0 .. mChannels - 1, offset, n, v)
  <2>1. ASSUME NEW k \in DOMAIN mBuffer, NEW into, into = Into(k, 0 .. mChannels - 1, offset, n),
               into # {}
        PROVE  v[Last(into)][k - get(Last(into)) - offset] = level
    <3>1. Last(into) \in 0 .. mChannels - 1
      BY <1>4, <2>1, LastIsIn
    <3>2. k - get(Last(into)) - offset \in 0 .. n - 1
      BY <1>4, <2>1, LastIsIn
    <3> QED BY <3>1, <3>2
  <2> QED BY <2>1, Zenon DEF SetLevel, long, Stored, StoredBy, Into, Last
<1> HIDE DEF n
<1>6. Holds(v, 0 .. mChannels - 1, n)
  BY <1>1 DEF Holds
<1>7. DOMAIN part = 0 .. mChannels - 1 /\ \A c \in DOMAIN part : DOMAIN part[c] = 0 .. long - 1
  BY DEF P!Channels, planes
<1>8. \A c \in DOMAIN part : \A i \in 0 .. long - 1 : part[c][i] = level
  OBVIOUS
<1>9. \A c \in 0 .. mChannels - 1 : \A i \in 0 .. n - 1 : v[c][i] = level
  OBVIOUS
<1> HIDE DEF v
<1>10. /\ AudioTypeOK' /\ size' = size
       /\ planes' = Over(0 .. mChannels - 1, offset, n, v)
  BY <1>1, <1>2, <1>4, <1>5, <1>6, StoreKeeps
<1>11. planes' = P!With(planes, part, offset, P!New)
  <2> HIDE DEF part
  <2>1. Covers(0 .. mChannels - 1, offset, n, v, part)
    BY <1>3, <1>7, <1>8, <1>9 DEF Covers
  <2> QED BY <1>10, <2>1, StoreRecords
<1>12. P!Level(level, offset, long)
  BY <1>2, <1>10, <1>11 DEF P!Level
<1> QED BY <1>1, <1>10, <1>12 DEF P!PlanesCall

-----------------------------------------------------------------------------
\* What calls are made with.
LEMMA Given ==
    /\ Lengths \subseteq Nat /\ Offsets \subseteq Nat /\ Levels \subseteq Samples
    /\ MaxChannels \in Nat /\ 0 < MaxChannels /\ MaxCells \in Nat
    /\ Align \in Nat /\ 0 < Align /\ SampleMod \in Nat /\ 0 < SampleMod
BY AudioBufferAssumption

LEMMA LineIs ==
    ASSUME NEW line \in Lines
    PROVE  line.scaled \in BOOLEAN /\ \A i \in DOMAIN line.data : line.data[i] \in Samples
<1>1. line.scaled \in BOOLEAN /\ line.data \in Flat(Cardinality(DOMAIN line.data))
  BY AudioBufferAssumption
<1>2. \A i \in DOMAIN line.data : line.data[i] \in Samples
  BY <1>1 DEF Flat
<1> QED BY <1>1, <1>2

LEMMA SheetIs ==
    ASSUME NEW a \in Sheets
    PROVE  a.scaled \in BOOLEAN /\ a.channels \in Nat /\ a.size \in Nat
BY AudioBufferAssumption

LEMMA OtherIs ==
    ASSUME NEW b \in Others
    PROVE  /\ b.channels \in Nat /\ b.channels \in 0 .. MaxChannels
           /\ b.size \in Nat /\ b.valid \in Nat /\ b.valid <= b.size
           /\ b.channels = 0 => b.size = 0
           /\ b.data \in [0 .. b.channels * b.size - 1 -> Samples]
<1>1. {b.channels, b.size} \subseteq Nat /\ b.data \in Flat(b.channels * b.size)
  BY AudioBufferAssumption
<1>2. /\ b.valid \in 0 .. b.size /\ b.channels <= MaxChannels
      /\ b.channels = 0 => b.size = 0
  BY AudioBufferAssumption
<1> QED BY <1>1, <1>2, Given DEF Flat

\* What comes in is samples.
LEMMA AtIs ==
    ASSUME NEW a \in Sheets \cup Others, NEW c \in 0 .. a.channels - 1, NEW i \in 0 .. a.size - 1
    PROVE  At(a, c, i) \in Samples
<1>1. a.channels \in Nat /\ a.size \in Nat /\ a.data \in [0 .. a.channels * a.size - 1 -> Samples]
  BY AudioBufferAssumption DEF Flat
<1>2. c * a.size + i \in 0 .. a.channels * a.size - 1
  BY <1>1, Address
<1> QED BY <1>1, <1>2 DEF At

\* The channels of a part.
LEMMA PartIs ==
    ASSUME NEW a, NEW scaled, NEW chans, NEW first, NEW n
    PROVE  /\ DOMAIN Part(a, scaled, chans, first, n) = 0 .. chans - 1
           /\ \A c \in 0 .. chans - 1 :
                 /\ DOMAIN Part(a, scaled, chans, first, n)[c] = 0 .. n - 1
                 /\ \A i \in 0 .. n - 1 : Part(a, scaled, chans, first, n)[c][i]
                                            = Incoming(scaled, At(a, c, first + i))
BY DEF Part

\* set() from an array records it in one channel, or in none if there is no such
\* channel.
LEMMA SetLineImplements ==
    ASSUME AudioTypeOK, NEW line \in Lines, NEW length \in Lengths, NEW ch \in 0 .. MaxChannels,
           NEW offset \in Offsets, SetLine(line, length, ch, offset)
    PROVE  AudioTypeOK' /\ P!PlanesCall
<1> DEFINE n == Room(length, offset)
           v == [c \in {ch} |-> [i \in 0 .. n - 1 |-> Incoming(line.scaled, line.data[i])]]
           part == [d \in {ch} |-> [i \in 0 .. length - 1 |-> Incoming(line.scaled, line.data[i])]]
<1>0. offset <= size /\ 0 .. length - 1 \subseteq DOMAIN line.data
  BY Zenon DEF SetLine
<1>1. /\ length \in Nat /\ offset \in Nat /\ size \in Nat /\ offset <= size
      /\ mValidSize \in Nat /\ mChannels \in Nat /\ ch \in Nat
      /\ 0 .. length - 1 \subseteq DOMAIN line.data /\ line.scaled \in BOOLEAN
      /\ \A i \in DOMAIN line.data : line.data[i] \in Samples
  BY <1>0, Given, LineIs, AudioFields
<1>2. mChannels' = mChannels /\ access' = access /\ mValidSize' = mValidSize
  BY DEF SetLine
<1>3. /\ n \in Nat /\ offset + n <= size
      /\ \A i \in 0 .. size - 1 : i - offset \in 0 .. n - 1 <=> i - offset \in 0 .. length - 1
      /\ \A i \in 0 .. n - 1 : i \in 0 .. length - 1
  BY <1>1, RoomIs
<1> DEFINE x == <<ch, line, length>>
<1>4. part \in LineParts
  <2>1. x \in {y \in (0 .. MaxChannels) \X Lines \X Lengths : 0 .. y[3] - 1 \subseteq DOMAIN y[2].data}
    BY <1>1
  <2>2. part = [d \in {x[1]} |-> [i \in 0 .. x[3] - 1 |-> Incoming(x[2].scaled, x[2].data[i])]]
    OBVIOUS
  <2> HIDE DEF x, part
  <2> QED BY <2>1, <2>2 DEF LineParts
<1>5. DOMAIN part = {ch} /\ DOMAIN part[ch] = 0 .. length - 1
  OBVIOUS
<1>6. \A i \in 0 .. length - 1 : part[ch][i] = Incoming(line.scaled, line.data[i])
  OBVIOUS
<1> HIDE DEF x, part
<1>7. /\ AudioTypeOK' /\ size' = size
      /\ planes' = P!With(planes, part, offset, P!New)
  <2>1. CASE mChannels <= ch
    <3>1. mBuffer' = mBuffer
      BY <2>1 DEF SetLine
    <3>2. AudioTypeOK' /\ size' = size /\ planes' = planes
      BY <1>2, <3>1 DEF AudioTypeOK, Cells, size, Sound, planes, get
    <3>3. Within({}, offset, n) /\ Holds(v, {}, n)
      BY <1>1, <1>3 DEF Within, Holds
    <3>4. planes = Over({}, offset, n, v)
      BY DEF Over, planes
    <3>5. Covers({}, offset, n, v, part)
      BY <1>1, <1>5, <2>1 DEF Covers
    <3> HIDE DEF v, n
    <3> QED BY <3>2, <3>4, <3>5, StoreRecords
  <2>2. CASE ch < mChannels
    <3>1. Within({ch}, offset, n)
      BY <1>1, <1>3, <2>2 DEF Within
    <3>2. mBuffer' = StoredBy({ch}, offset, n, v)
      <4>1. ASSUME NEW k \in DOMAIN mBuffer, NEW into, into = Into(k, {ch}, offset, n), into # {}
            PROVE  v[Last(into)][k - get(Last(into)) - offset]
                     = Incoming(line.scaled, line.data[k - get(Last(into)) - offset])
        BY <3>1, <4>1, LastIsIn
      <4>2. ~(mChannels <= ch)
        BY <1>1, <2>2
      <4> QED BY <4>1, <4>2, Zenon DEF SetLine, Stored, StoredBy, Into, Last
    <3> HIDE DEF n
    <3>3. Holds(v, {ch}, n)
      BY <1>1, <1>3, Incomings DEF Holds
    <3>4. \A i \in 0 .. n - 1 : v[ch][i] = Incoming(line.scaled, line.data[i])
      OBVIOUS
    <3> HIDE DEF v
    <3>5. Covers({ch}, offset, n, v, part)
      BY <1>3, <1>5, <1>6, <3>4 DEF Covers
    <3>6. AudioTypeOK' /\ size' = size /\ planes' = Over({ch}, offset, n, v)
      BY <1>1, <1>2, <3>1, <3>2, <3>3, StoreKeeps
    <3> QED BY <3>5, <3>6, StoreRecords
  <2> QED BY <1>1, <2>1, <2>2
<1>8. P!Record(part, offset)
  BY <1>2, <1>7 DEF P!Record
<1> QED BY <1>4, <1>7, <1>8 DEF P!PlanesCall

\* set() from a 2D array records as many of its channels as are asked for.
LEMMA SetSheetImplements ==
    ASSUME AudioTypeOK, NEW a \in Sheets, NEW length \in Lengths, NEW chan \in 0 .. MaxChannels,
           NEW first \in Offsets, NEW offset \in Offsets, SetSheet(a, length, chan, first, offset)
    PROVE  AudioTypeOK' /\ P!PlanesCall
<1> DEFINE n == Room(length, offset)
           chans == Lesser(IF chan = 0 THEN mChannels ELSE chan, mChannels)
           v == [c \in 0 .. chans - 1 |->
                   [i \in 0 .. n - 1 |-> Incoming(a.scaled, At(a, c, first + i))]]
           part == Part(a, a.scaled, chans, first, length)
<1>0. offset <= size /\ first + length <= a.size
  BY Zenon DEF SetSheet
<1>1. /\ length \in Nat /\ offset \in Nat /\ first \in Nat /\ size \in Nat /\ offset <= size
      /\ mValidSize \in Nat /\ mChannels \in 0 .. MaxChannels /\ MaxChannels \in Nat 
      /\ mChannels \in Nat /\ chan \in Nat /\ first + length <= a.size /\ a.size \in Nat
      /\ a.channels \in Nat /\ a.scaled \in BOOLEAN
  BY <1>0, Given, SheetIs, AudioFields
<1>2. /\ mChannels' = mChannels /\ access' = access /\ mValidSize' = mValidSize
      /\ chans <= a.channels
  BY DEF SetSheet
<1>3. /\ n \in Nat /\ offset + n <= size
      /\ \A i \in 0 .. size - 1 : i - offset \in 0 .. n - 1 <=> i - offset \in 0 .. length - 1
      /\ \A i \in 0 .. n - 1 : i \in 0 .. length - 1
  BY <1>1, RoomIs
<1>4. chans \in 0 .. MaxChannels /\ chans \in Nat /\ chans <= mChannels
  BY <1>1 DEF Lesser
<1>5. part \in SheetParts
  <2> DEFINE x == <<a, chans, first, length>>
  <2> HIDE DEF chans
  <2>1. x \in {y \in Sheets \X (0 .. MaxChannels) \X Offsets \X Lengths :
                 y[2] <= y[1].channels /\ y[3] + y[4] <= y[1].size}
    BY <1>1, <1>2, <1>4
  <2>2. part = Part(x[1], x[1].scaled, x[2], x[3], x[4])
    OBVIOUS
  <2> HIDE DEF x, part
  <2> QED BY <2>1, <2>2 DEF SheetParts
<1>6. Within(0 .. chans - 1, offset, n)
  BY <1>1, <1>3, <1>4 DEF Within
<1>7. mBuffer' = StoredBy(0 .. chans - 1, offset, n, v)
  <2>1. ASSUME NEW k \in DOMAIN mBuffer, NEW into, into = Into(k, 0 .. chans - 1, offset, n),
               into # {}
        PROVE  v[Last(into)][k - get(Last(into)) - offset]
                 = Incoming(a.scaled, At(a, Last(into), first + (k - get(Last(into)) - offset)))
    <3>1. Last(into) \in 0 .. chans - 1
      BY <1>6, <2>1, LastIsIn
    <3>2. k - get(Last(into)) - offset \in 0 .. n - 1
      BY <1>6, <2>1, LastIsIn
    <3> QED BY <3>1, <3>2
  <2>2. mBuffer' = Stored(0 .. chans - 1, offset, n, LAMBDA c, i, old : Incoming(a.scaled, At(a, c, first + i)))
    BY Zenon DEF SetSheet
  <2> HIDE DEF v, n, chans
  <2> QED BY <2>1, <2>2, Zenon DEF Stored, StoredBy, Into, Last
<1> HIDE DEF n, chans
<1>8. Holds(v, 0 .. chans - 1, n)
  <2> SUFFICES ASSUME NEW c \in 0 .. chans - 1, NEW i \in 0 .. n - 1
               PROVE  Incoming(a.scaled, At(a, c, first + i)) \in Samples
    BY DEF Holds
  <2>1. c \in 0 .. a.channels - 1 /\ first + i \in 0 .. a.size - 1
    BY <1>1, <1>2, <1>3, <1>4
  <2> QED BY <1>1, <2>1, AtIs, Incomings
<1>9. \A c \in 0 .. chans - 1 : \A i \in 0 .. n - 1 :
         v[c][i] = Incoming(a.scaled, At(a, c, first + i))
  OBVIOUS
<1>10. /\ DOMAIN part = 0 .. chans - 1
       /\ \A c \in 0 .. chans - 1 : 
             /\ DOMAIN part[c] = 0 .. length - 1
             /\ \A i \in 0 .. length - 1 : part[c][i] = Incoming(a.scaled, At(a, c, first + i))
  BY PartIs
<1> HIDE DEF v, part
<1>11. Covers(0 .. chans - 1, offset, n, v, part)
  BY <1>3, <1>9, <1>10 DEF Covers
<1>12. AudioTypeOK' /\ size' = size /\ planes' = Over(0 .. chans - 1, offset, n, v)
  BY <1>1, <1>2, <1>6, <1>7, <1>8, StoreKeeps
<1>13. planes' = P!With(planes, part, offset, P!New)
  BY <1>11, <1>12, StoreRecords
<1>14. P!Record(part, offset)
  BY <1>2, <1>12, <1>13 DEF P!Record
<1> QED BY <1>5, <1>12, <1>14 DEF P!PlanesCall

-----------------------------------------------------------------------------
\* set() from another buffer records the channels both have.
LEMMA SetOtherImplements ==
    ASSUME AudioTypeOK, NEW b \in Others, NEW length \in Lengths,
           NEW first \in Offsets, NEW offset \in Offsets, SetOther(b, length, first, offset)
    PROVE  AudioTypeOK' /\ P!PlanesCall
<1> DEFINE long == IF length = 0 THEN b.valid ELSE length
           n == Room(long, offset)
           chans == Lesser(b.channels, mChannels)
           v == [c \in 0 .. chans - 1 |-> [i \in 0 .. n - 1 |-> At(b, c, first + i)]]
           part == Part(b, FALSE, b.channels, first, long)
<1>0. offset <= size /\ first + long <= b.size
  BY Zenon DEF SetOther
<1>1. /\ length \in Nat /\ offset \in Nat /\ first \in Nat /\ size \in Nat /\ offset <= size
      /\ mValidSize \in Nat /\ mChannels \in Nat /\ first + long <= b.size /\ b.size \in Nat
      /\ b.channels \in Nat /\ long \in Nat /\ long \in Lengths \cup {o.valid : o \in Others}
  BY <1>0, Given, OtherIs, AudioFields
<1>2. mChannels' = mChannels /\ access' = access /\ mValidSize' = mValidSize
  BY Zenon DEF SetOther
<1>3. /\ n \in Nat /\ offset + n <= size
      /\ \A i \in 0 .. size - 1 : i - offset \in 0 .. n - 1 <=> i - offset \in 0 .. long - 1
      /\ \A i \in 0 .. n - 1 : i \in 0 .. long - 1
  <2> HIDE DEF long
  <2> QED BY <1>1, RoomIs
<1>4. /\ chans \in Nat /\ chans <= mChannels /\ chans <= b.channels
      /\ \A c \in 0 .. mChannels - 1 : c \in 0 .. chans - 1 <=> c \in 0 .. b.channels - 1
  BY <1>1 DEF Lesser
<1>5. part \in OtherParts
  <2> DEFINE x == <<b, first, long>>
  <2> HIDE DEF long
  <2>1. x \in {y \in Others \X Offsets \X (Lengths \cup {o.valid : o \in Others}) :
                 y[2] + y[3] <= y[1].size}
    BY <1>1
  <2>2. part = Part(x[1], FALSE, x[1].channels, x[2], x[3])
    OBVIOUS
  <2> HIDE DEF x, part
  <2> QED BY <2>1, <2>2 DEF OtherParts
<1>6. Within(0 .. chans - 1, offset, n)
  BY <1>1, <1>3, <1>4 DEF Within
<1>7. mBuffer' = StoredBy(0 .. chans - 1, offset, n, v)
  <2>1. ASSUME NEW k \in DOMAIN mBuffer, NEW into, into = Into(k, 0 .. chans - 1, offset, n),
               into # {}
        PROVE  v[Last(into)][k - get(Last(into)) - offset]
                 = At(b, Last(into), first + (k - get(Last(into)) - offset))
    <3>1. Last(into) \in 0 .. chans - 1
      BY <1>6, <2>1, LastIsIn
    <3>2. k - get(Last(into)) - offset \in 0 .. n - 1
      BY <1>6, <2>1, LastIsIn
    <3> QED BY <3>1, <3>2
  <2>2. mBuffer' = Stored(0 .. chans - 1, offset, n, LAMBDA c, i, old : At(b, c, first + i))
    BY Zenon DEF SetOther
  <2> HIDE DEF v, n, chans
  <2> QED BY <2>1, <2>2, Zenon DEF Stored, StoredBy, Into, Last
<1> HIDE DEF long, n, chans
<1>8. Holds(v, 0 .. chans - 1, n)
  <2> SUFFICES ASSUME NEW c \in 0 .. chans - 1, NEW i \in 0 .. n - 1
               PROVE  At(b, c, first + i) \in Samples
    BY DEF Holds
  <2>1. c \in 0 .. b.channels - 1 /\ first + i \in 0 .. b.size - 1
    BY <1>1, <1>3, <1>4
  <2> QED BY <2>1, AtIs
<1>9. \A c \in 0 .. chans - 1 : \A i \in 0 .. n - 1 : v[c][i] = At(b, c, first + i)
  OBVIOUS
<1>10. /\ DOMAIN part = 0 .. b.channels - 1
       /\ \A c \in 0 .. b.channels - 1 : 
             /\ DOMAIN part[c] = 0 .. long - 1
             /\ \A i \in 0 .. long - 1 : part[c][i] = At(b, c, first + i)
  BY DEF Part, Incoming
<1> HIDE DEF v, part
<1>11. Covers(0 .. chans - 1, offset, n, v, part)
  BY <1>3, <1>4, <1>9, <1>10 DEF Covers
<1>12. AudioTypeOK' /\ size' = size /\ planes' = Over(0 .. chans - 1, offset, n, v)
  BY <1>1, <1>2, <1>6, <1>7, <1>8, StoreKeeps
<1>13. planes' = P!With(planes, part, offset, P!New)
  BY <1>11, <1>12, StoreRecords
<1>14. P!Record(part, offset)
  BY <1>2, <1>12, <1>13 DEF P!Record
<1> QED BY <1>5, <1>12, <1>14 DEF P!PlanesCall

\* A frame of an interleaved array is where its channels are next to each other.
LEMMA FrameIs ==
    ASSUME NEW chan \in Nat, NEW first \in Nat, NEW length \in Nat,
           NEW c \in 0 .. chan - 1, NEW i \in 0 .. length - 1
    PROVE  c + (first + i) * chan \in 0 .. (first + length) * chan - 1
<1> DEFINE m == first + i
           all == first + length
<1>1. m \in 0 .. all - 1 /\ all \in Nat /\ m \in Nat
  OBVIOUS
<1> HIDE DEF m, all
<1>2. m * chan + c \in 0 .. all * chan - 1 /\ m * chan \in Nat
  BY <1>1, Address
<1>3. c + m * chan = m * chan + c
  BY <1>2
<1> QED BY <1>2, <1>3 DEF m, all

\* setFromInterleaved() records every channel of the array, and says how much of
\* the buffer is valid.
LEMMA SetFromInterleavedImplements ==
    ASSUME AudioTypeOK, NEW line \in Lines, NEW length \in Lengths,
           NEW chan \in 1 .. MaxChannels + 1, NEW first \in Offsets, NEW offset \in Offsets,
           SetFromInterleaved(line, length, chan, first, offset)
    PROVE  AudioTypeOK' /\ P!PlanesCall
<1> DEFINE n == Room(length, offset)
           chans == Lesser(chan, mChannels)
           v == [c \in 0 .. chans - 1 |->
                   [i \in 0 .. n - 1 |-> Incoming(line.scaled, line.data[c + (first + i) * chan])]]
           part == Apart(line, chan, first, length)
<1>0. offset <= size /\ 0 .. (first + length) * chan - 1 \subseteq DOMAIN line.data
  BY Zenon DEF SetFromInterleaved
<1>1. /\ length \in Nat /\ offset \in Nat /\ first \in Nat /\ size \in Nat /\ offset <= size
      /\ mValidSize \in Nat /\ mChannels \in Nat /\ chan \in Nat
      /\ line.scaled \in BOOLEAN /\ \A i \in DOMAIN line.data : line.data[i] \in Samples
  <2>1. line.scaled \in BOOLEAN /\ \A i \in DOMAIN line.data : line.data[i] \in Samples
    BY LineIs
  <2>2. /\ length \in Nat /\ offset \in Nat /\ first \in Nat /\ size \in Nat
        /\ mValidSize \in Nat /\ mChannels \in Nat /\ chan \in Nat
    BY Given, AudioFields
  <2> QED BY <1>0, <2>1, <2>2
<1>2. mChannels' = mChannels /\ access' = access /\ mValidSize' = offset + n
  BY Zenon DEF SetFromInterleaved
<1>3. /\ n \in Nat /\ offset + n <= size /\ offset + n = P!Least(offset + length, size)
      /\ \A i \in 0 .. size - 1 : i - offset \in 0 .. n - 1 <=> i - offset \in 0 .. length - 1
      /\ \A i \in 0 .. n - 1 : i \in 0 .. length - 1
  BY <1>1, RoomIs
<1>4. /\ chans \in Nat /\ chans <= mChannels /\ chans <= chan
      /\ \A c \in 0 .. mChannels - 1 : c \in 0 .. chans - 1 <=> c \in 0 .. chan - 1
  BY <1>1 DEF Lesser
<1> DEFINE take == [part |-> part, long |-> length]
<1>5. take \in Interleavings
  <2> DEFINE x == <<line, chan, first, length>>
  <2>1. x \in {y \in Lines \X (1 .. MaxChannels + 1) \X Offsets \X Lengths :
                 0 .. (y[3] + y[4]) * y[2] - 1 \subseteq DOMAIN y[1].data}
    BY <1>0
  <2>2. take = [part |-> Apart(x[1], x[2], x[3], x[4]), long |-> x[4]]
    OBVIOUS
  <2> HIDE DEF x, take
  <2> QED BY <2>1, <2>2 DEF Interleavings
<1>6. Within(0 .. chans - 1, offset, n)
  BY <1>1, <1>3, <1>4 DEF Within
<1>7. mBuffer' = StoredBy(0 .. chans - 1, offset, n, v)
  <2> DEFINE Value(c, i) == Incoming(line.scaled, line.data[c + (first + i) * chan])
  <2>1. ASSUME NEW k \in DOMAIN mBuffer, NEW into, into = Into(k, 0 .. chans - 1, offset, n),
               into # {}
        PROVE  v[Last(into)][k - get(Last(into)) - offset]
                 = Value(Last(into), k - get(Last(into)) - offset)
    <3>1. Last(into) \in 0 .. chans - 1
      BY <1>6, <2>1, LastIsIn
    <3>2. k - get(Last(into)) - offset \in 0 .. n - 1
      BY <1>6, <2>1, LastIsIn
    <3> QED BY <3>1, <3>2
  <2>2. mBuffer' = Stored(0 .. chans - 1, offset, n, LAMBDA c, i, old : Value(c, i))
    BY Zenon DEF SetFromInterleaved, Deinterleaved
  <2> HIDE DEF v, n, chans, Value
  <2> QED BY <2>1, <2>2, Zenon DEF Stored, StoredBy, Into, Last
<1> HIDE DEF n, chans
<1>8. Holds(v, 0 .. chans - 1, n)
  <2> SUFFICES ASSUME NEW c \in 0 .. chans - 1, NEW i \in 0 .. n - 1
               PROVE  Incoming(line.scaled, line.data[c + (first + i) * chan]) \in Samples
    BY DEF Holds
  <2>1. c \in 0 .. chan - 1 /\ i \in 0 .. length - 1
    BY <1>1, <1>3, <1>4
  <2>2. c + (first + i) * chan \in DOMAIN line.data
    BY <1>0, <1>1, <2>1, FrameIs
  <2> QED BY <1>1, <2>2, Incomings
<1>9. \A c \in 0 .. chans - 1 : \A i \in 0 .. n - 1 :
         v[c][i] = Incoming(line.scaled, line.data[c + (first + i) * chan])
  OBVIOUS
<1>10. /\ DOMAIN part = 0 .. chan - 1
       /\ \A c \in 0 .. chan - 1 : 
             /\ DOMAIN part[c] = 0 .. length - 1
             /\ \A i \in 0 .. length - 1 :
                   part[c][i] = Incoming(line.scaled, line.data[c + (first + i) * chan])
  BY DEF Apart
<1>11. take.part = part /\ take.long = length
  OBVIOUS
<1> HIDE DEF v, part, take
<1>12. Covers(0 .. chans - 1, offset, n, v, part)
  BY <1>3, <1>4, <1>9, <1>10 DEF Covers
<1>13. AudioTypeOK' /\ size' = size /\ planes' = Over(0 .. chans - 1, offset, n, v)
  <2>1. mValidSize' \in Nat /\ mValidSize' <= size
    BY <1>1, <1>2, <1>3
  <2> QED BY <1>2, <1>6, <1>7, <1>8, <2>1, StoreKeeps
<1>14. planes' = P!With(planes, part, offset, P!New)
  BY <1>12, <1>13, StoreRecords
<1>15. P!Take(take, offset)
  BY <1>2, <1>3, <1>11, <1>13, <1>14 DEF P!Take
<1> QED BY <1>5, <1>13, <1>15 DEF P!PlanesCall

-----------------------------------------------------------------------------
(***************************************************************************)
(* Calls that give the buffer other memory.                                *)
(***************************************************************************)
\* Quotient and remainder of an address.
LEMMA DivisionOf ==
    ASSUME NEW c \in Nat, NEW s \in Nat, NEW i \in 0 .. s - 1
    PROVE  (c * s + i) \div s = c /\ (c * s + i) % s = i
<1>1. c * s \in Nat /\ i \in Nat /\ 0 < s
  BY Products
<1> DEFINE k == c * s + i
           q == k \div s
           r == k % s
<1>2. k \in Nat
  BY <1>1
<1> HIDE DEF k
<1>3. q \in Nat /\ r \in 0 .. s - 1 /\ k = q * s + r
  BY <1>1, <1>2, Parts
<1> HIDE DEF q, r
<1>4. q * s + r = c * s + i
  BY <1>3 DEF k
<1>5. q = c /\ r = i
  BY <1>3, <1>4, AddressIsOne
<1> QED BY <1>5 DEF q, r, k

\* Chunks are multiples of the alignment that exceed what is asked for by less
\* than one.
LEMMA ChunkIs ==
    ASSUME NEW n \in Nat
    PROVE  /\ closestChunkSize(n) \in n .. n + Align - 1 /\ closestChunkSize(n) \in Nat
           /\ closestChunkSize(n) % Align = 0
<1>1. Align \in Nat /\ 0 < Align
  BY Given
<1> DEFINE q == n \div Align
           r == n % Align
<1>2. q \in Nat /\ r \in 0 .. Align - 1 /\ n = q * Align + r
  BY <1>1, Parts
<1> HIDE DEF q, r
<1>3. CASE r = 0
  BY <1>1, <1>2, <1>3 DEF closestChunkSize, r
<1>4. CASE r # 0
  <2>1. closestChunkSize(n) = (q + 1) * Align
    BY <1>4 DEF closestChunkSize, q, r
  <2>2. (q + 1) * Align = q * Align + Align /\ q * Align \in Nat
    BY <1>1, <1>2, Products
  <2>3. q + 1 \in Nat /\ 0 \in 0 .. Align - 1
    BY <1>1, <1>2
  <2> DEFINE p == q + 1
  <2> HIDE DEF p
  <2>4. p \in Nat
    BY <2>3 DEF p
  <2>5. (p * Align + 0) % Align = 0 /\ p * Align \in Nat
    BY <1>1, <2>3, <2>4, DivisionOf, Products
  <2>6. p * Align + 0 = p * Align
    BY <2>5
  <2>7. (p * Align) % Align = 0
    BY <2>5, <2>6
  <2>8. closestChunkSize(n) % Align = 0
    BY <2>1, <2>7 DEF p
  <2> QED BY <1>1, <1>2, <1>4, <2>1, <2>2, <2>8
<1> QED BY <1>3, <1>4

\* Nothing is put into silence.
LEMMA Silenced ==
    ASSUME NEW chans, NEW n
    PROVE  P!With(P!Silent(chans, n), P!Silent(0, 0), 0, P!New) = P!Silent(chans, n)
<1>1. DOMAIN P!Silent(0, 0) = {}
  BY DEF P!Silent
<1>2. DOMAIN P!Silent(chans, n) = 0 .. chans - 1
  BY DEF P!Silent
<1>3. \A c \in 0 .. chans - 1 : /\ DOMAIN P!Silent(chans, n)[c] = 0 .. n - 1
                                /\ \A i \in 0 .. n - 1 : P!Silent(chans, n)[c][i] = 0
  BY DEF P!Silent
<1>4. P!With(P!Silent(chans, n), P!Silent(0, 0), 0, P!New)
        = [c \in 0 .. chans - 1 |-> [i \in DOMAIN P!Silent(chans, n)[c] |-> P!Silent(chans, n)[c][i]]]
  BY <1>1, <1>2, Zenon DEF P!With
<1>5. @ = [c \in 0 .. chans - 1 |-> [i \in 0 .. n - 1 |-> 0]]
  BY <1>3
<1> QED BY <1>4, <1>5 DEF P!Silent

\* What stays valid in new memory is no more than it was made for.
LEMMA ValidIs ==
    ASSUME AudioTypeOK, NEW n \in Nat
    PROVE  /\ ValidFor(n) \in Nat /\ ValidFor(n) <= n 
           /\ ValidFor(n) = IF mValidSize = 0 THEN n ELSE P!Least(mValidSize, n)
<1>1. mValidSize \in Nat
  BY AudioFields
<1> QED BY <1>1 DEF ValidFor, Lesser, P!Least

\* New memory is silent, and as long as the padding says, or there is none.
LEMMA ReshapedRemakes ==
    ASSUME AudioTypeOK, NEW n \in Nat, NEW chan \in 0 .. MaxChannels, NEW got \in BOOLEAN,
           got => chan * closestChunkSize(n) <= MaxCells, ~got => ResizesFail,
           Reshaped(n, chan, got)
    PROVE  AudioTypeOK' /\ (got => P!Remake(chan, n, P!Silent(0, 0)))
<1> DEFINE s == IF got THEN closestChunkSize(n) ELSE 0
<1>1. /\ s \in Nat /\ (got => s \in n .. n + Align - 1) /\ chan \in Nat /\ MaxCells \in Nat
      /\ chan * 0 = 0 /\ 0 % Align = 0 /\ closestChunkSize(n) % Align = 0
  BY Given, ChunkIs
<1>2. s % Align = 0 /\ chan * s <= MaxCells
  BY <1>1
<1>3. /\ mBuffer' = Silence(chan * s) /\ mChannels' = chan /\ mValidSize' = ValidFor(n)
      /\ access' = "own"
  BY <1>1 DEF Reshaped
<1>4. ~got => s = 0
  OBVIOUS
<1> HIDE DEF s
<1>5. ValidFor(n) \in Nat /\ ValidFor(n) <= n 
  BY ValidIs
<1>6. mBuffer' \in [0 .. chan * s - 1 -> Samples]
  BY <1>3, AudioFields DEF Silence
<1>7. 0 < chan /\ (0 < s \/ ~ResizesFail) => mValidSize' <= s
  BY <1>1, <1>3, <1>4, <1>5
<1>8. /\ AudioTypeOK' /\ size' = IF chan = 0 THEN 0 ELSE s
      /\ planes' = [c \in 0 .. chan - 1 |-> [i \in 0 .. s - 1 |-> mBuffer'[c * s + i]]]
  BY <1>1, <1>2, <1>3, <1>5, <1>6, <1>7, Typed
<1>9. planes' = P!Silent(chan, size')
  <2>1. \A c \in 0 .. chan - 1 : \A i \in 0 .. s - 1 : mBuffer'[c * s + i] = 0
    BY <1>1, <1>3, Address DEF Silence
  <2>2. planes' = P!Silent(chan, s)
    BY <1>8, <2>1 DEF P!Silent
  <2>3. chan = 0 => 0 .. chan - 1 = {}
    OBVIOUS
  <2>4. CASE chan = 0
    BY <2>2, <2>3, <2>4 DEF P!Silent
  <2> QED BY <1>8, <2>2, <2>4
<1>10. planes' = P!With(P!Silent(chan, size'), P!Silent(0, 0), 0, P!New)
  BY <1>9, Silenced
<1>11. got => size' \in IF chan = 0 THEN {0} ELSE n .. n + Align - 1
  BY <1>1, <1>8
<1>12. mValidSize' = IF mValidSize = 0 THEN n ELSE P!Least(mValidSize, n)
  BY <1>3, ValidIs
<1> QED BY <1>8, <1>10, <1>11, <1>12 DEF P!Remake

-----------------------------------------------------------------------------
\* Calls that change nothing of the buffer.
LEMMA StandingStill ==
    ASSUME AudioTypeOK, UNCHANGED buffer
    PROVE  AudioTypeOK' /\ UNCHANGED <<planes, size, mValidSize>>
BY DEF buffer, AudioTypeOK, Cells, size, Sound, planes, get

\* resize(), for the lengths and channels that are asked for or another
\* buffer has.
LEMMA ResizeRemakes ==
    ASSUME AudioTypeOK, NEW n \in Nat, NEW chan \in 0 .. MaxChannels, Resize(n, chan)
    PROVE  AudioTypeOK' /\ (Careful => P!Resize(chan, n))
<1>1. CASE chan = mChannels /\ size = n
  <2>1. UNCHANGED buffer
    BY <1>1 DEF Resize
  <2>2. P!Channels = 0 .. chan - 1
    BY <1>1 DEF P!Channels, planes
  <2> QED BY <1>1, <2>1, <2>2, StandingStill DEF P!Resize
<1>2. CASE ~(chan = mChannels /\ size = n)
  <2>1. PICK got \in Grants(chan * n) : Reshaped(n, chan, got)
    BY <1>2 DEF Resize
  <2>2. got \in BOOLEAN /\ (~got => ResizesFail) /\ (Careful => got)
    BY DEF Grants, Careful
  <2>3. chan * closestChunkSize(n) <= MaxCells
    BY DEF Resize
  <2> QED BY <2>1, <2>2, <2>3, ReshapedRemakes DEF P!Resize
<1> QED BY <1>1, <1>2

\* resize() remakes the channels, unless they are as they should be.
LEMMA ResizeImplements ==
    ASSUME AudioTypeOK, NEW n \in Lengths, NEW chan \in 0 .. MaxChannels, Resize(n, chan)
    PROVE  AudioTypeOK' /\ (Careful => P!PlanesCall)
<1>1. n \in Nat
  BY Given
<1>2. AudioTypeOK' /\ (Careful => P!Resize(chan, n))
  BY <1>1, ResizeRemakes
<1> QED BY <1>2 DEF P!PlanesCall

\* resize() to a length keeps the number of channels, if there are any.
LEMMA ResizeLengthImplements ==
    ASSUME AudioTypeOK, NEW n \in Lengths, ResizeLength(n)
    PROVE  AudioTypeOK' /\ (Careful => P!PlanesCall)
<1> DEFINE chan == IF mChannels = 0 THEN 1 ELSE mChannels
<1>1. chan \in 0 .. MaxChannels
  BY Given, AudioFields
<1>2. Resize(n, chan)
  BY DEF ResizeLength
<1> QED BY <1>1, <1>2, ResizeImplements

\* resize() to what another buffer has.
LEMMA ResizeToImplements ==
    ASSUME AudioTypeOK, NEW b \in Others, ResizeTo(b)
    PROVE  AudioTypeOK' /\ (Careful => P!PlanesCall)
<1> DEFINE copy == [chans |-> b.channels, length |-> b.size,
                    part |-> Part(b, FALSE, b.channels, 0, b.valid)]
<1>1. copy \in Clones
  BY DEF Clones
<1>2. copy.chans = b.channels /\ copy.length = b.size
  OBVIOUS
<1> HIDE DEF copy
<1>3. AudioTypeOK' /\ (Careful => P!Resize(copy.chans, copy.length))
  BY <1>2, OtherIs, ResizeRemakes DEF ResizeTo
<1> QED BY <1>1, <1>3 DEF P!PlanesCall

\* What clone() of a buffer as large as this one leaves, and of any other.
SetFrom(b) ==
    mBuffer' = Stored(0 .. mChannels - 1, 0, b.valid, LAMBDA c, i, old : At(b, c, i))

MadeFrom(b, long) ==
    mBuffer' = [k \in 0 .. b.channels * long - 1 |->
                  IF k % long < b.valid THEN At(b, k \div long, k % long) ELSE 0]

LEMMA CloneOfSame ==
    ASSUME AudioTypeOK, NEW b \in Others, b.channels = mChannels, b.size = size,
           SetFrom(b),
           UNCHANGED <<mValidSize, mChannels, access>>
    PROVE  /\ AudioTypeOK' /\ size' = size
           /\ planes' = P!With(planes, Part(b, FALSE, b.channels, 0, b.valid), 0, P!New)
<1> DEFINE n == b.valid
           v == [c \in 0 .. mChannels - 1 |-> [i \in 0 .. n - 1 |-> At(b, c, i)]]
           part == Part(b, FALSE, b.channels, 0, n)
<1>1. /\ size \in Nat /\ mChannels \in Nat /\ mValidSize \in Nat /\ b.valid \in Nat
      /\ b.valid <= b.size /\ mChannels' = mChannels /\ access' = access
      /\ mValidSize' = mValidSize
  <2>1. mChannels' = mChannels /\ access' = access /\ mValidSize' = mValidSize
    BY Zenon
  <2> QED BY <2>1, AudioFields, OtherIs
<1>2. Within(0 .. mChannels - 1, 0, n)
  BY <1>1 DEF Within
<1>3. mBuffer' = StoredBy(0 .. mChannels - 1, 0, n, v)
  <2>1. ASSUME NEW k \in DOMAIN mBuffer, NEW into, into = Into(k, 0 .. mChannels - 1, 0, n),
               into # {}
        PROVE  v[Last(into)][k - get(Last(into)) - 0] = At(b, Last(into), k - get(Last(into)) - 0)
    <3>1. Last(into) \in 0 .. mChannels - 1
      BY <1>2, <2>1, LastIsIn
    <3>2. k - get(Last(into)) - 0 \in 0 .. n - 1
      BY <1>2, <2>1, LastIsIn
    <3> QED BY <3>1, <3>2
  <2> HIDE DEF v
  <2> QED BY <2>1, Zenon DEF SetFrom, Stored, StoredBy, Into, Last
<1>4. Holds(v, 0 .. mChannels - 1, n)
  <2> SUFFICES ASSUME NEW c \in 0 .. mChannels - 1, NEW i \in 0 .. n - 1
               PROVE  At(b, c, i) \in Samples
    BY DEF Holds
  <2>1. c \in 0 .. b.channels - 1 /\ i \in 0 .. b.size - 1
    BY <1>1
  <2> QED BY <2>1, AtIs
<1> HIDE DEF n
<1>5. \A c \in 0 .. mChannels - 1 : \A i \in 0 .. n - 1 : v[c][i] = At(b, c, i)
  OBVIOUS
<1>6. /\ DOMAIN part = 0 .. mChannels - 1
      /\ \A c \in 0 .. mChannels - 1 : 
            /\ DOMAIN part[c] = 0 .. n - 1
            /\ \A i \in 0 .. n - 1 : part[c][i] = At(b, c, 0 + i)
  BY DEF Part, Incoming
<1>7. \A i \in 0 .. n - 1 : 0 + i = i
  OBVIOUS
<1> HIDE DEF v, part
<1>8. Covers(0 .. mChannels - 1, 0, n, v, part)
  <2> SUFFICES ASSUME NEW c \in 0 .. mChannels - 1, NEW i \in 0 .. size - 1
               PROVE  /\ c \in 0 .. mChannels - 1 /\ i - 0 \in 0 .. n - 1
                         <=> c \in DOMAIN part /\ i - 0 \in DOMAIN part[c]
                      /\ c \in 0 .. mChannels - 1 /\ i - 0 \in 0 .. n - 1
                         => v[c][i - 0] = part[c][i - 0]
    BY DEF Covers
  <2>1. i - 0 = i
    OBVIOUS
  <2>2. i - 0 \in 0 .. n - 1 => v[c][i] = part[c][i]
    BY <1>5, <1>6, <1>7, <2>1
  <2> QED BY <1>6, <2>1, <2>2
<1>9. AudioTypeOK' /\ size' = size /\ planes' = Over(0 .. mChannels - 1, 0, n, v)
  BY <1>1, <1>2, <1>3, <1>4, StoreKeeps
<1>10. planes' = P!With(planes, part, 0, P!New)
  BY <1>8, <1>9, StoreRecords
<1> QED BY <1>9, <1>10 DEF part, n

\* clone() of any other buffer, into new memory.
LEMMA CloneOfOther ==
    ASSUME AudioTypeOK, NEW b \in Others, NEW long, long = closestChunkSize(b.size),
           b.channels * long <= MaxCells,
           MadeFrom(b, long),
           mChannels' = b.channels, mValidSize' = ValidFor(b.size), access' = "own"
    PROVE  /\ AudioTypeOK'
           /\ P!Remake(b.channels, b.size, Part(b, FALSE, b.channels, 0, b.valid))
<1> DEFINE part == Part(b, FALSE, b.channels, 0, b.valid)
           chans == b.channels
<1>1. /\ chans \in Nat /\ chans \in 0 .. MaxChannels /\ b.size \in Nat /\ b.valid \in Nat
      /\ b.valid <= b.size /\ long \in b.size .. b.size + Align - 1 /\ long \in Nat
      /\ long % Align = 0 /\ ValidFor(b.size) \in Nat /\ ValidFor(b.size) <= b.size
      /\ MaxCells \in Nat
  BY OtherIs, ChunkIs, ValidIs, Given
<1>2. ASSUME NEW c \in 0 .. chans - 1, NEW i \in 0 .. long - 1
      PROVE  /\ c * long + i \in 0 .. chans * long - 1
             /\ mBuffer'[c * long + i] = IF i < b.valid THEN At(b, c, i) ELSE 0
  <2>1. c * long + i \in 0 .. chans * long - 1 /\ c \in Nat
    BY <1>1, Address
  <2>2. (c * long + i) \div long = c /\ (c * long + i) % long = i
    <3>1. long \in Nat /\ c \in Nat /\ i \in 0 .. long - 1
      BY <1>1, <2>1
    <3> QED BY <3>1, DivisionOf
  <2> DEFINE k == c * long + i
  <2> HIDE DEF k
  <2>3. mBuffer'[k] = IF k % long < b.valid THEN At(b, k \div long, k % long) ELSE 0
    BY <2>1 DEF k, MadeFrom
  <2>4. mBuffer'[k] = IF i < b.valid THEN At(b, c, i) ELSE 0
    BY <2>2, <2>3 DEF k
  <2> QED BY <2>1, <2>4 DEF k
<1>3. mBuffer' \in [0 .. chans * long - 1 -> Samples]
  <2> SUFFICES ASSUME NEW k \in 0 .. chans * long - 1 PROVE mBuffer'[k] \in Samples
    BY DEF MadeFrom
  <2> DEFINE c == k \div long
             i == k % long
  <2>1. c \in 0 .. chans - 1 /\ i \in 0 .. long - 1 /\ k = c * long + i
    <3>1. long \in Nat /\ chans \in Nat
      BY <1>1
    <3> HIDE DEF chans
    <3> QED BY <3>1, AddressOf
  <2> HIDE DEF c, i
  <2>2. mBuffer'[k] = IF i < b.valid THEN At(b, c, i) ELSE 0
    BY <1>2, <2>1
  <2>3. i < b.valid => At(b, c, i) \in Samples
    <3>1. i < b.valid => i \in 0 .. b.size - 1
      BY <1>1, <2>1
    <3> QED BY <2>1, <3>1, AtIs
  <2> QED BY <2>2, <2>3, AudioFields
<1>4. 0 < chans => mValidSize' <= long
  BY <1>1
<1>5. /\ AudioTypeOK' /\ size' = IF chans = 0 THEN 0 ELSE long
      /\ planes' = [c \in 0 .. chans - 1 |-> [i \in 0 .. long - 1 |-> mBuffer'[c * long + i]]]
  <2>1. /\ chans \in 0 .. MaxChannels /\ long \in Nat /\ chans * long <= MaxCells
        /\ mBuffer' \in [0 .. chans * long - 1 -> Samples] /\ mChannels' = chans
        /\ mValidSize' \in Nat /\ access' \in {"own", "lent", "const"}
        /\ (0 < chans /\ (0 < long \/ ~ResizesFail) => mValidSize' <= long)
        /\ (access' = "own" => long % Align = 0)
    BY <1>1, <1>3, <1>4
  <2> HIDE DEF chans, part
  <2> QED BY <2>1, Typed
<1>6. /\ DOMAIN part = 0 .. chans - 1
      /\ \A c \in 0 .. chans - 1 : 
            /\ DOMAIN part[c] = 0 .. b.valid - 1
            /\ \A i \in 0 .. b.valid - 1 : part[c][i] = At(b, c, 0 + i)
  BY DEF Part, Incoming
<1> HIDE DEF part
<1>7. planes' = P!With(P!Silent(chans, size'), part, 0, P!New)
  <2> DEFINE base == P!Silent(chans, size')
  <2>1. /\ DOMAIN base = 0 .. chans - 1
        /\ \A c \in 0 .. chans - 1 : /\ DOMAIN base[c] = 0 .. size' - 1
                                     /\ \A i \in 0 .. size' - 1 : base[c][i] = 0
    BY DEF P!Silent
  <2> HIDE DEF base
  <2>2. P!With(base, part, 0, P!New)
          = [c \in DOMAIN base |-> [i \in DOMAIN base[c] |->
               IF c \in DOMAIN part /\ i - 0 \in DOMAIN part[c] THEN part[c][i - 0] ELSE base[c][i]]]
    BY Zenon DEF P!With, P!New
  <2>3. \A c \in 0 .. chans - 1 : size' = long /\ DOMAIN base[c] = 0 .. long - 1
    BY <1>1, <1>5, <2>1
  <2>4. ASSUME NEW c \in 0 .. chans - 1, NEW i \in 0 .. long - 1
        PROVE  mBuffer'[c * long + i]
                 = IF c \in DOMAIN part /\ i - 0 \in DOMAIN part[c] THEN part[c][i - 0] ELSE base[c][i]
    <3>1. i - 0 = i /\ 0 + i = i
      OBVIOUS
    <3>2. base[c][i] = 0
      BY <2>1, <2>3
    <3>3. mBuffer'[c * long + i] = IF i < b.valid THEN At(b, c, i) ELSE 0
      BY <1>2
    <3>4. i < b.valid <=> i \in 0 .. b.valid - 1
      BY <1>1
    <3>5. c \in DOMAIN part /\ DOMAIN part[c] = 0 .. b.valid - 1
      BY <1>6
    <3>6. i \in 0 .. b.valid - 1 => part[c][i] = At(b, c, i)
      BY <1>6, <3>1
    <3> QED BY <3>1, <3>2, <3>3, <3>4, <3>5, <3>6
  <2>5. P!With(base, part, 0, P!New)
          = [c \in 0 .. chans - 1 |-> [i \in 0 .. long - 1 |->
               IF c \in DOMAIN part /\ i - 0 \in DOMAIN part[c] THEN part[c][i - 0] ELSE base[c][i]]]
    BY <2>1, <2>2, <2>3
  <2>6. planes' = P!With(base, part, 0, P!New)
    BY <1>5, <2>4, <2>5
  <2> QED BY <2>6 DEF base
<1>8. size' \in IF chans = 0 THEN {0} ELSE b.size .. b.size + Align - 1
  BY <1>1, <1>5
<1>9. mValidSize' = IF mValidSize = 0 THEN b.size ELSE P!Least(mValidSize, b.size)
  BY <1>1, ValidIs
<1>10. P!Remake(chans, b.size, part)
  BY <1>7, <1>8, <1>9 DEF P!Remake
<1> QED BY <1>5, <1>10 DEF part

\* clone() records what is valid in the other buffer, in channels that are new
\* unless they are as the other has them already.
LEMMA CloneImplements ==
    ASSUME AudioTypeOK, NEW b \in Others, Clone(b)
    PROVE  AudioTypeOK' /\ (Careful => P!PlanesCall)
<1> DEFINE copy == [chans |-> b.channels, length |-> b.size,
                    part |-> Part(b, FALSE, b.channels, 0, b.valid)]
           same == b.channels = mChannels /\ b.size = size
           long == closestChunkSize(b.size)
<1>1. copy \in Clones
  BY DEF Clones
<1>2. /\ copy.chans = b.channels /\ copy.length = b.size
      /\ copy.part = Part(b, FALSE, b.channels, 0, b.valid)
  OBVIOUS
<1> HIDE DEF copy
<1>3. AudioTypeOK' /\ (Careful => P!Clone(copy))
  <2>1. CASE same
    <3>1. SetFrom(b) /\ UNCHANGED <<mValidSize, mChannels, access>>
      BY <2>1, Zenon DEF Clone, SetFrom
    <3>2. /\ AudioTypeOK' /\ size' = size
          /\ planes' = P!With(planes, copy.part, 0, P!New)
      BY <1>2, <2>1, <3>1, CloneOfSame, Zenon
    <3>3. P!Channels = 0 .. mChannels - 1
      BY DEF P!Channels, planes
    <3>4. mValidSize' = mValidSize
      BY <3>1, Zenon
    <3>5. P!Record(copy.part, 0)
      BY <3>2, <3>4 DEF P!Record
    <3> QED BY <1>2, <2>1, <3>2, <3>3, <3>5 DEF P!Clone
  <2>2. CASE ~same
    <3>1. PICK got \in Grants(b.channels * b.size) :
            mBuffer' = [k \in 0 .. (IF got THEN b.channels * long ELSE 0) - 1 |->
                          IF k % long < b.valid THEN At(b, k \div long, k % long) ELSE 0]
      BY <2>2, Zenon DEF Clone
    <3>2. /\ b.channels * long <= MaxCells
          /\ mChannels' = b.channels /\ mValidSize' = ValidFor(b.size) /\ access' = "own"
      BY <2>2, Zenon DEF Clone
    <3> HIDE DEF long
    <3>3. CASE got
      <4>1. MadeFrom(b, long)
        BY <3>1, <3>3 DEF MadeFrom
      <4>2. AudioTypeOK' /\ P!Remake(b.channels, b.size, copy.part)
        BY <1>2, <3>2, <4>1, CloneOfOther, Zenon DEF long
      <4> QED BY <1>2, <4>2 DEF P!Clone
    <3>4. CASE ~got
      <4>1. ResizesFail /\ ~Careful
        BY <3>1, <3>4 DEF Grants, Careful
      <4>2. mBuffer' = Silence(0)
        <5>1. 0 .. (IF got THEN b.channels * long ELSE 0) - 1 = {} /\ 0 .. 0 - 1 = {}
          BY <3>4
        <5> QED BY <3>1, <5>1 DEF Silence
      <4>3. Reshaped(b.size, b.channels, got)
        BY <3>2, <3>4, <4>2 DEF Reshaped
      <4>4. got \in BOOLEAN
        BY <3>1 DEF Grants
      <4> QED BY <3>4, <4>1, <4>3, <4>4, OtherIs, ReshapedRemakes
    <3> QED BY <3>1, <3>3, <3>4
  <2> QED BY <2>1, <2>2
<1> QED BY <1>1, <1>3 DEF P!PlanesCall

-----------------------------------------------------------------------------
\* inject() takes the channels from the memory it is given: all of it is valid.
LEMMA InjectImplements ==
    ASSUME AudioTypeOK, NEW line \in Lines, NEW n \in Lengths \ {0},
           NEW chan \in 1 .. MaxChannels, NEW kind \in {"lent", "const"},
           Inject(line.data, n, chan, kind)
    PROVE  AudioTypeOK' /\ P!PlanesCall
<1> DEFINE x == <<line, chan, n>>
           loan == [c \in 0 .. x[2] - 1 |-> [i \in 0 .. x[3] - 1 |-> x[1].data[c * x[3] + i]]]
<1>1. /\ n \in Nat /\ 0 < n /\ chan \in Nat /\ 0 < chan /\ chan \in 0 .. MaxChannels
      /\ chan * n \in Nat
  BY Given, Products
<1>2. /\ line.data \in [0 .. chan * n - 1 -> Samples] /\ chan * n <= MaxCells
      /\ mBuffer' = line.data /\ mChannels' = chan /\ mValidSize' = (chan * n) \div chan
      /\ access' = kind
  BY DEF Inject, Flat
<1>3. mValidSize' = n
  BY <1>1, <1>2, Quotient
<1>4. mBuffer' \in [0 .. chan * n - 1 -> Samples]
  BY <1>2
<1>5. mValidSize' \in Nat /\ access' \in {"own", "lent", "const"} /\ access' # "own"
  BY <1>1, <1>2, <1>3
<1>6. 0 < chan /\ 0 < n => mValidSize' <= n
  BY <1>1, <1>3
<1>7. /\ AudioTypeOK' /\ size' = IF chan = 0 THEN 0 ELSE n
      /\ planes' = [c \in 0 .. chan - 1 |-> [i \in 0 .. n - 1 |-> mBuffer'[c * n + i]]]
  BY <1>1, <1>2, <1>4, <1>5, <1>6, Typed
<1>8. loan \in Lendings
  <2>1. x \in {y \in Lines \X (1 .. MaxChannels) \X Lengths :
                 DOMAIN y[1].data = 0 .. y[2] * y[3] - 1}
    BY <1>2
  <2> HIDE DEF x
  <2> QED BY <2>1 DEF Lendings
<1>9. loan = [c \in 0 .. chan - 1 |-> [i \in 0 .. n - 1 |-> line.data[c * n + i]]]
  OBVIOUS
<1> HIDE DEF x, loan
<1>10. planes' = loan
  BY <1>2, <1>7, <1>9
<1>11. P!Borrow(loan)
  <2>1. size' = n
    BY <1>1, <1>7
  <2>2. \A c \in DOMAIN loan : DOMAIN loan[c] = 0 .. n - 1
    BY <1>9
  <2> QED BY <1>3, <1>10, <2>1, <2>2 DEF P!Borrow
<1> QED BY <1>7, <1>8, <1>11 DEF P!PlanesCall

\* A move takes the channels of the other buffer as they are.
LEMMA MoveFromImplements ==
    ASSUME AudioTypeOK, NEW b \in Others, MoveFrom(b)
    PROVE  AudioTypeOK' /\ P!PlanesCall
<1> DEFINE gift == [planes |-> Part(b, FALSE, b.channels, 0, b.size), length |-> b.size,
                    valid |-> b.valid]
           chans == b.channels
           n == b.size
<1>1. /\ chans \in Nat /\ chans \in 0 .. MaxChannels /\ n \in Nat /\ b.valid \in Nat
      /\ b.valid <= n /\ (chans = 0 => n = 0) /\ b.data \in [0 .. chans * n - 1 -> Samples]
  BY OtherIs
<1>2. /\ n % Align = 0 /\ chans * n <= MaxCells /\ mBuffer' = b.data /\ mChannels' = chans
      /\ mValidSize' = b.valid /\ access' = "own"
  BY DEF MoveFrom
<1>3. gift \in Moves
  BY DEF Moves
<1>4. /\ gift.planes = Part(b, FALSE, b.channels, 0, b.size) /\ gift.length = n
      /\ gift.valid = b.valid
  OBVIOUS
<1>5. gift.planes = [c \in 0 .. chans - 1 |-> [i \in 0 .. n - 1 |-> b.data[c * n + (0 + i)]]]
  BY <1>4 DEF Part, Incoming, At
<1> HIDE DEF gift, chans, n
<1>6. 0 < chans /\ 0 < n => mValidSize' <= n
  BY <1>1, <1>2
<1>7. mBuffer' \in [0 .. chans * n - 1 -> Samples]
  BY <1>1, <1>2
<1>8. /\ AudioTypeOK' /\ size' = IF chans = 0 THEN 0 ELSE n
      /\ planes' = [c \in 0 .. chans - 1 |-> [i \in 0 .. n - 1 |-> mBuffer'[c * n + i]]]
  BY <1>1, <1>2, <1>6, <1>7, Typed
<1>9. \A i \in 0 .. n - 1 : 0 + i = i
  OBVIOUS
<1>10. planes' = gift.planes
  BY <1>2, <1>5, <1>8, <1>9
<1>11. P!Adopt(gift)
  BY <1>1, <1>2, <1>4, <1>8, <1>10 DEF P!Adopt
<1> QED BY <1>3, <1>8, <1>11 DEF P!PlanesCall

\* What is moved from looks as it did.
LEMMA MoveAwayImplements ==
    ASSUME AudioTypeOK, MoveAway
    PROVE  AudioTypeOK' /\ UNCHANGED P!planesVars
BY DEF MoveAway, AudioTypeOK, Cells, size, Sound, planes, get, P!planesVars

\* setValidSize() changes no channel.
LEMMA SetValidSizeImplements ==
    ASSUME AudioTypeOK, NEW n \in Lengths, SetValidSize(n)
    PROVE  AudioTypeOK' /\ P!PlanesCall
<1>1. /\ n \in Nat /\ size \in Nat /\ n <= size /\ mValidSize' = Lesser(size, n)
      /\ UNCHANGED <<mBuffer, mChannels, access>>
  BY Given, AudioFields DEF SetValidSize
<1>2. mValidSize' = n
  BY <1>1 DEF Lesser
<1>3. size' = size /\ planes' = planes /\ Cells' = Cells
  BY <1>1 DEF Cells, size, planes, get
<1>4. AudioTypeOK'
  BY <1>1, <1>2, <1>3 DEF AudioTypeOK, Sound
<1>5. P!Trim(n)
  BY <1>1, <1>2, <1>3 DEF P!Trim
<1> QED BY <1>4, <1>5 DEF P!PlanesCall
-----------------------------------------------------------------------------
(***************************************************************************)
(* Calls that combine what is stored with what is there.                   *)
(***************************************************************************)
Combined(multiplies, old, new) == IF multiplies THEN P!Product(old, new) ELSE P!Sum(old, new)

\* Samples combined are samples.
LEMMA CombinedIs ==
    ASSUME NEW multiplies, NEW old \in Samples, NEW new \in Samples
    PROVE  Combined(multiplies, old, new) \in Samples
<1>1. SampleMod \in Nat /\ 0 < SampleMod /\ old \in Nat /\ new \in Nat
  BY Given DEF Samples
<1>2. old * new \in Nat
  BY <1>1, Products
<1>3. ASSUME NEW k \in Nat PROVE k % SampleMod \in Samples
  BY <1>1, <1>3, Parts DEF Samples
<1>4. P!Product(old, new) \in Samples /\ P!Sum(old, new) \in Samples
  BY <1>1, <1>2, <1>3 DEF P!Product, P!Sum
<1> QED BY <1>4 DEF Combined

\* To store v is to mix part in, as far as it is heard.
Mixes(chans, offset, length, v, part, asks, multiplies) ==
    \A c \in 0 .. mChannels - 1 : \A i \in 0 .. size - 1 :
        /\ c \in chans /\ i - offset \in 0 .. length - 1
           <=> c \in DOMAIN part /\ i - offset \in DOMAIN P!Heard(part, offset, asks)[c]
        /\ c \in chans /\ i - offset \in 0 .. length - 1
           => v[c][i - offset]
                = Combined(multiplies, planes[c][i], P!Heard(part, offset, asks)[c][i - offset])

\* To store v, where v combines part with what is there, is to mix part in.
LEMMA StoreMixes ==
    ASSUME AudioTypeOK, NEW chans, NEW offset, NEW length, NEW v, NEW part, NEW asks,
           NEW multiplies \in BOOLEAN,
           planes' = Over(chans, offset, length, v),
           Mixes(chans, offset, length, v, part, asks, multiplies),
           size' = size, mValidSize' = mValidSize, asked' = asks
    PROVE  P!Mix(part, offset, asks)
<1> DEFINE heard == P!Heard(part, offset, asks)
<1>1. DOMAIN planes = 0 .. mChannels - 1 /\ DOMAIN heard = DOMAIN part
  BY DEF planes, P!Heard
<1>2. \A c \in 0 .. mChannels - 1 : DOMAIN planes[c] = 0 .. size - 1
  BY DEF planes
<1>3. Mixes(chans, offset, length, v, part, asks, multiplies)
        <=> \A c \in 0 .. mChannels - 1 : \A i \in 0 .. size - 1 :
              /\ c \in chans /\ i - offset \in 0 .. length - 1
                 <=> c \in DOMAIN part /\ i - offset \in DOMAIN heard[c]
              /\ c \in chans /\ i - offset \in 0 .. length - 1
                 => v[c][i - offset] = Combined(multiplies, planes[c][i], heard[c][i - offset])
  BY DEF Mixes
<1> HIDE DEF heard
<1>4. CASE multiplies
  <2>1. P!With(planes, heard, offset, P!Product)
          = [c \in 0 .. mChannels - 1 |-> [i \in 0 .. size - 1 |->
               IF c \in DOMAIN heard /\ i - offset \in DOMAIN heard[c]
               THEN P!Product(planes[c][i], heard[c][i - offset]) ELSE planes[c][i]]]
    BY <1>1, <1>2, Zenon DEF P!With
  <2>2. planes' = P!With(planes, heard, offset, P!Product)
    BY <1>1, <1>3, <1>4, <2>1 DEF Over, Combined
  <2> QED BY <2>2, Zenon DEF P!Mix, heard
<1>5. CASE ~multiplies
  <2>1. P!With(planes, heard, offset, P!Sum)
          = [c \in 0 .. mChannels - 1 |-> [i \in 0 .. size - 1 |->
               IF c \in DOMAIN heard /\ i - offset \in DOMAIN heard[c]
               THEN P!Sum(planes[c][i], heard[c][i - offset]) ELSE planes[c][i]]]
    BY <1>1, <1>2, Zenon DEF P!With
  <2>2. planes' = P!With(planes, heard, offset, P!Sum)
    BY <1>1, <1>3, <1>5, <2>1 DEF Over, Combined
  <2> QED BY <2>2, Zenon DEF P!Mix, heard
<1> QED BY <1>4, <1>5

-----------------------------------------------------------------------------
\* A sample of a channel is at its address.
LEMMA SampleIs ==
    ASSUME AudioTypeOK, NEW c \in 0 .. mChannels - 1, NEW i \in 0 .. size - 1
    PROVE  get(c) \in Nat /\ mBuffer[get(c) + i] \in Samples /\ planes[c][i] = mBuffer[get(c) + i]
<1>1. /\ size \in Nat /\ mChannels \in Nat
      /\ mBuffer \in [0 .. mChannels * size - 1 -> Samples]
  BY AudioFields
<1>2. c * size + i \in 0 .. mChannels * size - 1 /\ c * size \in Nat
  BY <1>1, Address
<1> QED BY <1>1, <1>2 DEF get, planes

\* add() and multiply() of another buffer mix in what is valid there, as far as
\* it is valid here.
LEMMA MixedImplements ==
    ASSUME AudioTypeOK, NEW b \in Others, NEW first \in Offsets, NEW offset \in Offsets,
           NEW multiplies \in BOOLEAN, NEW asks \in Lengths,
           IF multiplies THEN Multiply(b, asks, first, offset) ELSE Add(b, asks, first, offset)
    PROVE  AudioTypeOK' /\ (Careful => P!PlanesNext)
<1> DEFINE n == Lesser(b.valid - first, mValidSize - offset)
           chans == Lesser(b.channels, mChannels)
           v == [c \in 0 .. chans - 1 |-> [i \in 0 .. n - 1 |->
                   Combined(multiplies, mBuffer[get(c) + offset + i], At(b, c, first + i))]]
           part == Part(b, FALSE, b.channels, first, b.valid - first)
<1>1. /\ Sound /\ offset <= mValidSize /\ first <= b.valid
      /\ mChannels' = mChannels /\ access' = access /\ mValidSize' = mValidSize
      /\ asked' = asks /\ (asks = 0 \/ n <= asks \/ CutsMixes)
  <2>1. CASE multiplies
    BY <2>1, Zenon DEF Multiply, Mixed
  <2>2. CASE ~multiplies
    BY <2>2, Zenon DEF Add, Mixed
  <2> QED BY <2>1, <2>2
<1>2. /\ offset \in Nat /\ first \in Nat /\ size \in Nat /\ mValidSize \in Nat /\ mChannels \in Nat
      /\ b.channels \in Nat /\ b.valid \in Nat /\ b.size \in Nat /\ b.valid <= b.size
      /\ mValidSize <= size
  BY <1>1, Given, OtherIs, AudioFields DEF Sound
<1>3. /\ n \in Nat /\ offset + n <= size /\ first + n <= b.size
      /\ \A j \in Int : j \in 0 .. n - 1 
                        <=> j \in 0 .. (b.valid - first) - 1 /\ offset + j < mValidSize
  BY <1>1, <1>2 DEF Lesser
<1>0. asks \in Nat
  BY Given
<1>4. /\ chans \in Nat /\ chans <= mChannels /\ chans <= b.channels
      /\ \A c \in 0 .. mChannels - 1 : c \in 0 .. chans - 1 <=> c \in 0 .. b.channels - 1
  BY <1>2 DEF Lesser
<1>5. part \in ValidParts
  <2> DEFINE x == <<b, first>>
  <2>1. x \in {y \in Others \X Offsets : y[2] <= y[1].valid}
    BY <1>1
  <2>2. part = Part(x[1], FALSE, x[1].channels, x[2], x[1].valid - x[2])
    OBVIOUS
  <2> HIDE DEF x, part
  <2> QED BY <2>1, <2>2 DEF ValidParts
<1>6. Within(0 .. chans - 1, offset, n)
  BY <1>2, <1>3, <1>4 DEF Within
<1>7. mBuffer' = StoredBy(0 .. chans - 1, offset, n, v)
  <2> DEFINE Value(c, i, old) == Combined(multiplies, old, At(b, c, first + i))
  <2>1. ASSUME NEW k \in DOMAIN mBuffer, NEW into, into = Into(k, 0 .. chans - 1, offset, n),
               into # {}
        PROVE  v[Last(into)][k - get(Last(into)) - offset]
                 = Value(Last(into), k - get(Last(into)) - offset, mBuffer[k])
    <3> HIDE DEF n, chans, v, Value
    <3>0. /\ Last(into) \in 0 .. chans - 1 /\ k - get(Last(into)) - offset \in 0 .. n - 1
          /\ get(Last(into)) + offset + (k - get(Last(into)) - offset) = k
      <4>1. Last(into) \in 0 .. chans - 1
        BY <1>6, <2>1, LastIsIn
      <4>2. k - get(Last(into)) - offset \in 0 .. n - 1
        BY <1>6, <2>1, LastIsIn
      <4>3. get(Last(into)) + offset + (k - get(Last(into)) - offset) = k
        BY <1>6, <2>1, LastIsIn
      <4> QED BY <4>1, <4>2, <4>3
    <3> DEFINE c == Last(into)
               i == k - get(c) - offset
    <3>1. c \in 0 .. chans - 1 /\ i \in 0 .. n - 1 /\ get(c) + offset + i = k
      BY <3>0
    <3> HIDE DEF c, i
    <3> USE DEF v, Value
    <3>2. v[c][i] = Combined(multiplies, mBuffer[get(c) + offset + i], At(b, c, first + i))
      BY <3>1
    <3>3. v[c][i] = Value(c, i, mBuffer[k])
      BY <3>1, <3>2
    <3> QED BY <3>3 DEF c, i
  <2>2. CASE multiplies
    <3> DEFINE Other(c, i) == At(b, c, first + i)
    <3>1. ASSUME NEW k \in DOMAIN mBuffer, NEW into, into = Into(k, 0 .. chans - 1, offset, n),
                 into # {}
          PROVE  v[Last(into)][k - get(Last(into)) - offset]
                   = Product2(mBuffer[k], Other(Last(into), k - get(Last(into)) - offset))
      <4>1. v[Last(into)][k - get(Last(into)) - offset]
              = Combined(multiplies, mBuffer[k], Other(Last(into), k - get(Last(into)) - offset))
        BY <2>1, <3>1
      <4> HIDE DEF v, n, chans, Other
      <4> QED BY <2>2, <4>1, Zenon DEF Combined, P!Product, Product2
    <3>2. mBuffer' = Stored(0 .. chans - 1, offset, n, LAMBDA c, i, old : Product2(old, Other(c, i)))
      BY <2>2, Zenon DEF Multiply, Mixed
    <3> HIDE DEF v, n, chans, Other
    <3> QED BY <3>1, <3>2, Zenon DEF Stored, StoredBy, Into, Last
  <2>3. CASE ~multiplies
    <3> DEFINE Other(c, i) == At(b, c, first + i)
    <3>1. ASSUME NEW k \in DOMAIN mBuffer, NEW into, into = Into(k, 0 .. chans - 1, offset, n),
                 into # {}
          PROVE  v[Last(into)][k - get(Last(into)) - offset]
                   = Sum2(mBuffer[k], Other(Last(into), k - get(Last(into)) - offset))
      <4>1. v[Last(into)][k - get(Last(into)) - offset]
              = Combined(multiplies, mBuffer[k], Other(Last(into), k - get(Last(into)) - offset))
        BY <2>1, <3>1
      <4> HIDE DEF v, n, chans, Other
      <4> QED BY <2>3, <4>1, Zenon DEF Combined, P!Sum, Sum2
    <3>2. mBuffer' = Stored(0 .. chans - 1, offset, n, LAMBDA c, i, old : Sum2(old, Other(c, i)))
      BY <2>3, Zenon DEF Add, Mixed
    <3> HIDE DEF v, n, chans, Other
    <3> QED BY <3>1, <3>2, Zenon DEF Stored, StoredBy, Into, Last
  <2> QED BY <2>2, <2>3
<1> HIDE DEF n, chans
<1>8. \A c \in 0 .. chans - 1 : \A i \in 0 .. n - 1 :
         v[c][i] = Combined(multiplies, mBuffer[get(c) + offset + i], At(b, c, first + i))
  OBVIOUS
<1> HIDE DEF v
<1>9. Holds(v, 0 .. chans - 1, n)
  <2> SUFFICES ASSUME NEW c \in 0 .. chans - 1, NEW i \in 0 .. n - 1
               PROVE  v[c][i] \in Samples
    BY DEF Holds
  <2>1. /\ c \in 0 .. b.channels - 1 /\ first + i \in 0 .. b.size - 1
        /\ c \in 0 .. mChannels - 1 /\ offset + i \in 0 .. size - 1
    BY <1>2, <1>3, <1>4
  <2>2. At(b, c, first + i) \in Samples
    BY <2>1, AtIs
  <2>3. get(c) \in Nat /\ mBuffer[get(c) + (offset + i)] \in Samples
    BY <2>1, SampleIs
  <2>4. get(c) + (offset + i) = get(c) + offset + i
    BY <1>2, <2>3
  <2> QED BY <1>8, <2>2, <2>3, <2>4, CombinedIs
<1>10. /\ DOMAIN part = 0 .. b.channels - 1
       /\ \A c \in 0 .. b.channels - 1 : 
             /\ DOMAIN part[c] = 0 .. (b.valid - first) - 1
             /\ \A i \in 0 .. (b.valid - first) - 1 : part[c][i] = At(b, c, first + i)
  BY DEF Part, Incoming
<1> HIDE DEF part
<1>11. \A c \in 0 .. b.channels - 1 :
          LET heard == {j \in 0 .. (b.valid - first) - 1 :
                          offset + j < mValidSize /\ (asks > 0 => j < asks)}
          IN  /\ DOMAIN P!Heard(part, offset, asks)[c] = heard
              /\ \A j \in heard : P!Heard(part, offset, asks)[c][j] = At(b, c, first + j)
  BY <1>10 DEF P!Heard
<1>12. Careful => Mixes(0 .. chans - 1, offset, n, v, part, asks, multiplies)
  <2> SUFFICES ASSUME Careful, NEW c \in 0 .. mChannels - 1, NEW i \in 0 .. size - 1
               PROVE  /\ c \in 0 .. chans - 1 /\ i - offset \in 0 .. n - 1
                         <=> c \in DOMAIN part /\ i - offset \in DOMAIN P!Heard(part, offset, asks)[c]
                      /\ c \in 0 .. chans - 1 /\ i - offset \in 0 .. n - 1
                         => v[c][i - offset]
                              = Combined(multiplies, planes[c][i], P!Heard(part, offset, asks)[c][i - offset])
    BY DEF Mixes
  <2> DEFINE j == i - offset
  <2>1. /\ j \in Int
        /\ j \in 0 .. n - 1
           <=> /\ j \in 0 .. (b.valid - first) - 1
               /\ offset + j < mValidSize /\ (asks > 0 => j < asks)
    <3>1. j \in Int
      BY <1>2
    <3> HIDE DEF j
    <3>2. asks > 0 /\ j \in 0 .. n - 1 => j < asks
      BY <1>0, <1>1, <1>3, <3>1 DEF Careful
    <3> QED BY <1>3, <3>1, <3>2
  <2>2. get(c) \in Nat /\ planes[c][i] = mBuffer[get(c) + i] /\ get(c) + offset + j = get(c) + i
    BY <1>2, SampleIs
  <2> HIDE DEF j
  <2>3. c \in 0 .. chans - 1 <=> c \in 0 .. b.channels - 1
    BY <1>4
  <2>4. c \in 0 .. chans - 1 /\ j \in 0 .. n - 1
          <=> c \in DOMAIN part /\ j \in DOMAIN P!Heard(part, offset, asks)[c]
    BY <1>10, <1>11, <2>1, <2>3
  <2>5. ASSUME c \in 0 .. chans - 1, j \in 0 .. n - 1
        PROVE  v[c][j] = Combined(multiplies, planes[c][i], P!Heard(part, offset, asks)[c][j])
    <3>1. v[c][j] = Combined(multiplies, mBuffer[get(c) + i], At(b, c, first + j))
      BY <1>8, <2>2, <2>5
    <3>2. P!Heard(part, offset, asks)[c][j] = At(b, c, first + j)
      BY <1>11, <2>1, <2>3, <2>5
    <3> QED BY <2>2, <3>1, <3>2
  <2> QED BY <2>4, <2>5 DEF j
<1>13. AudioTypeOK' /\ size' = size /\ planes' = Over(0 .. chans - 1, offset, n, v)
  BY <1>1, <1>2, <1>6, <1>7, <1>9, StoreKeeps
<1>14. Careful => P!Mix(part, offset, asks)
  BY <1>1, <1>12, <1>13, StoreMixes
<1> QED BY <1>5, <1>13, <1>14 DEF P!PlanesNext

\* add() and multiply() of a value mix it into every valid sample.
LEMMA LevelledImplements ==
    ASSUME AudioTypeOK, NEW level \in Levels, NEW multiplies \in BOOLEAN,
           IF multiplies THEN MultiplyLevel(level) ELSE AddLevel(level), asked' = 0
    PROVE  AudioTypeOK' /\ P!PlanesNext
<1> DEFINE n == mValidSize
           v == [c \in 0 .. mChannels - 1 |-> [i \in 0 .. n - 1 |->
                   Combined(multiplies, mBuffer[get(c) + 0 + i], level)]]
           part == [c \in P!Channels |-> [i \in 0 .. size - 1 |-> level]]
<1>1. Sound /\ mChannels' = mChannels /\ access' = access /\ mValidSize' = mValidSize
  <2>1. CASE multiplies
    BY <2>1, Zenon DEF MultiplyLevel, Levelled
  <2>2. CASE ~multiplies
    BY <2>2, Zenon DEF AddLevel, Levelled
  <2> QED BY <2>1, <2>2
<1>2. /\ size \in Nat /\ mValidSize \in Nat /\ mChannels \in Nat /\ mValidSize <= size
      /\ level \in Samples
  BY <1>1, Given, AudioFields DEF Sound
<1>3. Within(0 .. mChannels - 1, 0, n)
  BY <1>2 DEF Within
<1>4. mBuffer' = StoredBy(0 .. mChannels - 1, 0, n, v)
  <2> DEFINE Value(old) == Combined(multiplies, old, level)
  <2>1. ASSUME NEW k \in DOMAIN mBuffer, NEW into, into = Into(k, 0 .. mChannels - 1, 0, n),
               into # {}
        PROVE  v[Last(into)][k - get(Last(into)) - 0] = Value(mBuffer[k])
    <3> DEFINE c == Last(into)
               i == k - get(c) - 0
    <3>1. c \in 0 .. mChannels - 1 /\ i \in 0 .. n - 1 /\ get(c) + 0 + i = k
      BY <1>3, <2>1, LastIsIn
    <3> HIDE DEF c, i, n
    <3>2. v[c][i] = Combined(multiplies, mBuffer[get(c) + 0 + i], level)
      BY <3>1
    <3>3. v[c][i] = Value(mBuffer[k])
      BY <3>1, <3>2
    <3> QED BY <3>3 DEF c, i
  <2>2. mBuffer' = Stored(0 .. mChannels - 1, 0, n, LAMBDA c, i, old : Value(old))
    <3>1. CASE multiplies
      <4>1. \A s, t : Product2(s, t) = Combined(multiplies, s, t)
        BY <3>1 DEF Product2, Combined, P!Product
      <4>2. mBuffer' = Stored(0 .. mChannels - 1, 0, n, LAMBDA c, i, old : Product2(old, level))
        BY <3>1, Zenon DEF MultiplyLevel, Levelled
      <4> QED BY <4>1, <4>2, Zenon DEF Stored
    <3>2. CASE ~multiplies
      <4>1. \A s, t : Sum2(s, t) = Combined(multiplies, s, t)
        BY <3>2 DEF Sum2, Combined, P!Sum
      <4>2. mBuffer' = Stored(0 .. mChannels - 1, 0, n, LAMBDA c, i, old : Sum2(old, level))
        BY <3>2, Zenon DEF AddLevel, Levelled
      <4> QED BY <4>1, <4>2, Zenon DEF Stored
    <3> QED BY <3>1, <3>2
  <2> HIDE DEF v, n, Value
  <2> QED BY <2>1, <2>2, Zenon DEF Stored, StoredBy, Into, Last
<1> HIDE DEF n
<1>5. \A c \in 0 .. mChannels - 1 : \A i \in 0 .. n - 1 :
         v[c][i] = Combined(multiplies, mBuffer[get(c) + 0 + i], level)
  OBVIOUS
<1> HIDE DEF v
<1>6. ASSUME NEW c \in 0 .. mChannels - 1, NEW i \in 0 .. size - 1
      PROVE  get(c) + 0 + i = get(c) + i /\ mBuffer[get(c) + i] \in Samples
  BY SampleIs
<1>7. Holds(v, 0 .. mChannels - 1, n)
  <2> SUFFICES ASSUME NEW c \in 0 .. mChannels - 1, NEW i \in 0 .. n - 1
               PROVE  v[c][i] \in Samples
    BY DEF Holds
  <2>1. i \in 0 .. size - 1
    BY <1>2 DEF n
  <2> QED BY <1>2, <1>5, <1>6, <2>1, CombinedIs
<1>8. /\ DOMAIN part = 0 .. mChannels - 1
      /\ \A c \in 0 .. mChannels - 1 : 
            DOMAIN part[c] = 0 .. size - 1 /\ \A i \in 0 .. size - 1 : part[c][i] = level
  BY DEF P!Channels, planes
<1> HIDE DEF part
<1>9. \A c \in 0 .. mChannels - 1 :
         /\ DOMAIN P!Heard(part, 0, 0)[c] = {j \in 0 .. size - 1 : 0 + j < mValidSize}
         /\ \A j \in 0 .. size - 1 : 0 + j < mValidSize => P!Heard(part, 0, 0)[c][j] = level
  <2>1. ~(0 > 0)
    OBVIOUS
  <2>2. P!Heard(part, 0, 0)
          = [c \in DOMAIN part |->
               [i \in {j \in DOMAIN part[c] : 0 + j < mValidSize} |-> part[c][i]]]
    BY <2>1 DEF P!Heard
  <2> SUFFICES ASSUME NEW c \in 0 .. mChannels - 1
               PROVE  /\ DOMAIN P!Heard(part, 0, 0)[c] = {j \in 0 .. size - 1 : 0 + j < mValidSize}
                      /\ \A j \in 0 .. size - 1 :
                            0 + j < mValidSize => P!Heard(part, 0, 0)[c][j] = level
    BY Zenon
  <2> DEFINE heard == P!Heard(part, 0, 0)[c]
  <2>3. heard = [i \in {j \in 0 .. size - 1 : 0 + j < mValidSize} |-> part[c][i]]
    BY <1>8, <2>2
  <2> HIDE DEF heard
  <2>4. /\ DOMAIN heard = {j \in 0 .. size - 1 : 0 + j < mValidSize}
        /\ \A j \in 0 .. size - 1 : 0 + j < mValidSize => heard[j] = level
    BY <1>8, <2>3
  <2> QED BY <2>4 DEF heard
<1>10. Mixes(0 .. mChannels - 1, 0, n, v, part, 0, multiplies)
  <2> SUFFICES ASSUME NEW c \in 0 .. mChannels - 1, NEW i \in 0 .. size - 1
               PROVE  /\ c \in 0 .. mChannels - 1 /\ i - 0 \in 0 .. n - 1
                         <=> c \in DOMAIN part /\ i - 0 \in DOMAIN P!Heard(part, 0, 0)[c]
                      /\ c \in 0 .. mChannels - 1 /\ i - 0 \in 0 .. n - 1
                         => v[c][i - 0] = Combined(multiplies, planes[c][i], P!Heard(part, 0, 0)[c][i - 0])
    BY DEF Mixes
  <2>1. i - 0 = i /\ 0 + i = i /\ (i \in 0 .. n - 1 <=> i < mValidSize)
    BY <1>2 DEF n
  <2>2. planes[c][i] = mBuffer[get(c) + 0 + i]
    BY <1>6, SampleIs
  <2>3. i \in 0 .. n - 1 <=> i \in DOMAIN P!Heard(part, 0, 0)[c]
    BY <1>9, <2>1
  <2>4. i \in 0 .. n - 1 => v[c][i] = Combined(multiplies, planes[c][i], P!Heard(part, 0, 0)[c][i])
    BY <1>5, <1>9, <2>1, <2>2
  <2> QED BY <1>8, <2>1, <2>3, <2>4
<1>11. AudioTypeOK' /\ size' = size /\ planes' = Over(0 .. mChannels - 1, 0, n, v)
  BY <1>1, <1>2, <1>3, <1>4, <1>7, StoreKeeps
<1>12. P!Mix(part, 0, 0)
  BY <1>1, <1>10, <1>11, StoreMixes
<1> QED BY <1>11, <1>12 DEF part, P!PlanesNext

-----------------------------------------------------------------------------
(***************************************************************************)
(* The theorems.                                                           *)
(***************************************************************************)
\* A buffer begins without channels.
LEMMA AudioInit ==
    ASSUME Init
    PROVE  AudioTypeOK /\ P!PlanesInit
<1>1. 0 .. 0 - 1 = {} 
  OBVIOUS
<1>2. /\ mBuffer = [k \in {} |-> 0] /\ mValidSize = 0 /\ mChannels = 0 /\ access = "own"
      /\ asked = 0
      /\ asked = 0
  BY <1>1 DEF Init, Silence
<1>3. DOMAIN mBuffer = {}
  BY <1>2
<1>4. Cardinality({}) = 0
  BY FS_EmptySet
<1>5. Cells = 0 /\ size = 0
  BY <1>3, <1>4 DEF Cells, size
<1>6. mBuffer \in [{} -> Samples]
  BY <1>2
<1>7. 0 * 0 = 0 /\ 0 % Align = 0 /\ 0 \in 0 .. MaxCells /\ 0 \in 0 .. MaxChannels
  BY Given
<1>8. AudioTypeOK
  BY <1>1, <1>2, <1>5, <1>6, <1>7 DEF AudioTypeOK, Flat, Sound
<1>9. planes = P!Silent(0, 0)
  <2>1. planes = [c \in {} |-> [i \in 0 .. size - 1 |-> mBuffer[get(c) + i]]]
    BY <1>1, <1>2 DEF planes
  <2>2. P!Silent(0, 0) = [c \in {} |-> [i \in 0 .. 0 - 1 |-> 0]]
    BY <1>1 DEF P!Silent
  <2> QED BY <2>1, <2>2
<1> QED BY <1>2, <1>5, <1>8, <1>9 DEF P!PlanesInit

\* Every call keeps the type and is one of Planes, or changes nothing of it.
LEMMA AudioNext ==
    ASSUME AudioTypeOK, [Next]_vars
    PROVE  AudioTypeOK' /\ (Careful => [P!PlanesNext]_(P!planesVars))
<1> DEFINE Implements == AudioTypeOK' /\ (Careful => P!PlanesCall)
<1>1. ASSUME NEW line \in Lines, NEW n \in Lengths, NEW c \in 0 .. MaxChannels, NEW d \in Offsets,
             SetLine(line, n, c, d)
      PROVE  Implements
  BY <1>1, SetLineImplements
<1>2. ASSUME NEW a \in Sheets, NEW n \in Lengths, NEW chan \in 0 .. MaxChannels,
             NEW s \in Offsets, NEW d \in Offsets, SetSheet(a, n, chan, s, d)
      PROVE  Implements
  BY <1>2, SetSheetImplements
<1>3. ASSUME NEW b \in Others, NEW n \in Lengths, NEW s \in Offsets, NEW d \in Offsets,
             SetOther(b, n, s, d)
      PROVE  Implements
  BY <1>3, SetOtherImplements
<1>4. ASSUME NEW v \in Levels, NEW n \in Lengths, NEW d \in Offsets, SetLevel(v, n, d)
      PROVE  Implements
  BY <1>4, SetLevelImplements
<1>5. ASSUME NEW line \in Lines, NEW n \in Lengths, NEW chan \in 1 .. MaxChannels + 1,
             NEW s \in Offsets, NEW d \in Offsets, SetFromInterleaved(line, n, chan, s, d)
      PROVE  Implements
  BY <1>5, SetFromInterleavedImplements
<1>6. ASSUME NEW n \in Lengths, NEW chan \in 0 .. MaxChannels, Resize(n, chan)
      PROVE  Implements
  BY <1>6, ResizeImplements
<1>7. ASSUME NEW n \in Lengths, ResizeLength(n)
      PROVE  Implements
  BY <1>7, ResizeLengthImplements
<1>8. ASSUME NEW b \in Others, ResizeTo(b) \/ Clone(b) \/ MoveFrom(b)
      PROVE  Implements
  BY <1>8, ResizeToImplements, CloneImplements, MoveFromImplements
<1>9. ASSUME NEW line \in Lines, NEW n \in Lengths \ {0}, NEW chan \in 1 .. MaxChannels,
              NEW kind \in {"lent", "const"}, Inject(line.data, n, chan, kind)
       PROVE  Implements
  BY <1>9, InjectImplements
<1>10. ASSUME NEW n \in Lengths, SetValidSize(n)
       PROVE  Implements
  BY <1>10, SetValidSizeImplements
<1>11. ASSUME NEW v \in Levels, AddLevel(v) \/ MultiplyLevel(v), asked' = 0
       PROVE  AudioTypeOK' /\ P!PlanesNext
  <2>1. CASE AddLevel(v)
    BY <1>11, <2>1, LevelledImplements
  <2>2. CASE MultiplyLevel(v)
    BY <1>11, <2>2, LevelledImplements
  <2> QED BY <1>11, <2>1, <2>2
<1>12. ASSUME NEW b \in Others, NEW n \in Lengths, NEW s \in Offsets, NEW d \in Offsets,
              Add(b, n, s, d) \/ Multiply(b, n, s, d)
       PROVE  AudioTypeOK' /\ (Careful => P!PlanesNext)
  <2>1. CASE Add(b, n, s, d)
    BY <2>1, MixedImplements
  <2>2. CASE Multiply(b, n, s, d)
    BY <2>2, MixedImplements
  <2> QED BY <1>12, <2>1, <2>2
<1> HIDE DEF Implements
<1>13. ASSUME Call, asked' = 0
       PROVE  Implements \/ (AudioTypeOK' /\ P!PlanesNext)
  BY <1>1, <1>2, <1>3, <1>4, <1>5, <1>6, <1>7, <1>8, <1>9, <1>10, <1>11, <1>13, Zenon DEF Call
<1>14. CASE Call /\ asked' = 0
  BY <1>13, <1>14 DEF Implements, P!PlanesNext
<1>15. CASE MoveAway
  BY <1>15, MoveAwayImplements
<1>16. CASE \E b \in Others, n \in Lengths, s \in Offsets, d \in Offsets :
              Add(b, n, s, d) \/ Multiply(b, n, s, d)
  BY <1>12, <1>16, Zenon
<1>17. CASE UNCHANGED vars
  BY <1>17, StandingStill DEF vars, P!planesVars
<1> QED BY <1>14, <1>15, <1>16, <1>17 DEF Next

\* The memory is divided among the channels without a rest, channels of the
\* buffer's own memory are padded, and no more is counted as valid than there
\* is memory for, after every sequence of calls.
THEOREM AudioTypeInvariant == Spec => []AudioTypeOK
<1>1. Init => AudioTypeOK
  BY AudioInit
<1>2. AudioTypeOK /\ [Next]_vars => AudioTypeOK'
  BY AudioNext
<1> QED BY <1>1, <1>2, PTL DEF Spec

\* Every call does to the channels what Planes says: it changes the samples it
\* is about, in the channels it is about, and what does not fit is lost.
THEOREM AudioImplementsPlanes == ASSUME Careful PROVE Spec => ImplementsPlanes
<1>1. Init => P!PlanesInit
  BY AudioInit
<1>2. AudioTypeOK /\ [Next]_vars => [P!PlanesNext]_(P!planesVars)
  BY AudioNext
<1> QED BY <1>1, <1>2, AudioTypeInvariant, PTL DEF Spec, ImplementsPlanes, P!PlanesSpec

-----------------------------------------------------------------------------
\* What is converted to integers and back is what it was: different samples
\* are different integers, as there are no more samples than integers.
LEMMA RoundTrip ==
    ASSUME NEW scaled \in BOOLEAN, NEW s \in Samples
    PROVE  Incoming(scaled, Outgoing(scaled, s)) = s
<1>1. /\ FromInt \in [Samples -> Samples] /\ ToInt \in [Samples -> Samples]
      /\ \A t \in Samples : ToInt[FromInt[t]] = t
  BY AudioBufferAssumption
<1>2. IsFiniteSet(Samples)
  <2>1. 0 \in Int /\ SampleMod - 1 \in Int
    BY Given
  <2> QED BY <2>1, FS_Interval DEF Samples
<1>3. ToInt \in Surjection(Samples, Samples)
  BY <1>1 DEF Surjection
<1>4. ToInt \in Injection(Samples, Samples)
  BY <1>2, <1>3, FS_SurjSameCardinalityImpliesInj
<1>5. FromInt[ToInt[s]] = s
  BY <1>1, <1>4 DEF Injection, IsInjective
<1> QED BY <1>5 DEF Incoming, Outgoing

\* Places counted from an offset on.
LEMMA IntervalIs ==
    ASSUME NEW offset \in Nat, NEW m \in Nat
    PROVE  /\ {i - offset : i \in offset .. offset + m - 1} = 0 .. m - 1
           /\ Cardinality(offset .. offset + m - 1) = m
<1>1. Cardinality(offset .. offset + m - 1) = m
  <2>1. offset \in Int /\ offset + m - 1 \in Int
    OBVIOUS
  <2>2. Cardinality(offset .. offset + m - 1)
          = IF offset > offset + m - 1 THEN 0 ELSE (offset + m - 1) - offset + 1
    BY <2>1, FS_Interval
  <2> QED BY <2>2
<1>2. {i - offset : i \in offset .. offset + m - 1} = 0 .. m - 1
  <2>1. ASSUME NEW i \in offset .. offset + m - 1 PROVE i - offset \in 0 .. m - 1
    OBVIOUS
  <2>2. ASSUME NEW j \in 0 .. m - 1 PROVE \E i \in offset .. offset + m - 1 : j = i - offset
    <3>1. offset + j \in offset .. offset + m - 1 /\ j = (offset + j) - offset
      OBVIOUS
    <3> QED BY <3>1
  <2> QED BY <2>1, <2>2
<1> QED BY <1>1, <1>2

\* put() finds as many samples as are valid from the offset on.
LEMMA PresentIs ==
    ASSUME AudioTypeOK, NEW n \in Nat, NEW offset \in 0 .. mValidSize, NEW heard,
           heard = {i \in 0 .. mValidSize - 1 : offset <= i /\ (n > 0 => i < offset + n)}
    PROVE  /\ Present(n, offset) \in Nat /\ offset + Present(n, offset) <= mValidSize
           /\ {i - offset : i \in heard} = 0 .. Present(n, offset) - 1
           /\ Cardinality(heard) = Present(n, offset)
<1> DEFINE m == Present(n, offset)
<1>1. mValidSize \in Nat /\ offset \in Nat
  BY AudioFields
<1>2. /\ m \in Nat /\ offset + m <= mValidSize
      /\ \A i \in 0 .. mValidSize - 1 : offset <= i /\ (n > 0 => i < offset + n) 
                                        <=> i \in offset .. offset + m - 1
  BY <1>1 DEF Present, Lesser
<1> HIDE DEF m
<1>3. heard = offset .. offset + m - 1
  BY <1>1, <1>2
<1> QED BY <1>1, <1>2, <1>3, IntervalIs DEF m

\* The places of an interleaved array are all of its places, and each of them
\* is that of one sample.
LEMMA PlacesAre ==
    ASSUME NEW chans \in Nat, NEW m \in Nat
    PROVE  /\ {p[1] + p[2] * chans : p \in (0 .. chans - 1) \X (0 .. m - 1)} = 0 .. chans * m - 1
           /\ \A c \in 0 .. chans - 1 : \A i \in 0 .. m - 1 :
                 /\ c + i * chans \in 0 .. chans * m - 1
                 /\ (CHOOSE p \in (0 .. chans - 1) \X (0 .. m - 1) :
                        p[1] + p[2] * chans = c + i * chans) = <<c, i>>
<1>1. m * chans = chans * m /\ m * chans \in Nat
  BY Products
<1>2. ASSUME NEW c \in 0 .. chans - 1, NEW i \in 0 .. m - 1
      PROVE  c + i * chans \in 0 .. chans * m - 1 /\ c + i * chans = i * chans + c
  <2>1. i * chans + c \in 0 .. m * chans - 1 /\ i * chans \in Nat
    BY Address
  <2> QED BY <1>1, <2>1
<1>3. ASSUME NEW j \in 0 .. chans * m - 1
      PROVE  \E c \in 0 .. chans - 1, i \in 0 .. m - 1 : j = c + i * chans
  <2>1. j \in 0 .. m * chans - 1
    BY <1>1
  <2>2. /\ j \div chans \in 0 .. m - 1 /\ j % chans \in 0 .. chans - 1
        /\ j = (j \div chans) * chans + (j % chans)
    BY <2>1, AddressOf
  <2> DEFINE i == j \div chans
             c == j % chans
  <2> HIDE DEF i, c
  <2>3. i \in 0 .. m - 1 /\ c \in 0 .. chans - 1 /\ j = i * chans + c
    BY <2>2 DEF i, c
  <2>4. j = c + i * chans
    BY <1>2, <2>3
  <2> QED BY <2>3, <2>4
<1>4. {p[1] + p[2] * chans : p \in (0 .. chans - 1) \X (0 .. m - 1)} = 0 .. chans * m - 1
  <2>1. ASSUME NEW p \in (0 .. chans - 1) \X (0 .. m - 1)
        PROVE  p[1] + p[2] * chans \in 0 .. chans * m - 1
    <3>1. p[1] \in 0 .. chans - 1 /\ p[2] \in 0 .. m - 1
      BY <2>1
    <3> QED BY <1>2, <3>1
  <2>2. ASSUME NEW j \in 0 .. chans * m - 1
        PROVE  \E p \in (0 .. chans - 1) \X (0 .. m - 1) : j = p[1] + p[2] * chans
    <3>1. PICK c \in 0 .. chans - 1, i \in 0 .. m - 1 : j = c + i * chans
      BY <1>3
    <3>2. <<c, i>> \in (0 .. chans - 1) \X (0 .. m - 1) /\ j = <<c, i>>[1] + <<c, i>>[2] * chans
      BY <3>1
    <3> QED BY <3>2
  <2> QED BY <2>1, <2>2
<1>5. ASSUME NEW c \in 0 .. chans - 1, NEW i \in 0 .. m - 1
      PROVE  (CHOOSE p \in (0 .. chans - 1) \X (0 .. m - 1) : p[1] + p[2] * chans = c + i * chans)
               = <<c, i>>
  <2> DEFINE S == (0 .. chans - 1) \X (0 .. m - 1)
             Fits(p) == p[1] + p[2] * chans = c + i * chans
  <2>1. <<c, i>> \in S /\ Fits(<<c, i>>)
    OBVIOUS
  <2>2. ASSUME NEW p \in S, Fits(p) PROVE p = <<c, i>>
    <3>1. /\ p[1] \in 0 .. chans - 1 /\ p[2] \in 0 .. m - 1 /\ p = <<p[1], p[2]>>
          /\ p[1] + p[2] * chans = c + i * chans
      BY <2>2
    <3> DEFINE d == p[1]
               j == p[2]
    <3> HIDE DEF d, j
    <3>2. d \in 0 .. chans - 1 /\ j \in 0 .. m - 1 /\ d + j * chans = c + i * chans
      BY <3>1 DEF d, j
    <3>3. d + j * chans = j * chans + d /\ c + i * chans = i * chans + c
      BY <1>2, <3>2
    <3>4. j \in Nat /\ i \in Nat /\ j * chans + d = i * chans + c
      BY <3>2, <3>3
    <3>5. j = i /\ d = c
      BY <3>2, <3>4, AddressIsOne
    <3> QED BY <3>1, <3>5 DEF d, j
  <2> HIDE DEF S, Fits
  <2>3. (CHOOSE p \in S : Fits(p)) = <<c, i>>
    BY <2>1, <2>2
  <2> QED BY <2>3 DEF S, Fits
<1>6. \A c \in 0 .. chans - 1 : \A i \in 0 .. m - 1 :
         /\ c + i * chans \in 0 .. chans * m - 1
         /\ (CHOOSE p \in (0 .. chans - 1) \X (0 .. m - 1) : p[1] + p[2] * chans = c + i * chans)
              = <<c, i>>
  BY <1>2, <1>5, Zenon
<1> QED BY <1>4, <1>6, Zenon

-----------------------------------------------------------------------------
\* What putInterleaved() leaves: m frames of chans channels.
Frames(out, chans, m, offset, scaled) ==
    /\ chans \in Nat /\ chans <= mChannels
    /\ DOMAIN out.data = 0 .. chans * m - 1
    /\ \A c \in 0 .. chans - 1 : \A i \in 0 .. m - 1 :
          out.data[c + i * chans] = Outgoing(scaled, mBuffer[get(c) + offset + i])
    /\ chans = mChannels => out.frames = m

\* putInterleaved() leaves the frames that are present.
LEMMA InterleavedIs ==
    ASSUME AudioTypeOK, 0 < mChannels, NEW n \in Nat, NEW offset \in 0 .. mValidSize,
           NEW chan \in Nat, NEW scaled \in BOOLEAN, NEW chans, chans = Interleaves(chan),
           NEW m \in Nat, m = Present(n, offset)
    PROVE  Frames(PutInterleaved(n, offset, chan, scaled), chans, m, offset, scaled)
<1> DEFINE out == PutInterleaved(n, offset, chan, scaled)
           all == (0 .. chans - 1) \X (0 .. m - 1)
           from(j) == CHOOSE p \in all : p[1] + p[2] * chans = j
<1>1. mChannels \in Nat
  BY AudioFields
<1>2. chans \in Nat /\ chans <= mChannels
  BY <1>1 DEF Interleaves, Lesser
<1>3. /\ out.data = [j \in {p[1] + p[2] * chans : p \in all} |->
                       Outgoing(scaled, mBuffer[get(from(j)[1]) + offset + from(j)[2]])]
      /\ out.frames = (chans * m) \div mChannels
  BY DEF PutInterleaved
<1>4. /\ {p[1] + p[2] * chans : p \in all} = 0 .. chans * m - 1
      /\ \A c \in 0 .. chans - 1 : \A i \in 0 .. m - 1 :
            c + i * chans \in 0 .. chans * m - 1 /\ from(c + i * chans) = <<c, i>>
  BY <1>2, PlacesAre
<1> HIDE DEF out, all, from
<1>5. DOMAIN out.data = 0 .. chans * m - 1
  BY <1>3, <1>4
<1>6. ASSUME NEW c \in 0 .. chans - 1, NEW i \in 0 .. m - 1
      PROVE  out.data[c + i * chans] = Outgoing(scaled, mBuffer[get(c) + offset + i])
  <2> DEFINE j == c + i * chans
  <2>1. j \in 0 .. chans * m - 1 /\ from(j) = <<c, i>>
    BY <1>4
  <2>2. from(j)[1] = c /\ from(j)[2] = i
    BY <2>1
  <2> HIDE DEF j
  <2>3. out.data[j] = Outgoing(scaled, mBuffer[get(from(j)[1]) + offset + from(j)[2]])
    BY <1>3, <1>4, <2>1
  <2> QED BY <2>2, <2>3 DEF j
<1>7. chans = mChannels => out.frames = m
  BY <1>1, <1>3, Quotient
<1> QED BY <1>2, <1>5, <1>6, <1>7, Zenon DEF out, Frames

\* Setting those frames again changes nothing.
LEMMA DeinterleavedIs ==
    ASSUME AudioTypeOK, mValidSize <= size,
           NEW offset \in Nat, NEW m \in Nat, offset + m <= mValidSize,
           NEW scaled \in BOOLEAN, NEW data,
           \A c \in 0 .. mChannels - 1 : \A i \in 0 .. m - 1 :
               data[c + i * mChannels] = Outgoing(scaled, mBuffer[get(c) + offset + i])
    PROVE  Deinterleaved([scaled |-> scaled, data |-> data], m, mChannels, 0, offset) = mBuffer
<1> DEFINE line == [scaled |-> scaled, data |-> data]
           chans == Lesser(mChannels, mChannels)
           n == Room(m, offset)
           Value(c, i) == Incoming(line.scaled, line.data[c + (0 + i) * mChannels])
<1>1. mChannels \in Nat /\ size \in Nat /\ mValidSize \in Nat /\ mValidSize <= size
  BY AudioFields
<1>2. chans = mChannels /\ n = m
  BY <1>1 DEF Lesser, Room
<1>3. Within(0 .. chans - 1, offset, n)
  BY <1>1, <1>2 DEF Within
<1>4. ASSUME NEW k \in DOMAIN mBuffer, NEW into, into = Into(k, 0 .. chans - 1, offset, n), into # {}
      PROVE  Value(Last(into), k - get(Last(into)) - offset) = mBuffer[k]
  <2>1. Last(into) \in 0 .. chans - 1
    BY <1>3, <1>4, LastIsIn
  <2>2. k - get(Last(into)) - offset \in 0 .. n - 1
    BY <1>3, <1>4, LastIsIn
  <2>3. get(Last(into)) + offset + (k - get(Last(into)) - offset) = k
    BY <1>3, <1>4, LastIsIn
  <2> DEFINE c == Last(into)
             i == k - get(c) - offset
  <2>4. c \in 0 .. mChannels - 1 /\ i \in 0 .. m - 1 /\ get(c) + offset + i = k
    BY <1>2, <2>1, <2>2, <2>3
  <2> HIDE DEF c, i
  <2>5. 0 + i = i
    BY <2>4
  <2>6. data[c + i * mChannels] = Outgoing(scaled, mBuffer[k])
    BY <2>4
  <2>7. mBuffer[k] \in Samples
    BY AudioFields
  <2>8. Value(c, i) = Incoming(scaled, Outgoing(scaled, mBuffer[k]))
    BY <2>5, <2>6
  <2>9. Value(c, i) = mBuffer[k]
    BY <2>7, <2>8, RoundTrip
  <2> HIDE DEF Value
  <2> QED BY <2>9 DEF c, i
<1>5. Deinterleaved(line, m, mChannels, 0, offset)
        = Stored(0 .. chans - 1, offset, n, LAMBDA c, i, old : Value(c, i))
  BY Zenon DEF Deinterleaved
<1> HIDE DEF Value, chans, n
<1>6. Stored(0 .. chans - 1, offset, n, LAMBDA c, i, old : Value(c, i))
        = [k \in DOMAIN mBuffer |-> mBuffer[k]]
  BY <1>4, Zenon DEF Stored, Into, Last
<1>7. mBuffer = [k \in DOMAIN mBuffer |-> mBuffer[k]]
  BY AudioFields
<1> QED BY <1>5, <1>6, <1>7, Zenon DEF line
-----------------------------------------------------------------------------
\* What put() and putInterleaved() do follows from the type alone.
LEMMA Delivers ==
    ASSUME ~ResizesFail, ~CountsNarrow, AudioTypeOK
    PROVE  PutsDeliver
<1> SUFFICES ASSUME mChannels > 0, NEW n \in Lengths, NEW offset \in Offsets \cap 0 .. mValidSize,
                    NEW scaled \in BOOLEAN
             PROVE  LET heard == {i \in 0 .. mValidSize - 1 : offset <= i /\ (n > 0 => i < offset + n)}
                        whole(c) == [j \in {i - offset : i \in heard} |->
                                       Outgoing(scaled, planes[c][offset + j])]
                        frames == Cardinality(heard)
                    IN  /\ \A chan \in 0 .. mChannels :
                              PutSheet(n, chan, offset, scaled)
                                = [c \in 0 .. (IF chan = 0 THEN mChannels ELSE chan) - 1 |-> whole(c)]
                        /\ \A chan \in 0 .. MaxChannels + 1 :
                              LET chans == IF chan = 0 THEN mChannels ELSE Lesser(chan, mChannels)
                                  out == PutInterleaved(n, offset, chan, scaled)
                              IN  /\ DOMAIN out.data = 0 .. chans * frames - 1
                                  /\ \A c \in 0 .. chans - 1 : \A i \in 0 .. frames - 1 :
                                        out.data[c + i * chans] = whole(c)[i]
                                  /\ chans = mChannels \/ CountsNarrow => out.frames = frames
                                  /\ chans = mChannels =>
                                        Deinterleaved([scaled |-> scaled, data |-> out.data],
                                                      frames, chans, 0, offset) = mBuffer
  BY Zenon DEF PutsDeliver
<1> DEFINE heard == {i \in 0 .. mValidSize - 1 : offset <= i /\ (n > 0 => i < offset + n)}
           whole(c) == [j \in {i - offset : i \in heard} |-> Outgoing(scaled, planes[c][offset + j])]
           m == Present(n, offset)
<1>1. /\ n \in Nat /\ offset \in Nat /\ offset \in 0 .. mValidSize /\ mChannels \in Nat
      /\ size \in Nat /\ mValidSize \in Nat /\ mValidSize <= size
  BY Given, AudioFields
<1>2. /\ m \in Nat /\ offset + m <= mValidSize
      /\ {i - offset : i \in heard} = 0 .. m - 1 /\ Cardinality(heard) = m
  <2> DEFINE h == heard
  <2>1. h = {i \in 0 .. mValidSize - 1 : offset <= i /\ (n > 0 => i < offset + n)}
    OBVIOUS
  <2> HIDE DEF h
  <2>2. /\ m \in Nat /\ offset + m <= mValidSize
        /\ {i - offset : i \in h} = 0 .. m - 1 /\ Cardinality(h) = m
    BY <1>1, <2>1, PresentIs
  <2> QED BY <2>2 DEF h
<1> HIDE DEF heard, m
<1>3. ASSUME NEW c \in 0 .. mChannels - 1
      PROVE  /\ whole(c) = [i \in 0 .. m - 1 |-> Outgoing(scaled, mBuffer[get(c) + offset + i])]
             /\ PutLine(n, c, offset, scaled) = whole(c)
  <2>1. ASSUME NEW i \in 0 .. m - 1
        PROVE  planes[c][offset + i] = mBuffer[get(c) + offset + i]
    <3>1. offset + i \in 0 .. size - 1
      BY <1>1, <1>2
    <3>2. get(c) \in Nat /\ planes[c][offset + i] = mBuffer[get(c) + (offset + i)]
      BY <3>1, SampleIs
    <3>3. get(c) + (offset + i) = get(c) + offset + i
      BY <1>1, <3>2
    <3> QED BY <3>2, <3>3
  <2>2. whole(c) = [i \in 0 .. m - 1 |-> Outgoing(scaled, mBuffer[get(c) + offset + i])]
    BY <1>2, <2>1
  <2>3. ~(mChannels <= c)
    BY <1>1
  <2>4. PutLine(n, c, offset, scaled)
          = [i \in 0 .. m - 1 |-> Outgoing(scaled, mBuffer[get(c) + offset + i])]
    BY <2>3 DEF PutLine, m
  <2> HIDE DEF whole
  <2> QED BY <2>2, <2>4
<1>4. ASSUME NEW c \in 0 .. mChannels - 1, NEW i \in 0 .. m - 1
      PROVE  whole(c)[i] = Outgoing(scaled, mBuffer[get(c) + offset + i])
  <2> HIDE DEF whole
  <2> QED BY <1>3
<1> HIDE DEF whole
<1>5. ASSUME NEW chan \in 0 .. mChannels
      PROVE  PutSheet(n, chan, offset, scaled)
               = [c \in 0 .. (IF chan = 0 THEN mChannels ELSE chan) - 1 |-> whole(c)]
  <2> DEFINE all == IF chan = 0 THEN mChannels ELSE chan
  <2>1. \A c \in 0 .. all - 1 : c \in 0 .. mChannels - 1
    BY <1>1
  <2> HIDE DEF all
  <2>2. \A c \in 0 .. all - 1 : PutLine(n, c, offset, scaled) = whole(c)
    BY <1>3, <2>1
  <2> QED BY <2>2 DEF PutSheet, all
<1> DEFINE Right(chans, out) ==
             /\ DOMAIN out.data = 0 .. chans * m - 1
             /\ \A c \in 0 .. chans - 1 : \A i \in 0 .. m - 1 : out.data[c + i * chans] = whole(c)[i]
             /\ chans = mChannels \/ CountsNarrow => out.frames = m
             /\ chans = mChannels =>
                   Deinterleaved([scaled |-> scaled, data |-> out.data], m, chans, 0, offset)
                     = mBuffer
<1>6. ASSUME NEW chan \in 0 .. MaxChannels + 1, mChannels > 0, NEW chans, chans = Interleaves(chan),
             NEW out, out = PutInterleaved(n, offset, chan, scaled)
      PROVE  Right(chans, out)
  <2>1. chan \in Nat /\ 0 < mChannels /\ m = Present(n, offset)
    BY <1>1, <1>6 DEF m
  <2>2. /\ chans \in Nat /\ chans <= mChannels
        /\ DOMAIN out.data = 0 .. chans * m - 1
        /\ \A c \in 0 .. chans - 1 : \A i \in 0 .. m - 1 :
              out.data[c + i * chans] = Outgoing(scaled, mBuffer[get(c) + offset + i])
        /\ chans = mChannels => out.frames = m
    <3>1. Frames(out, chans, m, offset, scaled)
      BY <1>1, <1>2, <1>6, <2>1, InterleavedIs
    <3> QED BY <3>1 DEF Frames
  <2>3. \A c \in 0 .. chans - 1 : c \in 0 .. mChannels - 1
    BY <1>1, <2>2
  <2>4. \A c \in 0 .. chans - 1 : \A i \in 0 .. m - 1 : out.data[c + i * chans] = whole(c)[i]
    BY <1>4, <2>2, <2>3, Zenon
  <2>5. chans = mChannels =>
          Deinterleaved([scaled |-> scaled, data |-> out.data], m, chans, 0, offset) = mBuffer
    <3> SUFFICES ASSUME chans = mChannels
                 PROVE  Deinterleaved([scaled |-> scaled, data |-> out.data], m, mChannels, 0, offset)
                          = mBuffer
      BY Zenon
    <3> DEFINE d == out.data
    <3>1. \A c \in 0 .. mChannels - 1 : \A i \in 0 .. m - 1 :
             d[c + i * mChannels] = Outgoing(scaled, mBuffer[get(c) + offset + i])
      BY <2>2, Zenon
    <3> HIDE DEF d
    <3>2. Deinterleaved([scaled |-> scaled, data |-> d], m, mChannels, 0, offset) = mBuffer
      BY <1>1, <1>2, <3>1, DeinterleavedIs
    <3> QED BY <3>2 DEF d
  <2> QED BY <2>2, <2>4, <2>5, Zenon
<1> HIDE DEF Right
<1>7. ASSUME NEW chan \in 0 .. MaxChannels + 1
      PROVE  Right(Interleaves(chan), PutInterleaved(n, offset, chan, scaled))
  BY <1>6
<1> QED BY <1>2, <1>5, <1>7, Zenon DEF heard, whole, Right, Interleaves

\* put() and putInterleaved() deliver the valid samples of the channels, as
\* many as they say, and what is set from an interleaved array again is what
\* was there.
THEOREM AudioPutsDeliver == ASSUME ~ResizesFail, ~CountsNarrow PROVE Spec => []PutsDeliver
<1>1. AudioTypeOK => PutsDeliver
  BY Delivers
<1> QED BY <1>1, AudioTypeInvariant, PTL

=============================================================================
