-------------------------- MODULE IsoRangesProofs ---------------------------
(***************************************************************************)
(* Proofs for every deck, root, belief and payoff.  First about terminal   *)
(* values: the renamings of a board and the iso hands they make, and what  *)
(* the code of TerminalValues computes from iso hands, in terms of raw     *)
(* hands: the calculators give a hand the sum of what the hands against it *)
(* pay, on each runout; equities add up; and a runout is the average of    *)
(* the next card.  Then about ranges: no mapping below an accepted root is *)
(* refused, and solving over iso hands is solving over raw hands, whose    *)
(* reach is spread evenly over each iso hand (Spread).                     *)
(***************************************************************************)
EXTENDS IsoRanges, SumProofs

-----------------------------------------------------------------------------
(***************************************************************************)
(* Cards and suits.                                                        *)
(***************************************************************************)
LEMMA ProductStep ==
  ASSUME NEW g \in Nat \ {0}, NEW a \in Int, NEW b \in Int, a < b
  PROVE  a * g + g <= b * g
OBVIOUS

\* A number below a multiple of g and a rest is taken apart again.
LEMMA Apart ==
  ASSUME NEW g \in Nat \ {0}, NEW q \in Nat, NEW r \in 0 .. g - 1
  PROVE  (q * g + r) \div g = q /\ (q * g + r) % g = r /\ q * g + r \in Nat
<1> DEFINE x == q * g + r
<1>1. x \in Nat
  OBVIOUS
<1>2. /\ x \div g \in Nat /\ x % g \in 0 .. g - 1
      /\ x = (x \div g) * g + (x % g)
  BY <1>1
<1>3. ~(x \div g < q)
  BY <1>2, ProductStep
<1>4. ~(q < x \div g)
  BY <1>2, ProductStep
<1> QED BY <1>1, <1>2, <1>3, <1>4

SuitedCard(c, names) == (c \div NumSuits) * NumSuits + names[c % NumSuits]

LEMMA CardParts ==
  ASSUME NEW c \in Cards
  PROVE  /\ c \div NumSuits \in 0 .. NumRanks - 1 /\ c % NumSuits \in Suits
         /\ c = (c \div NumSuits) * NumSuits + (c % NumSuits)
<1>1. /\ NumRanks \in Nat \ {0} /\ NumSuits \in Nat \ {0} /\ c \in Nat
      /\ NumRanks * NumSuits \in Nat /\ c < NumRanks * NumSuits
  BY DeckAssumption DEF Cards
<1>2. /\ c \div NumSuits \in Nat /\ c % NumSuits \in 0 .. NumSuits - 1
      /\ c = (c \div NumSuits) * NumSuits + (c % NumSuits)
  BY <1>1
<1>3. c \div NumSuits < NumRanks
  <2>1. CASE c \div NumSuits >= NumRanks
    <3>1. (c \div NumSuits) * NumSuits >= NumRanks * NumSuits
      BY <1>1, <1>2, <2>1
    <3> QED BY <1>1, <1>2, <3>1
  <2> QED BY <1>1, <1>2, <2>1
<1> QED BY <1>1, <1>2, <1>3 DEF Suits

LEMMA CardOfParts ==
  ASSUME NEW q \in 0 .. NumRanks - 1, NEW r \in Suits
  PROVE  /\ q * NumSuits + r \in Cards
         /\ (q * NumSuits + r) \div NumSuits = q /\ (q * NumSuits + r) % NumSuits = r
<1>1. NumSuits \in Nat \ {0} /\ NumRanks \in Nat \ {0} /\ q \in Nat /\ r \in 0 .. NumSuits - 1
  BY DeckAssumption DEF Suits
<1>2. q * NumSuits + NumSuits <= NumRanks * NumSuits
  BY <1>1, ProductStep
<1>3. q * NumSuits + r \in 0 .. NumRanks * NumSuits - 1
  BY <1>1, <1>2, Apart
<1> QED BY <1>1, <1>3, Apart DEF Cards

\* A renaming keeps a card's rank and renames its suit.
LEMMA SuitedCardParts ==
  ASSUME NEW names \in [Suits -> Suits], NEW c \in Cards
  PROVE  /\ SuitedCard(c, names) \in Cards
         /\ SuitedCard(c, names) \div NumSuits = c \div NumSuits
         /\ SuitedCard(c, names) % NumSuits = names[c % NumSuits]
<1>1. c \div NumSuits \in 0 .. NumRanks - 1 /\ c % NumSuits \in Suits
  BY CardParts
<1>2. names[c % NumSuits] \in Suits
  BY <1>1
<1> QED BY <1>1, <1>2, CardOfParts DEF SuitedCard

\* What a renaming does to a card.
LEMMA RenamedIs ==
  ASSUME NEW cards, NEW names
  PROVE  Renamed(cards, names) = {SuitedCard(c, names) : c \in cards}
BY DEF Renamed, SuitedCard

-----------------------------------------------------------------------------
(***************************************************************************)
(* Renamings are a group.                                                  *)
(***************************************************************************)
Identity == [s \in Suits |-> s]
Composed(names, others) == [s \in Suits |-> names[others[s]]]

LEMMA BijectionType ==
  ASSUME NEW names \in Bijection(Suits, Suits)
  PROVE  /\ names \in [Suits -> Suits]
         /\ \A v, w \in Suits : names[v] = names[w] => v = w
         /\ \A w \in Suits : \E v \in Suits : names[v] = w
BY DEF Bijection, Injection, Surjection, IsInjective

LEMMA IsBijection ==
  ASSUME NEW names \in [Suits -> Suits],
         \A v, w \in Suits : names[v] = names[w] => v = w,
         \A w \in Suits : \E v \in Suits : names[v] = w
  PROVE  names \in Bijection(Suits, Suits)
BY DEF Bijection, Injection, Surjection, IsInjective

LEMMA IdentityRenames ==
  /\ Identity \in Bijection(Suits, Suits)
  /\ \A cards \in SUBSET Cards : Renamed(cards, Identity) = cards
<1>1. Identity \in Bijection(Suits, Suits)
  BY IsBijection DEF Identity
<1>2. ASSUME NEW c \in Cards
      PROVE  SuitedCard(c, Identity) = c
  BY <1>2, CardParts DEF SuitedCard, Identity
<1>3. ASSUME NEW cards \in SUBSET Cards
      PROVE  Renamed(cards, Identity) = cards
  <2>1. {SuitedCard(c, Identity) : c \in cards} = {c : c \in cards}
    BY <1>2
  <2> QED BY <2>1, RenamedIs
<1> QED BY <1>1, <1>3

LEMMA ComposedRenames ==
  ASSUME NEW names \in Bijection(Suits, Suits), NEW others \in Bijection(Suits, Suits)
  PROVE  /\ Composed(names, others) \in Bijection(Suits, Suits)
         /\ \A cards \in SUBSET Cards :
              Renamed(Renamed(cards, others), names) = Renamed(cards, Composed(names, others))
<1>1. names \in [Suits -> Suits] /\ others \in [Suits -> Suits]
  BY BijectionType
<1>2. Composed(names, others) \in Bijection(Suits, Suits)
  <2>1. Composed(names, others) \in [Suits -> Suits]
    BY <1>1 DEF Composed
  <2>2. ASSUME NEW w \in Suits
        PROVE  \E v \in Suits : Composed(names, others)[v] = w
    <3>1. PICK u \in Suits : names[u] = w
      BY BijectionType
    <3>2. PICK v \in Suits : others[v] = u
      BY BijectionType
    <3> QED BY <3>1, <3>2 DEF Composed
  <2>3. ASSUME NEW v \in Suits, NEW w \in Suits, Composed(names, others)[v] = Composed(names, others)[w]
        PROVE  v = w
    <3>1. names[others[v]] = names[others[w]] /\ others[v] \in Suits /\ others[w] \in Suits
      BY <1>1, <2>3 DEF Composed
    <3> QED BY <3>1, BijectionType
  <2> QED BY <2>1, <2>2, <2>3, IsBijection
<1>3. ASSUME NEW c \in Cards
      PROVE  SuitedCard(SuitedCard(c, others), names) = SuitedCard(c, Composed(names, others))
  <2>1. /\ SuitedCard(c, others) \div NumSuits = c \div NumSuits
        /\ SuitedCard(c, others) % NumSuits = others[c % NumSuits]
    BY <1>1, SuitedCardParts
  <2>2. Composed(names, others)[c % NumSuits] = names[others[c % NumSuits]]
    BY CardParts DEF Composed
  <2> QED BY <2>1, <2>2 DEF SuitedCard
<1>4. ASSUME NEW cards \in SUBSET Cards
      PROVE  Renamed(Renamed(cards, others), names) = Renamed(cards, Composed(names, others))
  <2>1. Renamed(Renamed(cards, others), names)
          = {SuitedCard(SuitedCard(c, others), names) : c \in cards}
    BY RenamedIs
  <2> QED BY <1>3, <2>1, RenamedIs
<1> QED BY <1>2, <1>4

LEMMA InverseRenames ==
  ASSUME NEW names \in Bijection(Suits, Suits)
  PROVE  \E inverse \in Bijection(Suits, Suits) :
           \A cards \in SUBSET Cards : Renamed(Renamed(cards, names), inverse) = cards
<1>1. names \in [Suits -> Suits] /\ \A w \in Suits : \E v \in Suits : names[v] = w
  BY BijectionType
<1>2. \A v, w \in Suits : names[v] = names[w] => v = w
  BY BijectionType
<1> DEFINE inverse == [w \in Suits |-> CHOOSE v \in Suits : names[v] = w]
<1>3. \A w \in Suits : inverse[w] \in Suits /\ names[inverse[w]] = w
  BY <1>1
<1>4. \A v \in Suits : inverse[names[v]] = v
  <2> HIDE DEF inverse
  <2> QED BY <1>1, <1>2, <1>3
<1>5. inverse \in Bijection(Suits, Suits)
  <2>1. inverse \in [Suits -> Suits]
    BY <1>3
  <2> HIDE DEF inverse
  <2>2. \A v, w \in Suits : inverse[v] = inverse[w] => v = w
    BY <1>3
  <2> QED BY <1>1, <1>4, <2>1, <2>2, IsBijection
<1>6. Composed(inverse, names) = Identity
  <2> HIDE DEF inverse
  <2> QED BY <1>4 DEF Composed, Identity
<1> HIDE DEF inverse
<1> QED BY <1>5, <1>6, ComposedRenames, IdentityRenames

\* The cards of a board's rounds are cards.
LEMMA RoundsOfBoard ==
  ASSUME NEW b \in Seq(Cards), Len(b) >= FlopCards
  PROVE  /\ ToSet(SubSeq(b, 1, FlopCards)) = {b[i] : i \in 1 .. FlopCards}
         /\ ToSet(SubSeq(b, 1, FlopCards)) \in SUBSET Cards
         /\ \A i \in FlopCards + 1 .. Len(b) : b[i] \in Cards
         /\ ToSet(b) = ToSet(SubSeq(b, 1, FlopCards)) \cup {b[i] : i \in FlopCards + 1 .. Len(b)}
<1>1. FlopCards \in Nat \ {0} /\ Len(b) \in Nat
  BY DeckAssumption
<1>2. \A i \in 1 .. Len(b) : b[i] \in Cards
  OBVIOUS
<1>3. /\ Len(SubSeq(b, 1, FlopCards)) = FlopCards
      /\ \A i \in 1 .. FlopCards : SubSeq(b, 1, FlopCards)[i] = b[i]
  BY <1>1
<1>4. ToSet(SubSeq(b, 1, FlopCards)) = {b[i] : i \in 1 .. FlopCards}
  <2>1. DOMAIN SubSeq(b, 1, FlopCards) = 1 .. FlopCards
    BY <1>1, <1>3
  <2> QED BY <1>3, <2>1 DEF ToSet
<1>5. ToSet(b) = {b[i] : i \in 1 .. Len(b)}
  BY DEF ToSet
<1>6. 1 .. Len(b) = (1 .. FlopCards) \cup (FlopCards + 1 .. Len(b))
  BY <1>1
<1> QED BY <1>1, <1>2, <1>4, <1>5, <1>6

LEMMA RenamingsGroup ==
  ASSUME NEW b \in Seq(Cards), Len(b) >= FlopCards
  PROVE  /\ Identity \in Renamings(b)
         /\ \A names, others \in Renamings(b) : Composed(names, others) \in Renamings(b)
         /\ \A names \in Renamings(b) : \E inverse \in Renamings(b) :
              \A cards \in SUBSET Cards : Renamed(Renamed(cards, names), inverse) = cards
<1> DEFINE Flop == ToSet(SubSeq(b, 1, FlopCards))
           Later == FlopCards + 1 .. Len(b)
<1>1. Flop \in SUBSET Cards /\ \A i \in Later : {b[i]} \in SUBSET Cards
  BY RoundsOfBoard
<1>2. \A names : names \in Renamings(b) <=>
        /\ names \in Bijection(Suits, Suits)
        /\ Renamed(Flop, names) = Flop
        /\ \A i \in Later : Renamed({b[i]}, names) = {b[i]}
  BY DEF Renamings
<1> HIDE DEF Flop, Later
<1>3. Identity \in Renamings(b)
  BY <1>1, <1>2, IdentityRenames
<1>4. ASSUME NEW names \in Renamings(b), NEW others \in Renamings(b)
      PROVE  Composed(names, others) \in Renamings(b)
  <2>1. names \in Bijection(Suits, Suits) /\ others \in Bijection(Suits, Suits)
    BY <1>2
  <2>2. /\ Composed(names, others) \in Bijection(Suits, Suits)
        /\ \A cards \in SUBSET Cards :
             Renamed(Renamed(cards, others), names) = Renamed(cards, Composed(names, others))
    BY <2>1, ComposedRenames
  <2>3. Renamed(Flop, Composed(names, others)) = Flop
    <3>1. Renamed(Flop, others) = Flop /\ Renamed(Flop, names) = Flop
      BY <1>2
    <3> QED BY <1>1, <2>2, <3>1
  <2>4. ASSUME NEW i \in Later
        PROVE  Renamed({b[i]}, Composed(names, others)) = {b[i]}
    <3>1. Renamed({b[i]}, others) = {b[i]} /\ Renamed({b[i]}, names) = {b[i]}
      BY <1>2
    <3>2. Renamed(Renamed({b[i]}, others), names) = Renamed({b[i]}, Composed(names, others))
      BY <1>1, <2>2
    <3> QED BY <3>1, <3>2
  <2> QED BY <1>2, <2>2, <2>3, <2>4
<1>5. ASSUME NEW names \in Renamings(b)
      PROVE  \E inverse \in Renamings(b) :
               \A cards \in SUBSET Cards : Renamed(Renamed(cards, names), inverse) = cards
  <2>1. names \in Bijection(Suits, Suits)
    BY <1>2
  <2>2. PICK inverse \in Bijection(Suits, Suits) :
          \A cards \in SUBSET Cards : Renamed(Renamed(cards, names), inverse) = cards
    BY <2>1, InverseRenames
  <2>3. inverse \in Renamings(b)
    BY <1>1, <1>2, <2>2
  <2> QED BY <2>2, <2>3
<1> QED BY <1>3, <1>4, <1>5

-----------------------------------------------------------------------------
(***************************************************************************)
(* Mappings.                                                               *)
(***************************************************************************)
\* The hands a board does not tell from a hand.
Orbit(b, h) == {Renamed(h, names) : names \in Renamings(b)}

LEMMA HandsAreCards == \A h \in Hands : h \in SUBSET Cards
BY DEF Hands, kSubset

\* A hand is in its own orbit, and an orbit is that of each of its hands.
LEMMA Orbits ==
  ASSUME NEW b \in Seq(Cards), Len(b) >= FlopCards, NEW h \in SUBSET Cards
  PROVE  /\ h \in Orbit(b, h)
         /\ \A k \in Orbit(b, h) : k \in SUBSET Cards
         /\ \A k \in Orbit(b, h) : Orbit(b, k) = Orbit(b, h)
<1>1. h \in Orbit(b, h)
  BY RenamingsGroup, IdentityRenames DEF Orbit
<1>2. ASSUME NEW names \in Renamings(b)
      PROVE  names \in Bijection(Suits, Suits) /\ Renamed(h, names) \in SUBSET Cards
  <2>1. names \in Bijection(Suits, Suits)
    BY DEF Renamings
  <2> QED BY <2>1, BijectionType, RenamedIs, SuitedCardParts
<1>3. ASSUME NEW k \in SUBSET Cards, NEW names \in Renamings(b)
      PROVE  Orbit(b, Renamed(k, names)) \subseteq Orbit(b, k)
  <2> SUFFICES ASSUME NEW others \in Renamings(b)
               PROVE  Renamed(Renamed(k, names), others) \in Orbit(b, k)
    BY DEF Orbit
  <2>1. names \in Bijection(Suits, Suits) /\ others \in Bijection(Suits, Suits)
    BY <1>2
  <2>2. Renamed(Renamed(k, names), others) = Renamed(k, Composed(others, names))
    BY <2>1, ComposedRenames
  <2>3. Composed(others, names) \in Renamings(b)
    BY RenamingsGroup
  <2> QED BY <2>2, <2>3 DEF Orbit
<1>4. ASSUME NEW names \in Renamings(b)
      PROVE  Orbit(b, h) \subseteq Orbit(b, Renamed(h, names))
  <2>1. PICK inverse \in Renamings(b) :
          \A cards \in SUBSET Cards : Renamed(Renamed(cards, names), inverse) = cards
    BY RenamingsGroup
  <2>2. Renamed(h, names) \in SUBSET Cards /\ Renamed(Renamed(h, names), inverse) = h
    BY <1>2, <2>1
  <2> QED BY <1>3, <2>2
<1>5. ASSUME NEW k \in Orbit(b, h)
      PROVE  k \in SUBSET Cards /\ Orbit(b, k) = Orbit(b, h)
  <2>1. PICK names \in Renamings(b) : k = Renamed(h, names)
    BY DEF Orbit
  <2> QED BY <1>2, <1>3, <1>4, <2>1
<1> QED BY <1>1, <1>5

\* A renaming keeps two cards apart and leaves the board's cards to the board.
LEMMA RenamedHand ==
  ASSUME NEW b \in Seq(Cards), Len(b) >= FlopCards,
         NEW names \in Renamings(b), NEW h \in LiveHands(b)
  PROVE  Renamed(h, names) \in LiveHands(b)
<1>1. /\ h \in SUBSET Cards /\ Cardinality(h) = 2 /\ h \cap ToSet(b) = {}
      /\ ToSet(b) \in SUBSET Cards
  <2>1. ToSet(b) \in SUBSET Cards
    BY DEF ToSet
  <2> QED BY <2>1 DEF LiveHands, Hands, kSubset
<1>2. names \in Bijection(Suits, Suits)
  BY DEF Renamings
<1>3. \A c \in Cards : SuitedCard(c, names) \in Cards
  BY <1>2, BijectionType, SuitedCardParts
<1>4. ASSUME NEW c \in Cards, NEW d \in Cards, SuitedCard(c, names) = SuitedCard(d, names)
      PROVE  c = d
  <2>1. /\ c \div NumSuits = d \div NumSuits /\ names[c % NumSuits] = names[d % NumSuits]
    <3>1. names \in [Suits -> Suits]
      BY <1>2, BijectionType
    <3>2. /\ SuitedCard(c, names) \div NumSuits = c \div NumSuits
          /\ SuitedCard(c, names) % NumSuits = names[c % NumSuits]
      BY <3>1, SuitedCardParts
    <3>3. /\ SuitedCard(d, names) \div NumSuits = d \div NumSuits
          /\ SuitedCard(d, names) % NumSuits = names[d % NumSuits]
      BY <3>1, SuitedCardParts
    <3> QED BY <1>4, <3>2, <3>3
  <2>2. c % NumSuits = d % NumSuits
    BY <1>2, <2>1, BijectionType, CardParts
  <2> QED BY <2>1, <2>2, CardParts
<1>5. Renamed(h, names) \in SUBSET Cards
  BY <1>1, <1>3, RenamedIs
<1>6. Cardinality(Renamed(h, names)) = 2
  <2> DEFINE f == [c \in h |-> SuitedCard(c, names)]
  <2>1. f \in Bijection(h, Renamed(h, names))
    <3>1. f \in [h -> Renamed(h, names)] /\ \A c, d \in h : f[c] = f[d] => c = d
      BY <1>1, <1>4, RenamedIs
    <3>2. \A d \in Renamed(h, names) : \E c \in h : f[c] = d
      BY RenamedIs
    <3> QED BY <3>1, <3>2 DEF Bijection, Injection, Surjection, IsInjective
  <2>2. IsFiniteSet(h)
    <3>1. IsFiniteSet(Cards)
      BY DeckAssumption, FS_Interval DEF Cards
    <3> QED BY <1>1, <3>1, FS_Subset
  <2> HIDE DEF f
  <2>3. ExistsBijection(h, Renamed(h, names))
    BY <2>1 DEF ExistsBijection
  <2> QED BY <1>1, <2>2, <2>3, FS_Bijection
<1>7. Renamed(ToSet(b), names) = ToSet(b)
  <2> DEFINE Flop == ToSet(SubSeq(b, 1, FlopCards))
             Later == FlopCards + 1 .. Len(b)
  <2>1. Renamed(Flop, names) = Flop /\ \A i \in Later : Renamed({b[i]}, names) = {b[i]}
    BY DEF Renamings
  <2>2. ToSet(b) = Flop \cup {b[i] : i \in Later}
    BY RoundsOfBoard
  <2> HIDE DEF Flop, Later
  <2>3. \A i \in Later : SuitedCard(b[i], names) = b[i]
    <3> TAKE i \in Later
    <3>1. Renamed({b[i]}, names) = {SuitedCard(b[i], names)}
      BY RenamedIs
    <3> QED BY <2>1, <3>1
  <2>4. Renamed(Flop, names) = {SuitedCard(c, names) : c \in Flop}
    BY RenamedIs
  <2>5. Renamed(ToSet(b), names)
          = {SuitedCard(c, names) : c \in Flop} \cup {SuitedCard(b[i], names) : i \in Later}
    BY <2>2, RenamedIs
  <2> QED BY <2>1, <2>2, <2>3, <2>4, <2>5
<1>8. Renamed(h, names) \cap ToSet(b) = {}
  <2> SUFFICES ASSUME NEW c \in h, SuitedCard(c, names) \in ToSet(b)
               PROVE  FALSE
    BY RenamedIs
  <2>1. PICK d \in ToSet(b) : SuitedCard(d, names) = SuitedCard(c, names)
    BY <1>7, RenamedIs
  <2> QED BY <1>1, <1>4, <2>1
<1> QED BY <1>5, <1>6, <1>8 DEF LiveHands, Hands, kSubset

LEMMA MappingIs ==
  ASSUME NEW b, NEW hands
  PROVE  Mapping(b, hands) = {Orbit(b, h) : h \in hands \cap LiveHands(b)}
BY DEF Mapping, Orbit

\* A mapping that is accepted gives every possible hand that the board leaves
\* one iso hand, and no other hand any.
Partitions(iso, hands) ==
  /\ UNION iso = hands
  /\ \A one, other \in iso : one \cap other # {} => one = other

LEMMA MappingPartitions ==
  ASSUME NEW b \in Seq(Cards), Len(b) >= FlopCards, NEW hands \in SUBSET Hands,
         Accepts(b, hands)
  PROVE  Partitions(Mapping(b, hands), hands \cap LiveHands(b))
<1>1. \A h \in hands \cap LiveHands(b) : h \in SUBSET Cards
  BY HandsAreCards
<1>2. UNION Mapping(b, hands) \subseteq hands \cap LiveHands(b)
  <2>1. UNION Mapping(b, hands) \subseteq hands
    BY DEF Accepts
  <2>2. UNION Mapping(b, hands) \subseteq LiveHands(b)
    BY MappingIs, RenamedHand DEF Orbit
  <2> QED BY <2>1, <2>2
<1>3. hands \cap LiveHands(b) \subseteq UNION Mapping(b, hands)
  BY <1>1, MappingIs, Orbits
<1>4. ASSUME NEW one \in Mapping(b, hands), NEW other \in Mapping(b, hands), NEW k \in one \cap other
      PROVE  one = other
  <2>1. PICK g, h \in hands \cap LiveHands(b) : one = Orbit(b, g) /\ other = Orbit(b, h)
    BY MappingIs
  <2> QED BY <1>1, <2>1, Orbits
<1> QED BY <1>2, <1>3, <1>4 DEF Partitions

\* A card more leaves fewer renamings.
LEMMA RenamingsShrink ==
  ASSUME NEW b \in Seq(Cards), Len(b) >= FlopCards, NEW card \in Cards
  PROVE  Renamings(Append(b, card)) \subseteq Renamings(b)
<1> DEFINE longer == Append(b, card)
<1>1. /\ FlopCards \in Nat \ {0} /\ Len(b) \in Nat /\ Len(longer) = Len(b) + 1
      /\ longer \in Seq(Cards) /\ Len(longer) >= FlopCards
      /\ \A i \in 1 .. Len(b) : longer[i] = b[i]
  BY DeckAssumption
<1> HIDE DEF longer
<1>2. ToSet(SubSeq(longer, 1, FlopCards)) = ToSet(SubSeq(b, 1, FlopCards))
  <2>1. /\ ToSet(SubSeq(longer, 1, FlopCards)) = {longer[i] : i \in 1 .. FlopCards}
        /\ ToSet(SubSeq(b, 1, FlopCards)) = {b[i] : i \in 1 .. FlopCards}
    BY <1>1, RoundsOfBoard
  <2>2. \A i \in 1 .. FlopCards : longer[i] = b[i]
    BY <1>1
  <2> QED BY <2>1, <2>2
<1>3. \A i \in FlopCards + 1 .. Len(b) : i \in FlopCards + 1 .. Len(longer) /\ longer[i] = b[i]
  BY <1>1
<1>4. Renamings(longer) \subseteq Renamings(b)
  BY <1>2, <1>3 DEF Renamings
<1> QED BY <1>4 DEF longer

\* So what a board's mapping accepts, that of a board with a card more accepts,
\* unless the card leaves no hand.
LEMMA AcceptsBelow ==
  ASSUME NEW b \in Seq(Cards), Len(b) >= FlopCards, NEW card \in Cards, NEW hands,
         Accepts(b, hands), hands \cap LiveHands(Append(b, card)) # {}
  PROVE  Accepts(Append(b, card), hands)
<1> DEFINE longer == Append(b, card)
<1>1. LiveHands(longer) \subseteq LiveHands(b)
  <2>1. ToSet(b) \subseteq ToSet(longer)
    <3>1. DOMAIN b \subseteq DOMAIN longer /\ \A i \in DOMAIN b : longer[i] = b[i]
      OBVIOUS
    <3> QED BY <3>1 DEF ToSet
  <2> QED BY <2>1 DEF LiveHands
<1>2. Renamings(longer) \subseteq Renamings(b)
  BY RenamingsShrink
<1> HIDE DEF longer
<1>3. \A h : Orbit(longer, h) \subseteq Orbit(b, h)
  BY <1>2 DEF Orbit
<1>4. UNION Mapping(longer, hands) \subseteq UNION Mapping(b, hands)
  BY <1>1, <1>3, MappingIs
<1> QED BY <1>4 DEF Accepts, longer

-----------------------------------------------------------------------------
(***************************************************************************)
(* Hands, boards and iso hands under a renaming.                           *)
(***************************************************************************)
\* A one-for-one image has as many elements.
LEMMA SameSize ==
  ASSUME NEW S, IsFiniteSet(S), NEW R, NEW f,
         \A x \in S : f[x] \in R, \A x, y \in S : f[x] = f[y] => x = y,
         \A y \in R : \E x \in S : f[x] = y
  PROVE  IsFiniteSet(R) /\ Cardinality(R) = Cardinality(S)
<1> DEFINE g == [x \in S |-> f[x]]
<1>1. g \in [S -> R]
  OBVIOUS
<1>2. \A x, y \in S : g[x] = g[y] => x = y
  OBVIOUS
<1>3. \A y \in R : \E x \in S : g[x] = y
  OBVIOUS
<1> HIDE DEF g
<1>4. g \in Bijection(S, R)
  BY <1>1, <1>2, <1>3 DEF Bijection, Injection, Surjection, IsInjective
<1> QED BY <1>4, FS_Bijection DEF ExistsBijection

\* The deck and the hands are finite.
LEMMA CardsFinite ==
  /\ IsFiniteSet(Cards) /\ Cardinality(Cards) = NumRanks * NumSuits
  /\ \A x \in SUBSET Cards : IsFiniteSet(x) /\ Cardinality(x) \in Nat
  /\ \A x \in SUBSET SUBSET Cards : IsFiniteSet(x) /\ Cardinality(x) \in Nat
<1>1. NumRanks \in Nat /\ NumSuits \in Nat /\ NumRanks * NumSuits \in Nat /\ NumRanks * NumSuits > 0
  BY DeckAssumption
<1>2. IsFiniteSet(Cards) /\ Cardinality(Cards) = NumRanks * NumSuits
  <2>1. NumRanks * NumSuits - 1 \in Int /\ 0 \in Int
    BY <1>1
  <2>2. /\ IsFiniteSet(Cards)
        /\ Cardinality(Cards) = IF 0 > NumRanks * NumSuits - 1 THEN 0
                                ELSE (NumRanks * NumSuits - 1) - 0 + 1
    BY <2>1, FS_Interval DEF Cards
  <2> QED BY <1>1, <2>2
<1>3. IsFiniteSet(SUBSET Cards)
  BY <1>2, FS_SUBSET
<1> QED BY <1>2, <1>3, FS_Subset, FS_CardinalityType

LEMMA HandCards ==
  ASSUME NEW h \in Hands
  PROVE  /\ h \in SUBSET Cards
         /\ \E c, d \in Cards : c # d /\ h = {c, d}
<1>1. h \in SUBSET Cards /\ Cardinality(h) = 2 /\ IsFiniteSet(h)
  BY CardsFinite DEF Hands, kSubset
<1>2. PICK c \in h : TRUE
  BY <1>1, FS_EmptySet
<1>3. IsFiniteSet(h \ {c}) /\ Cardinality(h \ {c}) = 1
  <2>1. IsFiniteSet(h \ {c}) /\ Cardinality(h \ {c}) = Cardinality(h) - 1
    BY <1>1, <1>2, FS_RemoveElement
  <2> QED BY <1>1, <2>1
<1>4. PICK d : h \ {c} = {d}
  BY <1>3, FS_Singleton
<1> QED BY <1>1, <1>2, <1>4

\* Boards the solver has: cards of the deck, all different, from the flop on.
IsBoard(b) == b \in Seq(Cards) /\ IsInjective(b) /\ Len(b) \in FlopCards .. RiverCards

LEMMA BoardCards ==
  ASSUME NEW b, IsBoard(b)
  PROVE  /\ b \in Seq(Cards) /\ Len(b) >= FlopCards /\ Len(b) \in Nat
         /\ ToSet(b) \in SUBSET Cards /\ IsFiniteSet(ToSet(b)) /\ Cardinality(ToSet(b)) = Len(b)
<1>1. b \in Seq(Cards) /\ Len(b) >= FlopCards /\ Len(b) \in Nat
  BY DeckAssumption DEF IsBoard, RiverCards
<1>2. ToSet(b) \in SUBSET Cards
  BY <1>1 DEF ToSet
<1>3. /\ \A i \in 1 .. Len(b) : b[i] \in ToSet(b)
      /\ \A i, j \in 1 .. Len(b) : b[i] = b[j] => i = j
      /\ \A c \in ToSet(b) : \E i \in 1 .. Len(b) : b[i] = c
  BY <1>1 DEF ToSet, IsBoard, IsInjective
<1>4. IsFiniteSet(1 .. Len(b)) /\ Cardinality(1 .. Len(b)) = Len(b)
  <2>1. IsFiniteSet(1 .. Len(b)) /\ Cardinality(1 .. Len(b)) = IF 1 > Len(b) THEN 0 ELSE Len(b) - 1 + 1
    BY <1>1, FS_Interval
  <2> QED BY <1>1, <2>1
<1>5. IsFiniteSet(ToSet(b)) /\ Cardinality(ToSet(b)) = Cardinality(1 .. Len(b))
  BY <1>3, <1>4, SameSize
<1> QED BY <1>1, <1>2, <1>4, <1>5

-----------------------------------------------------------------------------
\* What renaming keeps.
LEMMA SuitedApart ==
  ASSUME NEW names \in Bijection(Suits, Suits), NEW c \in Cards, NEW d \in Cards,
         SuitedCard(c, names) = SuitedCard(d, names)
  PROVE  c = d
<1>1. /\ c \div NumSuits = d \div NumSuits /\ names[c % NumSuits] = names[d % NumSuits]
  <2>1. names \in [Suits -> Suits]
    BY BijectionType
  <2>2. /\ SuitedCard(c, names) \div NumSuits = c \div NumSuits
        /\ SuitedCard(c, names) % NumSuits = names[c % NumSuits]
    BY <2>1, SuitedCardParts
  <2>3. /\ SuitedCard(d, names) \div NumSuits = d \div NumSuits
        /\ SuitedCard(d, names) % NumSuits = names[d % NumSuits]
    BY <2>1, SuitedCardParts
  <2> QED BY <2>2, <2>3
<1>2. c % NumSuits = d % NumSuits
  BY <1>1, BijectionType, CardParts
<1> QED BY <1>1, <1>2, CardParts

LEMMA RenamedCards ==
  ASSUME NEW names \in Bijection(Suits, Suits), NEW x \in SUBSET Cards
  PROVE  Renamed(x, names) \in SUBSET Cards /\ Cardinality(Renamed(x, names)) = Cardinality(x)
<1>1. Renamed(x, names) \in SUBSET Cards
  <2>1. \A c \in Cards : SuitedCard(c, names) \in Cards
    BY BijectionType, SuitedCardParts
  <2> QED BY <2>1, RenamedIs
<1> DEFINE f == [c \in x |-> SuitedCard(c, names)]
<1>2. /\ \A c \in x : f[c] \in Renamed(x, names)
      /\ \A c, d \in x : f[c] = f[d] => c = d
      /\ \A d \in Renamed(x, names) : \E c \in x : f[c] = d
  BY SuitedApart, RenamedIs
<1> HIDE DEF f
<1>3. Cardinality(Renamed(x, names)) = Cardinality(x)
  BY <1>2, CardsFinite, SameSize
<1> QED BY <1>1, <1>3

\* Renaming keeps disjoint hands disjoint.
LEMMA RenamedDisjoint ==
  ASSUME NEW names \in Bijection(Suits, Suits), NEW x \in SUBSET Cards, NEW y \in SUBSET Cards
  PROVE  x \cap y = {} <=> Renamed(x, names) \cap Renamed(y, names) = {}
<1>1. /\ Renamed(x, names) = {SuitedCard(c, names) : c \in x}
      /\ Renamed(y, names) = {SuitedCard(c, names) : c \in y}
  BY RenamedIs
<1> QED BY <1>1, SuitedApart

LEMMA RenamedSame ==
  ASSUME NEW names \in Bijection(Suits, Suits), NEW x \in SUBSET Cards, NEW y \in SUBSET Cards,
         Renamed(x, names) = Renamed(y, names)
  PROVE  x = y
<1>0. {SuitedCard(c, names) : c \in x} = {SuitedCard(c, names) : c \in y}
  BY RenamedIs
<1>1. \A c \in x : \E d \in y : SuitedCard(c, names) = SuitedCard(d, names)
  BY <1>0
<1>2. \A c \in y : \E d \in x : SuitedCard(c, names) = SuitedCard(d, names)
  BY <1>0
<1>3. x \subseteq y /\ y \subseteq x
  BY <1>1, <1>2, SuitedApart
<1> QED BY <1>3

LEMMA RenamedBoard ==
  ASSUME NEW b \in Seq(Cards), Len(b) >= FlopCards, NEW names \in Renamings(b)
  PROVE  Renamed(ToSet(b), names) = ToSet(b) /\ names \in Bijection(Suits, Suits)
<1> DEFINE Flop == ToSet(SubSeq(b, 1, FlopCards))
           Later == FlopCards + 1 .. Len(b)
<1>1. /\ Renamed(Flop, names) = Flop /\ \A i \in Later : Renamed({b[i]}, names) = {b[i]}
      /\ names \in Bijection(Suits, Suits)
  BY DEF Renamings
<1>2. ToSet(b) = Flop \cup {b[i] : i \in Later}
  BY RoundsOfBoard
<1> HIDE DEF Flop, Later
<1>3. \A i \in Later : SuitedCard(b[i], names) = b[i]
  <2> TAKE i \in Later
  <2>1. Renamed({b[i]}, names) = {SuitedCard(b[i], names)}
    BY RenamedIs
  <2> QED BY <1>1, <2>1
<1>4. Renamed(Flop, names) = {SuitedCard(c, names) : c \in Flop}
  BY RenamedIs
<1>5. Renamed(ToSet(b), names)
        = {SuitedCard(c, names) : c \in Flop} \cup {SuitedCard(b[i], names) : i \in Later}
  BY <1>2, RenamedIs
<1> QED BY <1>1, <1>2, <1>3, <1>4, <1>5

\* Renaming a union.
LEMMA RenamedUnion ==
  ASSUME NEW x, NEW y, NEW names
  PROVE  Renamed(x \cup y, names) = Renamed(x, names) \cup Renamed(y, names)
BY DEF Renamed

-----------------------------------------------------------------------------
(***************************************************************************)
(* Sets of iso hands.                                                      *)
(***************************************************************************)
AreIsos(b, M) == \A iso \in M : \E h \in LiveHands(b) : iso = Orbit(b, h)

LEMMA MappingAreIsos ==
  ASSUME NEW b, NEW hands
  PROVE  AreIsos(b, Mapping(b, hands))
BY MappingIs DEF AreIsos

LEMMA LiveHandsAre ==
  ASSUME NEW b, NEW h \in LiveHands(b)
  PROVE  h \in Hands /\ h \in SUBSET Cards /\ h \cap ToSet(b) = {}
BY HandsAreCards DEF LiveHands

\* Iso hands are finite, disjoint and made of live hands.
LEMMA IsoFacts ==
  ASSUME NEW b, IsBoard(b), NEW M, AreIsos(b, M)
  PROVE  /\ IsFiniteSet(M) /\ IsFiniteSet(UNION M)
         /\ UNION M \in SUBSET LiveHands(b) /\ UNION M \in SUBSET Hands
         /\ \A iso \in M : /\ IsFiniteSet(iso) /\ Cardinality(iso) \in Nat \ {0}
                           /\ iso # {} /\ iso \in SUBSET UNION M
         /\ \A i, j \in M : i \cap j # {} => i = j
<1>1. b \in Seq(Cards) /\ Len(b) >= FlopCards
  BY BoardCards
<1>2. ASSUME NEW iso \in M
      PROVE  /\ iso \subseteq LiveHands(b) /\ iso # {}
             /\ \A h \in iso : Orbit(b, h) = iso
  <2>1. PICK h \in LiveHands(b) : iso = Orbit(b, h)
    BY DEF AreIsos
  <2>2. iso \subseteq LiveHands(b)
    BY <1>1, <2>1, RenamedHand DEF Orbit
  <2> QED BY <1>1, <2>1, <2>2, Orbits, LiveHandsAre
<1>3. UNION M \in SUBSET LiveHands(b) /\ UNION M \in SUBSET Hands /\ UNION M \in SUBSET SUBSET Cards
  BY <1>2, LiveHandsAre
<1>4. IsFiniteSet(UNION M)
  BY <1>3, CardsFinite
<1>5. IsFiniteSet(M)
  <2>1. IsFiniteSet(SUBSET UNION M)
    BY <1>4, FS_SUBSET
  <2>2. M \in SUBSET SUBSET UNION M
    OBVIOUS
  <2> QED BY <2>1, <2>2, FS_Subset
<1>6. ASSUME NEW iso \in M
      PROVE  /\ IsFiniteSet(iso) /\ Cardinality(iso) \in Nat \ {0}
             /\ iso # {} /\ iso \in SUBSET UNION M
  <2>1. IsFiniteSet(iso) /\ iso \in SUBSET UNION M
    BY <1>4, FS_Subset
  <2> QED BY <1>2, <2>1, FS_CardinalityType, FS_EmptySet
<1> QED BY <1>2, <1>3, <1>4, <1>5, <1>6

\* The iso hand of a hand is the one it is in.
LEMMA IsoOfHand ==
  ASSUME NEW b, IsBoard(b), NEW M, AreIsos(b, M), NEW iso \in M, NEW h \in iso
  PROVE  IsoOf(M, h) = iso /\ iso = Orbit(b, h) /\ h \in UNION M /\ h \in LiveHands(b)
<1>1. b \in Seq(Cards) /\ Len(b) >= FlopCards
  BY BoardCards
<1>2. PICK k \in LiveHands(b) : iso = Orbit(b, k)
  BY DEF AreIsos
<1>3. iso = Orbit(b, h)
  BY <1>1, <1>2, Orbits, LiveHandsAre
<1>4. h \in UNION M /\ h \in LiveHands(b)
  BY IsoFacts
<1>5. IsoOf(M, h) = iso
  <2>1. \A i \in M : h \in i => i = iso
    BY IsoFacts
  <2> QED BY <2>1 DEF IsoOf
<1> QED BY <1>3, <1>4, <1>5

LEMMA RenamedIso ==
  ASSUME NEW b, IsBoard(b), NEW M, AreIsos(b, M), NEW names \in Renamings(b)
  PROVE  \A iso \in M :
           /\ \A h \in iso : Renamed(h, names) \in iso
           /\ \A h, k \in iso : Renamed(h, names) = Renamed(k, names) => h = k
           /\ \A k \in iso : \E h \in iso : Renamed(h, names) = k
<1> SUFFICES ASSUME NEW iso \in M
             PROVE  /\ \A h \in iso : Renamed(h, names) \in iso
                    /\ \A h, k \in iso : Renamed(h, names) = Renamed(k, names) => h = k
                    /\ \A k \in iso : \E h \in iso : Renamed(h, names) = k
  OBVIOUS
<1>1. b \in Seq(Cards) /\ Len(b) >= FlopCards
  BY BoardCards
<1>0. names \in Bijection(Suits, Suits)
  BY <1>1, RenamedBoard
<1>2. \A h \in iso : iso = Orbit(b, h) /\ h \in SUBSET Cards
  BY IsoOfHand, LiveHandsAre
<1>3. \A h \in iso : Renamed(h, names) \in iso
  BY <1>2 DEF Orbit
<1>4. \A h, k \in iso : Renamed(h, names) = Renamed(k, names) => h = k
  BY <1>0, <1>2, RenamedSame
<1>5. ASSUME NEW k \in iso
      PROVE  \E h \in iso : Renamed(h, names) = k
  <2>1. PICK inverse \in Renamings(b) :
          \A cards \in SUBSET Cards : Renamed(Renamed(cards, names), inverse) = cards
    BY <1>1, RenamingsGroup
  <2>a. inverse \in Bijection(Suits, Suits)
    BY <1>1, RenamedBoard
  <2>2. Renamed(k, inverse) \in iso /\ k \in SUBSET Cards
    BY <1>2 DEF Orbit
  <2>3. Renamed(k, inverse) \in SUBSET Cards /\ Renamed(Renamed(k, inverse), names) \in SUBSET Cards
    BY <1>0, <2>a, <2>2, RenamedCards
  <2>4. Renamed(Renamed(Renamed(k, inverse), names), inverse) = Renamed(k, inverse)
    BY <2>1, <2>3
  <2>5. Renamed(Renamed(k, inverse), names) = k
    BY <2>a, <2>2, <2>3, <2>4, RenamedSame
  <2> QED BY <2>2, <2>5
<1> QED BY <1>3, <1>4, <1>5

\* Two hands of an iso hand are renamings of one another.
LEMMA RenamedTo ==
  ASSUME NEW b, IsBoard(b), NEW M, AreIsos(b, M), NEW iso \in M, NEW h \in iso, NEW k \in iso
  PROVE  \E names \in Renamings(b) : k = Renamed(h, names)
BY IsoOfHand DEF Orbit

LEMMA RenamedHands ==
  ASSUME NEW b, IsBoard(b), NEW M, AreIsos(b, M), NEW names \in Renamings(b)
  PROVE  /\ \A h \in UNION M : Renamed(h, names) \in UNION M
         /\ \A h, k \in UNION M : Renamed(h, names) = Renamed(k, names) => h = k
         /\ \A k \in UNION M : \E h \in UNION M : Renamed(h, names) = k
         /\ \A h, o \in UNION M : h \cap o = {} <=> Renamed(h, names) \cap Renamed(o, names) = {}
<1>1. b \in Seq(Cards) /\ Len(b) >= FlopCards
  BY BoardCards
<1>0. names \in Bijection(Suits, Suits)
  BY <1>1, RenamedBoard
<1>2. \A h \in UNION M : h \in SUBSET Cards
  <2>1. \A h \in UNION M : h \in LiveHands(b)
    BY IsoFacts
  <2> QED BY <2>1, LiveHandsAre
<1>3. \A h \in UNION M : Renamed(h, names) \in UNION M
  BY RenamedIso
<1>4. \A k \in UNION M : \E h \in UNION M : Renamed(h, names) = k
  BY RenamedIso
<1>5. \A h, k \in UNION M : Renamed(h, names) = Renamed(k, names) => h = k
  BY <1>0, <1>2, RenamedSame
<1>6. \A h, o \in UNION M : h \cap o = {} <=> Renamed(h, names) \cap Renamed(o, names) = {}
  BY <1>0, <1>2, RenamedDisjoint
<1> QED BY <1>3, <1>4, <1>5, <1>6

-----------------------------------------------------------------------------
(***************************************************************************)
(* The mass of the hands that share no card with a hand.                   *)
(***************************************************************************)
LEMMA DivExact ==
  ASSUME NEW a \in Nat, NEW n \in Nat \ {0}, a % n = 0
  PROVE  a \div n \in Nat /\ (a \div n) * n = a
OBVIOUS

LEMMA TimesDiv ==
  ASSUME NEW a \in Int, NEW n \in Nat \ {0}
  PROVE  (n * a) \div n = a
<1> DEFINE x == n * a
<1>1. x \in Int /\ x = a * n
  OBVIOUS
<1> HIDE DEF x
<1>2. /\ x \div n \in Int /\ x % n \in 0 .. n - 1
      /\ x = (x \div n) * n + (x % n)
  BY <1>1
<1>3. ~(x \div n < a)
  BY <1>1, <1>2, ProductStep
<1>4. ~(a < x \div n)
  <2>1. a < x \div n => a * n + n <= (x \div n) * n
    BY <1>2, ProductStep
  <2> QED BY <1>1, <1>2, <2>1
<1>5. x \div n = a
  BY <1>2, <1>3, <1>4
<1> QED BY <1>5 DEF x

\* A reach that is a multiple of each iso hand's size.
Even(M, r) == r \in [M -> Nat] /\ \A iso \in M : r[iso] % Cardinality(iso) = 0

\* An even reach gives each hand of an iso hand as much.
LEMMA RawFacts ==
  ASSUME NEW b, IsBoard(b), NEW M, AreIsos(b, M), NEW r, Even(M, r), NEW iso \in M, NEW h \in iso
  PROVE  /\ RawReach(M, r)[h] = r[iso] \div Cardinality(iso)
         /\ RawReach(M, r)[h] \in Nat
         /\ RawReach(M, r)[h] * Cardinality(iso) = r[iso]
<1>1. h \in UNION M /\ IsoOf(M, h) = iso
  BY IsoOfHand
<1>2. RawReach(M, r)[h] = r[iso] \div Cardinality(iso)
  BY <1>1 DEF RawReach
<1>3. Cardinality(iso) \in Nat \ {0} /\ r[iso] \in Nat /\ r[iso] % Cardinality(iso) = 0
  BY IsoFacts DEF Even
<1> QED BY <1>2, <1>3, DivExact

\* Reaches of hands are natural numbers.
LEMMA RawIsNat ==
  ASSUME NEW b, IsBoard(b), NEW M, AreIsos(b, M), NEW r, Even(M, r)
  PROVE  /\ DOMAIN RawReach(M, r) = UNION M
         /\ \A h \in UNION M : RawReach(M, r)[h] \in Nat
<1>1. \A h \in UNION M : RawReach(M, r)[h] \in Nat
  BY RawFacts
<1> QED BY <1>1 DEF RawReach

\* Renamed hands have the same reach.
LEMMA RawRenamed ==
  ASSUME NEW b, IsBoard(b), NEW M, AreIsos(b, M), NEW r, Even(M, r),
         NEW names \in Renamings(b), NEW h \in UNION M
  PROVE  RawReach(M, r)[Renamed(h, names)] = RawReach(M, r)[h]
<1>1. PICK iso \in M : h \in iso
  OBVIOUS
<1>2. Renamed(h, names) \in iso
  BY <1>1, RenamedIso
<1> QED BY <1>1, <1>2, RawFacts

-----------------------------------------------------------------------------
\* The hands a hand may meet.
Against(L, h) == {o \in L : o \cap h = {}}

\* A sum over the two cards of a hand.
LEMMA SumOverHand ==
  ASSUME NEW f, NEW c, NEW d, c # d, f[c] \in Int, f[d] \in Int
  PROVE  SumOver({c, d}, LAMBDA x : f[x]) = f[c] + f[d]
<1>1. SumOver({c, d}, LAMBDA x : f[x]) = Sum(f, {c, d})
  BY DEF Sum, SumOver, MapThenSumSet, MapThenFoldSet
<1>2. IsFiniteSet({}) /\ {} \cup {c} = {c} /\ {c} \cup {d} = {c, d}
  BY FS_EmptySet
<1>3. IsFiniteSet({} \cup {c}) /\ Sum(f, {} \cup {c}) = f[c] + Sum(f, {})
  BY <1>2, SumPut
<1>4. IsFiniteSet({c}) /\ Sum(f, {c}) = f[c]
  <2>1. Sum(f, {}) = 0
    BY SumEmpty
  <2> QED BY <1>2, <1>3, <2>1
<1>5. Sum(f, {c} \cup {d}) = f[d] + Sum(f, {c})
  <2>1. \A x \in {c} : f[x] \in Int
    OBVIOUS
  <2>2. d \notin {c}
    OBVIOUS
  <2> HIDE <1>2
  <2> QED BY <1>4, <2>1, <2>2, SumPut
<1>6. Sum(f, {c, d}) = f[d] + f[c]
  BY <1>2, <1>4, <1>5
<1> QED BY <1>1, <1>6

\* Both cards' hands taken off, and the hand itself, which has both, put back.
LEMMA ExcludingIs ==
  ASSUME NEW L \in SUBSET Hands, IsFiniteSet(L), NEW mass, DOMAIN mass = L,
         \A o \in L : mass[o] \in Int, NEW h \in L, NEW self, self = mass[h]
  PROVE  Excluding(Stats(mass), h, self) = Sum(mass, Against(L, h))
<1> DEFINE With(c) == {o \in L : c \in o}
<1>1. PICK c, d \in Cards : c # d /\ h = {c, d}
  BY HandCards
<1>2. /\ Stats(mass).total = Sum(mass, L)
      /\ Stats(mass).byCard = [x \in Cards |-> SumOver({o \in L : x \in o}, LAMBDA o : mass[o])]
  BY DEF Stats, Sum, SumOver, MapThenSumSet, MapThenFoldSet
<1>3. \A x \in Cards : Stats(mass).byCard[x] = Sum(mass, With(x))
  <2> TAKE x \in Cards
  <2>1. Stats(mass).byCard[x] = SumOver(With(x), LAMBDA o : mass[o])
    BY DEF Stats
  <2>2. SumOver(With(x), LAMBDA o : mass[o]) = Sum(mass, With(x))
    BY DEF Sum, SumOver, MapThenSumSet, MapThenFoldSet
  <2> QED BY <2>1, <2>2
<1>4. \A x \in Cards : IsFiniteSet(With(x)) /\ With(x) \in SUBSET L /\ Sum(mass, With(x)) \in Int
  <2> TAKE x \in Cards
  <2>1. With(x) \in SUBSET L
    OBVIOUS
  <2> HIDE DEF With
  <2>2. IsFiniteSet(With(x))
    BY <2>1, FS_Subset
  <2> QED BY <2>1, <2>2, SumInt
<1>5. SumOver(h, LAMBDA x : Stats(mass).byCard[x]) = Sum(mass, With(c)) + Sum(mass, With(d))
  <2> DEFINE f == Stats(mass).byCard
  <2>1. f[c] = Sum(mass, With(c)) /\ f[d] = Sum(mass, With(d)) /\ f[c] \in Int /\ f[d] \in Int
    BY <1>3, <1>4
  <2> HIDE DEF f, With
  <2>2. SumOver({c, d}, LAMBDA x : f[x]) = f[c] + f[d]
    BY <1>1, <2>1, SumOverHand
  <2> QED BY <1>1, <2>1, <2>2 DEF f
<1>6. /\ With(c) \cap With(d) = {h} /\ h \in With(c) /\ h \in With(d)
      /\ L = Against(L, h) \cup (With(c) \cup (With(d) \ {h}))
      /\ Against(L, h) \cap (With(c) \cup (With(d) \ {h})) = {}
      /\ With(c) \cap (With(d) \ {h}) = {}
  <2>1. \A o \in L : c \in o /\ d \in o => o = h
    BY <1>1, HandCards
  <2> QED BY <1>1, <2>1 DEF Against
<1>7. Against(L, h) \in SUBSET L /\ IsFiniteSet(Against(L, h))
  <2>1. Against(L, h) \in SUBSET L
    BY DEF Against
  <2> QED BY <2>1, FS_Subset
<1> DEFINE A == Against(L, h)
           Wc == With(c)
           Wd == With(d)
           D == Wd \ {h}
           B == Wc \cup D
<1>8. /\ IsFiniteSet(A) /\ IsFiniteSet(Wc) /\ IsFiniteSet(Wd) /\ IsFiniteSet(D)
      /\ A \subseteq L /\ Wc \subseteq L /\ Wd \subseteq L /\ D \subseteq L
  BY <1>4, <1>7, FS_Subset
<1> HIDE DEF A, Wc, Wd, With
<1>9. Sum(mass, Wd) = mass[h] + Sum(mass, D)
  BY <1>6, <1>8, SumTake DEF Wd
<1> HIDE DEF D
<1>10. IsFiniteSet(B) /\ Sum(mass, B) = Sum(mass, Wc) + Sum(mass, D)
  BY <1>6, <1>8, SumUnion DEF Wc, Wd, D
<1> HIDE DEF B
<1>11. B \subseteq L /\ L = A \cup B /\ A \cap B = {}
  BY <1>6, <1>8 DEF A, Wc, Wd, D, B
<1>12. Sum(mass, L) = Sum(mass, A) + Sum(mass, B)
  BY <1>8, <1>10, <1>11, SumUnion
<1>13. Sum(mass, A) \in Int /\ Sum(mass, Wc) \in Int /\ Sum(mass, D) \in Int /\ mass[h] \in Int
  BY <1>8, SumInt
<1>14. Excluding(Stats(mass), h, self)
         = Sum(mass, L) - (Sum(mass, Wc) + Sum(mass, Wd)) + mass[h]
  BY <1>2, <1>5 DEF Excluding, Wc, Wd
<1>15. Excluding(Stats(mass), h, self) = Sum(mass, A)
  BY ONLY <1>9, <1>10, <1>12, <1>13, <1>14
<1> QED BY <1>15 DEF A

LEMMA AgainstIn ==
  ASSUME NEW L, IsFiniteSet(L), NEW h
  PROVE  Against(L, h) \in SUBSET L /\ IsFiniteSet(Against(L, h))
<1>1. Against(L, h) \in SUBSET L
  BY DEF Against
<1> QED BY <1>1, FS_Subset

\* A renamed hand meets the renamed hands.
LEMMA AgainstRenamed ==
  ASSUME NEW b, IsBoard(b), NEW M, AreIsos(b, M), NEW names \in Renamings(b), NEW h \in UNION M,
         NEW f, NEW e, \A o \in UNION M : f[o] \in Int /\ e[Renamed(o, names)] = f[o]
  PROVE  Sum(e, Against(UNION M, Renamed(h, names))) = Sum(f, Against(UNION M, h))
<1> DEFINE L == UNION M
           to == [o \in L |-> Renamed(o, names)]
           S == Against(L, h)
           R == Against(L, Renamed(h, names))
<1>1. IsFiniteSet(L)
  BY IsoFacts
<1>2. IsFiniteSet(S) /\ S \in SUBSET L
  BY <1>1, AgainstIn
<1>3. ASSUME NEW o \in S
      PROVE  to[o] \in R /\ e[to[o]] \in Int /\ f[o] = e[to[o]]
  <2>1. o \in L /\ o \cap h = {}
    BY DEF Against
  <2>2. Renamed(o, names) \in L /\ Renamed(o, names) \cap Renamed(h, names) = {}
    BY <2>1, RenamedHands
  <2> QED BY <2>1, <2>2 DEF Against
<1>4. \A o, k \in S : to[o] = to[k] => o = k
  <2>1. \A o, k \in L : Renamed(o, names) = Renamed(k, names) => o = k
    BY RenamedHands
  <2> QED BY <1>2, <2>1
<1>5. ASSUME NEW k \in R
      PROVE  \E o \in S : to[o] = k
  <2>1. k \in L /\ k \cap Renamed(h, names) = {}
    BY DEF Against
  <2>2. PICK o \in L : Renamed(o, names) = k
    BY <2>1, RenamedHands
  <2>3. o \cap h = {}
    BY <2>1, <2>2, RenamedHands
  <2> QED BY <2>2, <2>3 DEF Against
<1> HIDE DEF to, S, R
<1>6. Sum(e, R) = Sum(f, S)
  BY <1>2, <1>3, <1>4, <1>5, SumReindex
<1> QED BY <1>6 DEF S, R

\* The average over an iso hand of a value its hands share is that value.
LEMMA AverageOfSame ==
  ASSUME NEW iso, IsFiniteSet(iso), Cardinality(iso) \in Nat \ {0}, NEW f, NEW k \in Int,
         \A h \in iso : f[h] = k
  PROVE  Sum(f, iso) \div Cardinality(iso) = k
<1>1. Sum(f, iso) = Cardinality(iso) * k
  BY SumConst
<1> QED BY <1>1, TimesDiv

\* The mass an iso hand may meet is that of each of its hands.
LEMMA ValidMassIs ==
  ASSUME NEW b, IsBoard(b), NEW M, AreIsos(b, M), NEW r, Even(M, r), NEW iso \in M, NEW h \in iso
  PROVE  /\ ValidMass(M, r)[iso] = Sum(RawReach(M, r), Against(UNION M, h))
         /\ ValidMass(M, r)[iso] \in Nat
<1> DEFINE L == UNION M
           raw == RawReach(M, r)
           met == [k \in iso |-> Excluding(Stats(raw), k, raw[k])]
           mass == Sum(raw, Against(L, h))
<1>1. IsFiniteSet(L) /\ L \in SUBSET Hands /\ iso \in SUBSET L
  BY IsoFacts
<1>2. DOMAIN raw = L /\ \A o \in L : raw[o] \in Nat
  BY RawIsNat
<1>3. ValidMass(M, r)[iso] = Sum(met, iso) \div Cardinality(iso)
  BY DEF ValidMass, PerHand, Sum, SumOver, MapThenSumSet, MapThenFoldSet
<1>4. mass \in Nat
  <2> HIDE DEF raw
  <2>1. IsFiniteSet(Against(L, h)) /\ Against(L, h) \in SUBSET L
    BY <1>1, AgainstIn
  <2> QED BY <1>2, <2>1, SumNat
<1>5. ASSUME NEW k \in iso
      PROVE  met[k] = mass
  <2>1. PICK names \in Renamings(b) : k = Renamed(h, names)
    BY RenamedTo
  <2>2. \A o \in L : raw[Renamed(o, names)] = raw[o]
    BY RawRenamed
  <2> HIDE DEF raw
  <2>3. Sum(raw, Against(L, k)) = Sum(raw, Against(L, h))
    BY <1>1, <1>2, <2>1, <2>2, AgainstRenamed
  <2>4. Excluding(Stats(raw), k, raw[k]) = Sum(raw, Against(L, k))
    BY <1>1, <1>2, ExcludingIs
  <2> QED BY <2>3, <2>4
<1>6. IsFiniteSet(iso) /\ Cardinality(iso) \in Nat \ {0}
  BY IsoFacts
<1> HIDE DEF raw, met, mass
<1>7. Sum(met, iso) \div Cardinality(iso) = mass
  BY <1>4, <1>5, <1>6, AverageOfSame
<1> QED BY <1>3, <1>4, <1>7 DEF mass, raw

-----------------------------------------------------------------------------
(***************************************************************************)
(* What a hand pays another on a runout, and over all of them.             *)
(***************************************************************************)
IsPayoff(payoff) ==
  /\ payoff.lose \in Int /\ payoff.chop \in Int /\ payoff.win \in Int
  /\ payoff.win - payoff.chop = payoff.chop - payoff.lose

\* What a hand is paid at a showdown, on a runout, and over all of them.
Shows(payoff, mine, theirs) ==
  IF mine > theirs THEN payoff.win ELSE IF mine = theirs THEN payoff.chop ELSE payoff.lose
Shown(b, payoff, h, o) ==
  [cards \in Runouts(b) |-> Shows(payoff, StrengthOn(b, cards \cup h), StrengthOn(b, cards \cup o))]
Clear(b, x) == {cards \in Runouts(b) : cards \cap x = {}}
PairValue(b, payoff, h, o) == Sum(Shown(b, payoff, h, o), Clear(b, h \cup o))

LEMMA UnionSize ==
  ASSUME NEW x \in SUBSET Cards, NEW y \in SUBSET Cards, x \cap y = {}
  PROVE  Cardinality(x \cup y) = Cardinality(x) + Cardinality(y)
<1>1. /\ IsFiniteSet(x) /\ IsFiniteSet(y)
      /\ Cardinality(x) \in Nat /\ Cardinality(y) \in Nat
  BY CardsFinite
<1>2. Cardinality(x \cup y) = Cardinality(x) + Cardinality(y) - Cardinality(x \cap y)
  BY <1>1, FS_Union
<1>3. Cardinality(x \cap y) = 0
  BY FS_EmptySet
<1> QED BY <1>1, <1>2, <1>3

\* Runouts are sets of the cards not on the board.
LEMMA RunoutsAre ==
  ASSUME NEW b, IsBoard(b)
  PROVE  /\ IsFiniteSet(Runouts(b))
         /\ \A cards \in Runouts(b) :
              /\ cards \in SUBSET Cards /\ cards \cap ToSet(b) = {}
              /\ Cardinality(cards) = RiverCards - Len(b)
<1>1. NextCards(b) \in SUBSET Cards /\ NextCards(b) \cap ToSet(b) = {}
  BY DEF NextCards
<1>2. \A cards \in Runouts(b) : /\ cards \in SUBSET NextCards(b)
                                /\ Cardinality(cards) = RiverCards - Len(b)
  BY DEF Runouts, kSubset
<1>3. Runouts(b) \in SUBSET SUBSET Cards
  BY <1>1, <1>2
<1> QED BY <1>1, <1>2, <1>3, CardsFinite

LEMMA FullHand ==
  ASSUME NEW b, IsBoard(b), NEW cards \in Runouts(b), NEW h \in LiveHands(b), cards \cap h = {}
  PROVE  /\ ToSet(b) \cup (cards \cup h) \in kSubset(RiverCards + 2, Cards)
         /\ StrengthOn(b, cards \cup h) \in Int
<1> DEFINE all == ToSet(b) \cup (cards \cup h)
<1>1. /\ b \in Seq(Cards) /\ Len(b) >= FlopCards /\ Len(b) \in Nat
      /\ ToSet(b) \in SUBSET Cards /\ Cardinality(ToSet(b)) = Len(b)
  BY BoardCards
<1>2. cards \in SUBSET Cards /\ cards \cap ToSet(b) = {} /\ Cardinality(cards) = RiverCards - Len(b)
  BY RunoutsAre
<1>3. h \in SUBSET Cards /\ h \cap ToSet(b) = {} /\ Cardinality(h) = 2
  BY LiveHandsAre DEF Hands, kSubset
<1>4. Cardinality(cards \cup h) = RiverCards - Len(b) + 2
  BY <1>2, <1>3, UnionSize
<1>5. Cardinality(all) = Len(b) + (RiverCards - Len(b) + 2)
  <2>1. cards \cup h \in SUBSET Cards /\ ToSet(b) \cap (cards \cup h) = {}
    BY <1>2, <1>3
  <2> QED BY <1>1, <1>4, <2>1, UnionSize
<1>6. Cardinality(all) = RiverCards + 2
  BY <1>1, <1>5, DeckAssumption DEF RiverCards
<1>7. all \in SUBSET Cards
  BY <1>1, <1>2, <1>3
<1>8. all \in kSubset(RiverCards + 2, Cards)
  <2> HIDE DEF all
  <2> QED BY <1>6, <1>7 DEF kSubset
<1>9. Strength(all) \in Int
  <2> HIDE DEF all
  <2> QED BY <1>8, StrengthAssumption
<1> QED BY <1>8, <1>9 DEF StrengthOn

LEMMA FullHandRenamed ==
  ASSUME NEW b, IsBoard(b), NEW cards \in Runouts(b), NEW h \in LiveHands(b), cards \cap h = {},
         NEW names \in Renamings(b)
  PROVE  StrengthOn(b, Renamed(cards, names) \cup Renamed(h, names)) = StrengthOn(b, cards \cup h)
<1> DEFINE all == ToSet(b) \cup (cards \cup h)
<1>1. ToSet(b) \in SUBSET Cards /\ cards \in SUBSET Cards /\ h \in SUBSET Cards
  BY BoardCards, RunoutsAre, LiveHandsAre DEF Hands, kSubset
<1>2. all \in kSubset(RiverCards + 2, Cards)
  BY FullHand
<1>3. Renamed(ToSet(b), names) = ToSet(b) /\ names \in Bijection(Suits, Suits)
  BY BoardCards, RenamedBoard
<1>4. Renamed(all, names) = Renamed(ToSet(b), names) \cup (Renamed(cards, names) \cup Renamed(h, names))
  <2>1. /\ Renamed(cards \cup h, names) = Renamed(cards, names) \cup Renamed(h, names)
        /\ Renamed(ToSet(b) \cup (cards \cup h), names)
             = Renamed(ToSet(b), names) \cup Renamed(cards \cup h, names)
    BY RenamedUnion
  <2> QED BY <2>1
<1>5. Strength(Renamed(all, names)) = Strength(all)
  <2> HIDE DEF all
  <2> QED BY <1>2, <1>3, StrengthAssumption
<1> QED BY <1>3, <1>4, <1>5 DEF StrengthOn

\* The river has one runout, of no card.
LEMMA RiverRunout ==
  ASSUME NEW b, IsBoard(b), Len(b) = RiverCards
  PROVE  Runouts(b) = {{}} /\ RunoutsOfPair(b) = 1
<1>1. RiverCards - Len(b) = 0
  BY BoardCards
<1>2. ASSUME NEW S, IsFiniteSet(S)
      PROVE  kSubset(0, S) = {{}}
  <2>1. \A s \in SUBSET S : Cardinality(s) = 0 <=> s = {}
    BY <1>2, FS_Subset, FS_EmptySet
  <2>2. {} \in SUBSET S
    OBVIOUS
  <2> QED BY <2>1, <2>2 DEF kSubset
<1>3. IsFiniteSet(NextCards(b))
  <2>1. NextCards(b) \in SUBSET Cards
    BY DEF NextCards
  <2> QED BY <2>1, CardsFinite
<1>4. ChanceCards(b) \in Int
  <2>1. Cardinality(Cards) \in Nat /\ Len(b) \in Nat
    BY CardsFinite, BoardCards, FS_CardinalityType
  <2> QED BY <2>1 DEF ChanceCards
<1>5. IsFiniteSet(1 .. ChanceCards(b))
  BY <1>4, FS_Interval
<1>6. kSubset(0, NextCards(b)) = {{}} /\ kSubset(0, 1 .. ChanceCards(b)) = {{}}
  BY <1>2, <1>3, <1>5
<1>7. Cardinality({{}}) = 1
  BY FS_Singleton
<1> QED BY <1>1, <1>6, <1>7 DEF Runouts, RunoutsOfPair

\* On the river there is one runout: none.
LEMMA RiverPair ==
  ASSUME NEW b, IsBoard(b), Len(b) = RiverCards, NEW payoff, IsPayoff(payoff),
         NEW h \in LiveHands(b), NEW o \in LiveHands(b)
  PROVE  /\ StrengthOn(b, h) \in Int /\ StrengthOn(b, o) \in Int
         /\ PairValue(b, payoff, h, o) = Shows(payoff, StrengthOn(b, h), StrengthOn(b, o))
<1> DEFINE f == Shown(b, payoff, h, o)
<1>1. Runouts(b) = {{}}
  BY RiverRunout
<1>2. Clear(b, h \cup o) = {{}}
  BY <1>1 DEF Clear
<1>3. {} \cup h = h /\ {} \cup o = o
  OBVIOUS
<1>4. f[{}] = Shows(payoff, StrengthOn(b, h), StrengthOn(b, o))
  BY <1>1, <1>3 DEF Shown
<1>5. StrengthOn(b, h) \in Int /\ StrengthOn(b, o) \in Int
  <2>1. {} \in Runouts(b) /\ {} \cap h = {} /\ {} \cap o = {}
    BY <1>1
  <2>2. StrengthOn(b, {} \cup h) \in Int /\ StrengthOn(b, {} \cup o) \in Int
    BY <2>1, FullHand
  <2> QED BY <1>3, <2>2
<1>6. f[{}] \in Int
  BY <1>4, <1>5 DEF Shows, IsPayoff
<1> HIDE DEF f
<1>7. Sum(f, {{}}) = f[{}]
  <2>1. IsFiniteSet({{}}) /\ Cardinality({{}}) = 1
    BY FS_Singleton
  <2>2. Sum(f, {{}}) = Cardinality({{}}) * f[{}]
    BY <1>6, <2>1, SumConst
  <2> QED BY <1>6, <2>1, <2>2
<1> QED BY <1>2, <1>4, <1>5, <1>7 DEF PairValue, f

-----------------------------------------------------------------------------
(***************************************************************************)
(* The river: a sweep over places gives what each hand is paid.            *)
(***************************************************************************)
\* A hand's place among the strengths of a set of hands.
Strengths(b, L) == {StrengthOn(b, h) : h \in L}
Place(b, L, h) == Cardinality({s \in Strengths(b, L) : s <= StrengthOn(b, h)})

LEMMA PlacesOrder ==
  ASSUME NEW b, NEW L, IsFiniteSet(L), \A h \in L : StrengthOn(b, h) \in Int,
         NEW h \in L, NEW o \in L
  PROVE  /\ Place(b, L, h) \in 1 .. Cardinality(Strengths(b, L))
         /\ StrengthOn(b, h) < StrengthOn(b, o) => Place(b, L, h) < Place(b, L, o)
         /\ StrengthOn(b, h) = StrengthOn(b, o) => Place(b, L, h) = Place(b, L, o)
<1> DEFINE S == Strengths(b, L)
           Upto(k) == {s \in S : s <= StrengthOn(b, k)}
<1>1. IsFiniteSet(S)
  <2> DEFINE f == [k \in L |-> StrengthOn(b, k)]
  <2>1. f \in [L -> S] /\ \A s \in S : \E k \in L : f[k] = s
    BY DEF Strengths
  <2> HIDE DEF f
  <2>2. f \in Surjection(L, S)
    BY <2>1 DEF Surjection
  <2> QED BY <2>2, FS_Surjection
<1>2. \A s \in S : s \in Int
  BY DEF Strengths
<1>3. \A k \in L : StrengthOn(b, k) \in S /\ StrengthOn(b, k) \in Int
  BY DEF Strengths
<1> HIDE DEF S
<1>4. \A k \in L : /\ IsFiniteSet(Upto(k)) /\ Cardinality(Upto(k)) \in Nat
                   /\ Cardinality(Upto(k)) <= Cardinality(S) /\ Upto(k) # {}
  <2> TAKE k \in L
  <2>1. Upto(k) \in SUBSET S
    OBVIOUS
  <2>2. StrengthOn(b, k) \in Upto(k)
    BY <1>3
  <2> HIDE DEF Upto
  <2> QED BY <1>1, <2>1, <2>2, FS_Subset, FS_CardinalityType
<1>5. Cardinality(S) \in Nat
  BY <1>1, FS_CardinalityType
<1>6. Cardinality(Upto(h)) \in 1 .. Cardinality(S)
  <2>1. Cardinality(Upto(h)) # 0
    BY <1>4, FS_EmptySet
  <2> QED BY <1>4, <1>5, <2>1
<1>7. ASSUME StrengthOn(b, h) < StrengthOn(b, o)
      PROVE  Cardinality(Upto(h)) < Cardinality(Upto(o))
  <2>1. Upto(h) \in SUBSET Upto(o)
    BY <1>2, <1>3, <1>7
  <2>2. StrengthOn(b, o) \in Upto(o) /\ StrengthOn(b, o) \notin Upto(h)
    BY <1>3, <1>7
  <2>3. Upto(h) # Upto(o)
    BY <2>2
  <2> HIDE DEF Upto
  <2>4. /\ Cardinality(Upto(h)) <= Cardinality(Upto(o))
        /\ Cardinality(Upto(o)) = Cardinality(Upto(h)) => Upto(o) = Upto(h)
    BY <1>4, <2>1, FS_Subset
  <2> QED BY <1>4, <2>3, <2>4
<1> QED BY <1>6, <1>7 DEF Place, S

\* Places compare as strengths do.
LEMMA PlacesCompare ==
  ASSUME NEW b, NEW L, IsFiniteSet(L), \A h \in L : StrengthOn(b, h) \in Int,
         NEW h \in L, NEW o \in L
  PROVE  /\ Place(b, L, h) \in 1 .. Cardinality(Strengths(b, L))
         /\ Cardinality(Strengths(b, L)) \in Nat
         /\ Place(b, L, o) < Place(b, L, h) <=> StrengthOn(b, h) > StrengthOn(b, o)
         /\ Place(b, L, o) = Place(b, L, h) <=> StrengthOn(b, h) = StrengthOn(b, o)
<1>1. /\ Place(b, L, h) \in 1 .. Cardinality(Strengths(b, L))
      /\ Place(b, L, o) \in 1 .. Cardinality(Strengths(b, L))
      /\ StrengthOn(b, h) < StrengthOn(b, o) => Place(b, L, h) < Place(b, L, o)
      /\ StrengthOn(b, o) < StrengthOn(b, h) => Place(b, L, o) < Place(b, L, h)
      /\ StrengthOn(b, h) = StrengthOn(b, o) => Place(b, L, h) = Place(b, L, o)
      /\ StrengthOn(b, h) \in Int /\ StrengthOn(b, o) \in Int
  BY PlacesOrder
<1>2. Cardinality(Strengths(b, L)) \in Nat
  <2> DEFINE f == [k \in L |-> StrengthOn(b, k)]
  <2>1. f \in [L -> Strengths(b, L)] /\ \A s \in Strengths(b, L) : \E k \in L : f[k] = s
    BY DEF Strengths
  <2> HIDE DEF f
  <2>2. f \in Surjection(L, Strengths(b, L))
    BY <2>1 DEF Surjection
  <2> QED BY <2>2, FS_Surjection, FS_CardinalityType
<1> QED BY <1>1, <1>2

-----------------------------------------------------------------------------
\* The sweep, group by group.
Swept(groups, L, raw, payoff) ==
  CHOOSE tied : tied =
    [g \in 1 .. Len(groups) |->
       Add(IF g = 1 THEN [h \in L |-> raw[h] * payoff.lose]
           ELSE Add(tied[g - 1], groups[g - 1], raw, payoff.win - payoff.chop),
           groups[g], raw, payoff.chop - payoff.lose)]

AreGroups(groups, place, L) ==
  /\ Len(groups) \in Nat
  /\ \A h \in L : place[h] \in 1 .. Len(groups)
  /\ \A g \in 1 .. Len(groups) : groups[g] = {h \in L : place[h] = g}

\* After a group, the weaker hands have lost, and those of the group are tied.
LEMMA SweptIs ==
  ASSUME NEW groups, NEW place, NEW L, AreGroups(groups, place, L),
         NEW raw, \A h \in L : raw[h] \in Nat, NEW payoff, IsPayoff(payoff),
         NEW g \in 1 .. Len(groups)
  PROVE  /\ DOMAIN Swept(groups, L, raw, payoff)[g] = L
         /\ \A h \in L : Swept(groups, L, raw, payoff)[g][h]
              = raw[h] * (IF place[h] < g THEN payoff.win
                          ELSE IF place[h] = g THEN payoff.chop ELSE payoff.lose)
<1> DEFINE n == Len(groups)
<1>a. /\ n \in Nat /\ n = Len(groups) /\ g \in 1 .. n /\ \A h \in L : place[h] \in 1 .. n
      /\ \A k \in 1 .. n : groups[k] = {h \in L : place[h] = k}
  BY DEF AreGroups
<1> HIDE DEF n
<1> DEFINE Mass(h, k) == raw[h] * payoff.lose
                           + (IF place[h] < k
                              THEN raw[h] * (payoff.chop - payoff.lose) + raw[h] * (payoff.win - payoff.chop)
                              ELSE IF place[h] = k THEN raw[h] * (payoff.chop - payoff.lose) ELSE 0)
           all == [k \in 1 .. n |-> [h \in L |-> Mass(h, k)]]
           Base == [h \in L |-> raw[h] * payoff.lose]
           Step(t, k) == Add(IF k = 1 THEN Base
                             ELSE Add(t[k - 1], groups[k - 1], raw, payoff.win - payoff.chop),
                             groups[k], raw, payoff.chop - payoff.lose)
<1>0. \A h \in L : /\ raw[h] * payoff.lose \in Int /\ raw[h] * (payoff.chop - payoff.lose) \in Int
                   /\ raw[h] * (payoff.win - payoff.chop) \in Int
  BY DEF IsPayoff
<1>1. ASSUME NEW k \in 1 .. n
      PROVE  Step(all, k) = [h \in L |-> Mass(h, k)]
  <2>1. CASE k = 1
    <3>1. Step(all, k) = [h \in L |-> IF h \in groups[1] THEN Base[h] + raw[h] * (payoff.chop - payoff.lose) ELSE Base[h]]
      BY <2>1 DEF Add
    <3>2. ASSUME NEW h \in L
          PROVE  (IF h \in groups[1] THEN Base[h] + raw[h] * (payoff.chop - payoff.lose) ELSE Base[h])
                   = Mass(h, k)
      <4>1. h \in groups[1] <=> place[h] = 1
        BY <1>a, <2>1
      <4>2. ~(place[h] < 1) /\ Base[h] = raw[h] * payoff.lose
        BY <1>a
      <4> QED BY <1>0, <2>1, <4>1, <4>2
    <3> QED BY <3>1, <3>2
  <2>2. CASE k # 1
    <3>1. k - 1 \in 1 .. n
      BY <1>a, <2>2
    <3> DEFINE before == Add(all[k - 1], groups[k - 1], raw, payoff.win - payoff.chop)
    <3>2. before = [h \in L |-> IF h \in groups[k - 1] THEN Mass(h, k - 1) + raw[h] * (payoff.win - payoff.chop)
                                ELSE Mass(h, k - 1)]
      <4>1. all[k - 1] = [h \in L |-> Mass(h, k - 1)]
        BY <3>1
      <4> HIDE DEF all, Mass
      <4> QED BY <4>1 DEF Add
    <3>3. Step(all, k) = [h \in L |-> IF h \in groups[k] THEN before[h] + raw[h] * (payoff.chop - payoff.lose)
                                      ELSE before[h]]
      <4>1. Step(all, k) = Add(before, groups[k], raw, payoff.chop - payoff.lose) /\ DOMAIN before = L
        BY <2>2, <3>2
      <4> HIDE DEF before, Step
      <4> QED BY <4>1 DEF Add
    <3>4. ASSUME NEW h \in L
          PROVE  (IF h \in groups[k] THEN before[h] + raw[h] * (payoff.chop - payoff.lose) ELSE before[h])
                   = Mass(h, k)
      <4>1. (h \in groups[k] <=> place[h] = k) /\ (h \in groups[k - 1] <=> place[h] = k - 1)
        BY <1>a, <3>1
      <4>2. before[h] = IF place[h] = k - 1 THEN Mass(h, k - 1) + raw[h] * (payoff.win - payoff.chop)
                        ELSE Mass(h, k - 1)
        <5> HIDE DEF before, Mass
        <5> QED BY <3>2, <4>1
      <4>3. place[h] \in Int /\ k \in Int
        BY <1>a
      <4> HIDE DEF before
      <4> QED BY <1>0, <4>1, <4>2, <4>3
    <3> HIDE DEF before, Mass, Step
    <3> QED BY <3>3, <3>4
  <2> QED BY <2>1, <2>2
<1>2. all = [k \in 1 .. n |-> Step(all, k)]
  <2>1. all = [k \in 1 .. n |-> [h \in L |-> Mass(h, k)]]
    OBVIOUS
  <2> HIDE DEF all, Step, Mass
  <2> QED BY <1>1, <2>1
<1>3. \E t : t = [k \in 1 .. n |-> Step(t, k)]
  <2> HIDE DEF all, Step
  <2> QED BY <1>2
<1> DEFINE swept == CHOOSE t : t = [k \in 1 .. n |-> Step(t, k)]
<1>4. Swept(groups, L, raw, payoff) = swept
  BY <1>a DEF Swept
<1>5. swept = [k \in 1 .. n |-> Step(swept, k)]
  <2> HIDE DEF Step
  <2> QED BY <1>3
<1> HIDE DEF swept
<1>6. \A k \in 1 .. n : swept[k] = all[k]
  <2> DEFINE N == {k \in Nat : k \in 1 .. n => swept[k] = all[k]}
  <2>1. 0 \in N
    OBVIOUS
  <2>2. ASSUME NEW k \in Nat, k \in N
        PROVE  k + 1 \in N
    <3> SUFFICES ASSUME k + 1 \in 1 .. n
                 PROVE  swept[k + 1] = all[k + 1]
      OBVIOUS
    <3>1. (k + 1) - 1 = k
      OBVIOUS
    <3>2. swept[k + 1] = Step(swept, k + 1) /\ all[k + 1] = Step(all, k + 1)
      <4> HIDE DEF Step, all
      <4> QED BY <1>2, <1>5
    <3>3. k + 1 # 1 => swept[k] = all[k]
      <4>1. k + 1 # 1 => k \in 1 .. n
        BY <1>a
      <4>2. k \in 1 .. n => swept[k] = all[k]
        <5> HIDE DEF all
        <5> QED BY <2>2
      <4> HIDE DEF all
      <4> QED BY <4>1, <4>2
    <3>4. Step(swept, k + 1) = Step(all, k + 1)
      <4>1. CASE k + 1 = 1
        BY <4>1
      <4>2. CASE k + 1 # 1
        <5> HIDE DEF all
        <5> QED BY <3>1, <3>3, <4>2
      <4> QED BY <4>1, <4>2
    <3> QED BY <3>2, <3>4
  <2>3. Nat \subseteq N
    <3> HIDE DEF N
    <3> QED BY <2>1, <2>2, NatInduct
  <2> HIDE DEF all
  <2> QED BY <1>a, <2>3
<1>7. swept[g] = [h \in L |-> Mass(h, g)]
  BY <1>6, <1>a
<1>8. ASSUME NEW h \in L
      PROVE  Mass(h, g) = raw[h] * (IF place[h] < g THEN payoff.win
                          ELSE IF place[h] = g THEN payoff.chop ELSE payoff.lose)
  <2> DEFINE x == raw[h]
  <2>1. x \in Int /\ payoff.lose \in Int /\ payoff.chop \in Int /\ payoff.win \in Int
    BY DEF IsPayoff
  <2> HIDE DEF x
  <2>2. /\ x * payoff.lose + x * (payoff.chop - payoff.lose) = x * payoff.chop
        /\ x * payoff.lose + (x * (payoff.chop - payoff.lose) + x * (payoff.win - payoff.chop)) = x * payoff.win
        /\ x * payoff.lose + 0 = x * payoff.lose
    BY ONLY <2>1
  <2> QED BY <2>2 DEF x
<1> HIDE DEF Mass
<1> QED BY <1>4, <1>7, <1>8

PaidOf(b, L, raw, payoff, h) == [o \in L |-> raw[o] * PairValue(b, payoff, h, o)]
Paid(b, M, r, payoff, h) ==
  Sum(PaidOf(b, UNION M, RawReach(M, r), payoff, h), Against(UNION M, h))

\* StrengthGroups groups hands by place.
LEMMA GroupsAre ==
  ASSUME NEW b, NEW L, IsFiniteSet(L), \A h \in L : StrengthOn(b, h) \in Int
  PROVE  /\ Len(StrengthGroups(b, L)) = Cardinality(Strengths(b, L))
         /\ \A g \in 1 .. Cardinality(Strengths(b, L)) :
              StrengthGroups(b, L)[g] = {h \in L : Place(b, L, h) = g}
<1> DEFINE S == Strengths(b, L)
           n == Cardinality(S)
           place == [s \in S |-> Cardinality({t \in S : t <= s})]
           groups == [g \in 1 .. n |-> {h \in L : place[StrengthOn(b, h)] = g}]
<1>1. StrengthGroups(b, L) = groups
  BY DEF StrengthGroups, Strengths
<1>2. n \in Nat
  <2>1. CASE L = {}
    <3>1. S = {}
      BY <2>1 DEF Strengths
    <3> QED BY <3>1, FS_EmptySet
  <2>2. CASE L # {}
    BY <2>2, PlacesCompare
  <2> QED BY <2>1, <2>2
<1>3. \A h \in L : place[StrengthOn(b, h)] = Place(b, L, h)
  BY DEF Place, Strengths
<1> HIDE DEF n, place
<1>4. Len(groups) = n
  BY <1>2
<1>5. \A g \in 1 .. n : groups[g] = {h \in L : Place(b, L, h) = g}
  BY <1>3
<1> HIDE DEF groups
<1> QED BY <1>1, <1>4, <1>5 DEF n

\* A river showdown is each hand's pay against every hand it may meet.
LEMMA RiverIs ==
  ASSUME NEW b, IsBoard(b), Len(b) = RiverCards, NEW M, AreIsos(b, M), NEW r, Even(M, r),
         NEW payoff, IsPayoff(payoff), NEW iso \in M, NEW h \in iso
  PROVE  CalculateRiverShowdown(b, M, r, payoff)[iso] = Paid(b, M, r, payoff, h)
<1> DEFINE L == UNION M
           raw == RawReach(M, r)
           groups == StrengthGroups(b, L)
           swept == Swept(groups, L, raw, payoff)
           stats == [g \in 1 .. Len(groups) |-> Stats(swept[g])]
           GroupOf(k) == CHOOSE g \in 1 .. Len(groups) : k \in groups[g]
           met == [k \in iso |-> Excluding(stats[GroupOf(k)], k, raw[k] * payoff.chop)]
           paid(k) == PaidOf(b, L, raw, payoff, k)
           n == Cardinality(Strengths(b, L))
           place == [k \in L |-> Place(b, L, k)]
<1>1. CalculateRiverShowdown(b, M, r, payoff)[iso] = Sum(met, iso) \div Cardinality(iso)
  BY DEF CalculateRiverShowdown, Swept, PerHand, Sum, SumOver, MapThenSumSet, MapThenFoldSet
<1>2. /\ IsFiniteSet(L) /\ L \in SUBSET LiveHands(b) /\ L \in SUBSET Hands
      /\ iso \in SUBSET L /\ IsFiniteSet(iso) /\ Cardinality(iso) \in Nat \ {0}
  BY IsoFacts
<1>3. DOMAIN raw = L /\ \A o \in L : raw[o] \in Nat
  BY RawIsNat
<1>4. \A k \in L : StrengthOn(b, k) \in Int
  BY <1>2, RiverPair
<1>5. \A k, o \in L : PairValue(b, payoff, k, o) = Shows(payoff, StrengthOn(b, k), StrengthOn(b, o))
  BY <1>2, RiverPair
<1>6. \A k, o \in L : PairValue(b, payoff, k, o) \in Int
  BY <1>4, <1>5 DEF Shows, IsPayoff
<1>7. \A k \in L : \A o \in L : paid(k)[o] = raw[o] * PairValue(b, payoff, k, o) /\ paid(k)[o] \in Int
  <2> HIDE DEF raw
  <2> QED BY <1>3, <1>6 DEF PaidOf
<1>8. /\ Len(groups) = n /\ \A g \in 1 .. n : groups[g] = {k \in L : Place(b, L, k) = g}
  <2> HIDE DEF L
  <2> QED BY <1>2, <1>4, GroupsAre
<1>9. \A k \in L : place[k] \in 1 .. n /\ n \in Nat
  BY <1>2, <1>4, PlacesCompare
<1> HIDE DEF L, raw, groups, swept, paid, n
<1>10. ASSUME NEW k \in L
       PROVE  GroupOf(k) = place[k]
  <2>1. place[k] \in 1 .. n /\ k \in groups[place[k]]
    BY <1>8, <1>9
  <2>2. \A g \in 1 .. n : k \in groups[g] => g = place[k]
    BY <1>8
  <2> HIDE DEF place
  <2> QED BY <1>8, <2>1, <2>2
<1>11. ASSUME NEW k \in L
       PROVE  /\ DOMAIN swept[place[k]] = L
              /\ \A o \in L : swept[place[k]][o] = paid(k)[o]
  <2>1. \A g \in 1 .. n : groups[g] = {o \in L : place[o] = g}
    BY <1>8
  <2>2. place[k] \in 1 .. n /\ n \in Nat /\ \A o \in L : place[o] \in 1 .. n
    BY <1>9
  <2>3. \A o \in L : /\ place[o] < place[k] <=> StrengthOn(b, k) > StrengthOn(b, o)
                     /\ place[o] = place[k] <=> StrengthOn(b, k) = StrengthOn(b, o)
    BY <1>2, <1>4, PlacesCompare
  <2> DEFINE g == place[k]
  <2>4. g \in 1 .. n
    BY <2>2
  <2> HIDE DEF place, g
  <2>5. \A o \in L : raw[o] \in Nat
    BY <1>3
  <2>6. AreGroups(groups, place, L) /\ g \in 1 .. Len(groups)
    BY <1>8, <2>1, <2>2, <2>4 DEF AreGroups
  <2>7. /\ DOMAIN Swept(groups, L, raw, payoff)[g] = L
        /\ \A o \in L : Swept(groups, L, raw, payoff)[g][o]
             = raw[o] * (IF place[o] < g THEN payoff.win
                         ELSE IF place[o] = g THEN payoff.chop ELSE payoff.lose)
    BY ONLY IsPayoff(payoff), <2>5, <2>6, SweptIs
  <2> QED BY <1>5, <1>7, <2>3, <2>7 DEF Shows, swept, g
<1>12. ASSUME NEW k \in iso
       PROVE  met[k] = Sum(paid(k), Against(L, k))
  <2> DEFINE mass == swept[place[k]]
  <2>1. k \in L /\ GroupOf(k) = place[k] /\ place[k] \in 1 .. Len(groups)
    BY <1>2, <1>8, <1>9, <1>10
  <2>2. met[k] = Excluding(Stats(mass), k, raw[k] * payoff.chop)
    BY <2>1
  <2>3. DOMAIN mass = L /\ \A o \in L : mass[o] = paid(k)[o] /\ mass[o] \in Int
    BY <1>7, <1>11, <2>1
  <2>4. mass[k] = raw[k] * payoff.chop
    <3>1. paid(k)[k] = raw[k] * PairValue(b, payoff, k, k)
      BY <1>7, <2>1
    <3>2. PairValue(b, payoff, k, k) = payoff.chop
      BY <1>4, <1>5, <2>1 DEF Shows
    <3> HIDE DEF mass
    <3> QED BY <2>1, <2>3, <3>1, <3>2
  <2> HIDE DEF mass, met
  <2>5. met[k] = Sum(mass, Against(L, k))
    BY <1>2, <2>1, <2>2, <2>3, <2>4, ExcludingIs
  <2>6. Sum(mass, Against(L, k)) = Sum(paid(k), Against(L, k))
    <3>1. IsFiniteSet(Against(L, k)) /\ Against(L, k) \in SUBSET L
      BY <1>2, AgainstIn
    <3>2. \A o \in Against(L, k) : paid(k)[o] \in Int /\ mass[o] = paid(k)[o]
      BY <1>7, <2>1, <2>3, <3>1
    <3> QED BY <3>1, <3>2, SumSame
  <2> QED BY <2>5, <2>6
<1>13. ASSUME NEW k \in iso
       PROVE  Sum(paid(k), Against(L, k)) = Sum(paid(h), Against(L, h))
  <2>1. PICK names \in Renamings(b) : k = Renamed(h, names)
    BY RenamedTo
  <2>2. h \in L /\ k \in L
    BY <1>2
  <2>3. ASSUME NEW o \in L
        PROVE  paid(h)[o] \in Int /\ paid(k)[Renamed(o, names)] = paid(h)[o]
    <3>1. Renamed(o, names) \in L
      BY RenamedHands DEF L
    <3>2. raw[Renamed(o, names)] = raw[o]
      BY RawRenamed DEF L, raw
    <3>3. /\ StrengthOn(b, Renamed(o, names)) = StrengthOn(b, o)
          /\ StrengthOn(b, k) = StrengthOn(b, h)
      <4>1. {} \in Runouts(b)
        BY RiverRunout
      <4>2. Renamed({}, names) = {}
        BY DEF Renamed
      <4>3. \A x \in L : StrengthOn(b, Renamed({}, names) \cup Renamed(x, names)) = StrengthOn(b, {} \cup x)
        <5> TAKE x \in L
        <5> DEFINE none == {}
        <5>1. x \in LiveHands(b) /\ none \in Runouts(b) /\ none \cap x = {}
          BY <1>2, <4>1
        <5> HIDE DEF none
        <5>2. StrengthOn(b, Renamed(none, names) \cup Renamed(x, names)) = StrengthOn(b, none \cup x)
          BY <2>1, <5>1, FullHandRenamed
        <5> QED BY <5>2 DEF none
      <4>4. \A x \in L : StrengthOn(b, Renamed(x, names)) = StrengthOn(b, x)
        <5>1. \A x : {} \cup x = x
          OBVIOUS
        <5> QED BY <4>2, <4>3, <5>1
      <4> QED BY <2>1, <2>2, <4>4
    <3>4. PairValue(b, payoff, k, Renamed(o, names)) = PairValue(b, payoff, h, o)
      BY <1>5, <2>2, <3>1, <3>3
    <3> QED BY <1>7, <2>2, <3>1, <3>2, <3>4
  <2> QED BY <2>1, <2>2, <2>3, AgainstRenamed DEF L
<1>14. Sum(paid(h), Against(L, h)) \in Int
  <2>1. h \in L
    BY <1>2
  <2>2. IsFiniteSet(Against(L, h)) /\ Against(L, h) \in SUBSET L
    BY <1>2, AgainstIn
  <2> QED BY <1>7, <2>1, <2>2, SumInt
<1> HIDE DEF met
<1>15. Sum(met, iso) \div Cardinality(iso) = Sum(paid(h), Against(L, h))
  BY <1>2, <1>12, <1>13, <1>14, AverageOfSame
<1> QED BY <1>1, <1>15 DEF Paid, paid, L, raw

-----------------------------------------------------------------------------
(***************************************************************************)
(* Before the river: sums of wins and losses give what each hand is paid.  *)
(***************************************************************************)
\* Sets of a size have as many subsets of a size.
LEMMA SubsetsOfSize ==
  ASSUME NEW S, NEW T, IsFiniteSet(S), IsFiniteSet(T), Cardinality(S) = Cardinality(T), NEW k
  PROVE  Cardinality(kSubset(k, S)) = Cardinality(kSubset(k, T))
<1>1. PICK to \in Bijection(S, T) : TRUE
  BY FS_SameCardinalityBij DEF ExistsBijection
<1>2. /\ \A x \in S : to[x] \in T
      /\ \A x, y \in S : to[x] = to[y] => x = y
      /\ \A y \in T : \E x \in S : to[x] = y
  BY <1>1 DEF Bijection, Injection, Surjection, IsInjective
<1> DEFINE Image(s) == {to[x] : x \in s}
           f == [s \in kSubset(k, S) |-> Image(s)]
<1>3. ASSUME NEW s \in SUBSET S
      PROVE  Image(s) \in SUBSET T /\ Cardinality(Image(s)) = Cardinality(s)
  <2>1. Image(s) \in SUBSET T
    BY <1>2
  <2>2. IsFiniteSet(s)
    BY FS_Subset
  <2>3. /\ \A x \in s : to[x] \in Image(s)
        /\ \A x, y \in s : to[x] = to[y] => x = y
        /\ \A y \in Image(s) : \E x \in s : to[x] = y
    BY <1>2
  <2> HIDE DEF Image
  <2>4. Cardinality(Image(s)) = Cardinality(s)
    BY <2>2, <2>3, SameSize
  <2> QED BY <2>1, <2>4
<1>4. \A s \in kSubset(k, S) : f[s] \in kSubset(k, T)
  <2> TAKE s \in kSubset(k, S)
  <2>1. s \in SUBSET S /\ Cardinality(s) = k
    BY DEF kSubset
  <2>2. Image(s) \in SUBSET T /\ Cardinality(Image(s)) = k
    BY <1>3, <2>1
  <2> HIDE DEF Image
  <2> QED BY <2>2 DEF kSubset
<1>5. \A s, t \in kSubset(k, S) : f[s] = f[t] => s = t
  <2> SUFFICES ASSUME NEW s \in kSubset(k, S), NEW t \in kSubset(k, S), Image(s) = Image(t)
               PROVE  s = t
    OBVIOUS
  <2>1. s \in SUBSET S /\ t \in SUBSET S
    BY DEF kSubset
  <2>2. \A x \in s : x \in t
    BY <1>2, <2>1
  <2>3. \A x \in t : x \in s
    BY <1>2, <2>1
  <2> QED BY <2>2, <2>3
<1>6. \A u \in kSubset(k, T) : \E s \in kSubset(k, S) : f[s] = u
  <2> TAKE u \in kSubset(k, T)
  <2>1. u \in SUBSET T /\ Cardinality(u) = k
    BY DEF kSubset
  <2> DEFINE s == {x \in S : to[x] \in u}
  <2>2. s \in SUBSET S /\ Image(s) = u
    BY <1>2, <2>1
  <2>3. Cardinality(s) = k
    BY <1>3, <2>1, <2>2
  <2>4. s \in kSubset(k, S)
    <3> HIDE DEF s
    <3> QED BY <2>2, <2>3 DEF kSubset
  <2> QED BY <2>2, <2>4
<1>7. IsFiniteSet(kSubset(k, S))
  <2>1. IsFiniteSet(SUBSET S)
    BY FS_SUBSET
  <2>2. kSubset(k, S) \in SUBSET SUBSET S
    BY DEF kSubset
  <2> QED BY <2>1, <2>2, FS_Subset
<1> HIDE DEF f
<1> QED BY <1>4, <1>5, <1>6, <1>7, SameSize

\* The cards that may come for two hands.
LEMMA ClearRunouts ==
  ASSUME NEW b, IsBoard(b), NEW h \in LiveHands(b), NEW o \in LiveHands(b), h \cap o = {}
  PROVE  /\ IsFiniteSet(Clear(b, h \cup o)) /\ Clear(b, h \cup o) \in SUBSET Runouts(b)
         /\ Cardinality(Clear(b, h \cup o)) = RunoutsOfPair(b) /\ RunoutsOfPair(b) \in Nat
<1> DEFINE x == h \cup o
           left == NextCards(b) \ x
           k == RiverCards - Len(b)
<1>1. /\ h \in SUBSET Cards /\ h \cap ToSet(b) = {} /\ Cardinality(h) = 2
      /\ o \in SUBSET Cards /\ o \cap ToSet(b) = {} /\ Cardinality(o) = 2
  BY LiveHandsAre DEF Hands, kSubset
<1>2. Cardinality(x) = 4
  BY <1>1, UnionSize
<1>3. ToSet(b) \in SUBSET Cards /\ Cardinality(ToSet(b)) = Len(b) /\ Len(b) \in Nat
  BY BoardCards
<1>4. x \in SUBSET Cards /\ x \cap ToSet(b) = {}
  BY <1>1
<1> HIDE DEF x
<1>5. Cardinality(x \cup ToSet(b)) = 4 + Len(b)
  BY <1>2, <1>3, <1>4, UnionSize
<1>6. left \in SUBSET Cards /\ left \cap (x \cup ToSet(b)) = {} /\ left \cup (x \cup ToSet(b)) = Cards
  BY <1>3, <1>4 DEF NextCards
<1> HIDE DEF left
<1>7. IsFiniteSet(left) /\ Cardinality(left) \in Nat
  BY <1>6, CardsFinite
<1>8. Cardinality(Cards) = Cardinality(left) + (4 + Len(b))
  <2>1. x \cup ToSet(b) \in SUBSET Cards
    BY <1>3, <1>4
  <2>2. Cardinality(left \cup (x \cup ToSet(b))) = Cardinality(left) + Cardinality(x \cup ToSet(b))
    BY <1>6, <2>1, UnionSize
  <2> QED BY <1>5, <1>6, <2>2
<1>9. Cardinality(left) = ChanceCards(b)
  <2>1. ChanceCards(b) = Cardinality(Cards) - Len(b) - 4
    BY DEF ChanceCards
  <2> QED BY ONLY <1>3, <1>7, <1>8, <2>1
<1>10. Clear(b, x) = kSubset(k, left)
  BY DEF Clear, Runouts, kSubset, left
<1>11. IsFiniteSet(1 .. ChanceCards(b)) /\ Cardinality(1 .. ChanceCards(b)) = ChanceCards(b)
  <2> DEFINE n == ChanceCards(b)
  <2>1. n \in Nat
    BY <1>7, <1>9
  <2> HIDE DEF n
  <2>2. IsFiniteSet(1 .. n) /\ Cardinality(1 .. n) = IF 1 > n THEN 0 ELSE n - 1 + 1
    BY <2>1, FS_Interval
  <2> QED BY <2>1, <2>2 DEF n
<1>12. Cardinality(kSubset(k, left)) = Cardinality(kSubset(k, 1 .. ChanceCards(b)))
  <2> HIDE DEF k
  <2> QED BY <1>7, <1>9, <1>11, SubsetsOfSize
<1>13. Clear(b, x) \in SUBSET Runouts(b)
  BY DEF Clear
<1>14. IsFiniteSet(Clear(b, x)) /\ Cardinality(Clear(b, x)) \in Nat
  BY <1>13, RunoutsAre, FS_Subset, FS_CardinalityType
<1> QED BY <1>10, <1>12, <1>13, <1>14 DEF RunoutsOfPair, x

-----------------------------------------------------------------------------
\* The runouts on which a hand beats another.
WinsOf(b, h, o) ==
  {cards \in Clear(b, h \cup o) : StrengthOn(b, cards \cup h) > StrengthOn(b, cards \cup o)}
Wins(b, h, o) == Cardinality(WinsOf(b, h, o))

\* A runout for renamed hands is a renamed runout.
LEMMA RunoutRenamed ==
  ASSUME NEW b, IsBoard(b), NEW names \in Renamings(b)
  PROVE  /\ \A cards \in Runouts(b) : Renamed(cards, names) \in Runouts(b)
         /\ \A cards \in Runouts(b) : \E other \in Runouts(b) : Renamed(other, names) = cards
<1>1. /\ b \in Seq(Cards) /\ Len(b) >= FlopCards /\ ToSet(b) \in SUBSET Cards
  BY BoardCards
<1>2. ASSUME NEW to \in Renamings(b), NEW cards \in Runouts(b)
      PROVE  Renamed(cards, to) \in Runouts(b)
  <2>1. Renamed(ToSet(b), to) = ToSet(b) /\ to \in Bijection(Suits, Suits)
    BY <1>1, RenamedBoard
  <2>2. cards \in SUBSET Cards /\ cards \cap ToSet(b) = {} /\ Cardinality(cards) = RiverCards - Len(b)
    BY RunoutsAre
  <2>3. /\ Renamed(cards, to) \in SUBSET Cards
        /\ Cardinality(Renamed(cards, to)) = RiverCards - Len(b)
    BY <2>1, <2>2, RenamedCards
  <2>4. Renamed(cards, to) \cap ToSet(b) = {}
    BY <1>1, <2>1, <2>2, RenamedDisjoint
  <2>5. Renamed(cards, to) \in SUBSET NextCards(b)
    BY <2>3, <2>4 DEF NextCards
  <2> QED BY <2>3, <2>5 DEF Runouts, kSubset
<1>3. ASSUME NEW cards \in Runouts(b)
      PROVE  \E other \in Runouts(b) : Renamed(other, names) = cards
  <2>1. PICK inverse \in Renamings(b) :
          \A x \in SUBSET Cards : Renamed(Renamed(x, names), inverse) = x
    BY <1>1, RenamingsGroup
  <2>2. names \in Bijection(Suits, Suits) /\ inverse \in Bijection(Suits, Suits)
    BY <1>1, RenamedBoard
  <2> DEFINE other == Renamed(cards, inverse)
  <2>3. other \in Runouts(b)
    BY <1>2
  <2>4. other \in SUBSET Cards /\ cards \in SUBSET Cards
    BY <2>3, RunoutsAre
  <2>5. Renamed(Renamed(other, names), inverse) = Renamed(cards, inverse)
    BY <2>1, <2>4
  <2>6. Renamed(other, names) \in SUBSET Cards
    BY <2>2, <2>4, RenamedCards
  <2> HIDE DEF other
  <2>7. Renamed(other, names) = cards
    BY <2>2, <2>4, <2>5, <2>6, RenamedSame
  <2> QED BY <2>3, <2>7
<1> QED BY <1>2, <1>3

LEMMA WinsAre ==
  ASSUME NEW b, IsBoard(b), NEW h, NEW o
  PROVE  /\ IsFiniteSet(WinsOf(b, h, o)) /\ WinsOf(b, h, o) \in SUBSET Clear(b, h \cup o)
         /\ Wins(b, h, o) \in Nat
<1>1. WinsOf(b, h, o) \in SUBSET Clear(b, h \cup o) /\ WinsOf(b, h, o) \in SUBSET Runouts(b)
  BY DEF WinsOf, Clear
<1> QED BY <1>1, RunoutsAre, FS_Subset, FS_CardinalityType DEF Wins

\* Renamed hands win as often.
LEMMA WinsRenamed ==
  ASSUME NEW b, IsBoard(b), NEW names \in Renamings(b), NEW h \in LiveHands(b), NEW o \in LiveHands(b)
  PROVE  Wins(b, Renamed(h, names), Renamed(o, names)) = Wins(b, h, o)
<1> DEFINE H == Renamed(h, names)
           O == Renamed(o, names)
           to == [cards \in WinsOf(b, h, o) |-> Renamed(cards, names)]
<1>1. names \in Bijection(Suits, Suits)
  BY BoardCards, RenamedBoard
<1>2. h \in SUBSET Cards /\ o \in SUBSET Cards
  BY LiveHandsAre
<1>3. ASSUME NEW cards \in Runouts(b)
      PROVE  /\ Renamed(cards, names) \in Runouts(b) /\ cards \in SUBSET Cards
             /\ cards \in WinsOf(b, h, o) <=> Renamed(cards, names) \in WinsOf(b, H, O)
  <2>1. cards \in SUBSET Cards /\ Renamed(cards, names) \in Runouts(b)
    BY RunoutsAre, RunoutRenamed
  <2>2. /\ cards \cap h = {} <=> Renamed(cards, names) \cap H = {}
        /\ cards \cap o = {} <=> Renamed(cards, names) \cap O = {}
    BY <1>1, <1>2, <2>1, RenamedDisjoint
  <2>3. cards \in Clear(b, h \cup o) <=> Renamed(cards, names) \in Clear(b, H \cup O)
    BY <2>1, <2>2 DEF Clear
  <2>4. ASSUME cards \in Clear(b, h \cup o)
        PROVE  /\ StrengthOn(b, Renamed(cards, names) \cup H) = StrengthOn(b, cards \cup h)
               /\ StrengthOn(b, Renamed(cards, names) \cup O) = StrengthOn(b, cards \cup o)
    <3>1. cards \cap h = {} /\ cards \cap o = {}
      BY <2>4 DEF Clear
    <3> QED BY <3>1, FullHandRenamed
  <2> QED BY <2>1, <2>3, <2>4 DEF WinsOf
<1>4. \A cards \in WinsOf(b, h, o) : cards \in Runouts(b) /\ cards \in SUBSET Cards
  BY RunoutsAre DEF WinsOf, Clear
<1>5. \A cards \in WinsOf(b, h, o) : to[cards] \in WinsOf(b, H, O)
  BY <1>3, <1>4
<1>6. \A cards, other \in WinsOf(b, h, o) : to[cards] = to[other] => cards = other
  BY <1>1, <1>4, RenamedSame
<1>7. ASSUME NEW cards \in WinsOf(b, H, O)
      PROVE  \E other \in WinsOf(b, h, o) : to[other] = cards
  <2>1. cards \in Runouts(b)
    BY DEF WinsOf, Clear
  <2>2. PICK other \in Runouts(b) : Renamed(other, names) = cards
    BY <2>1, RunoutRenamed
  <2> QED BY <1>3, <2>2
<1> HIDE DEF to, H, O
<1>8. Cardinality(WinsOf(b, H, O)) = Cardinality(WinsOf(b, h, o))
  BY <1>5, <1>6, <1>7, WinsAre, SameSize
<1> QED BY <1>8 DEF Wins, H, O

\* A sum over a set of a value for some of its members.
LEMMA SumOfSome ==
  ASSUME NEW S, IsFiniteSet(S), NEW T \in SUBSET S, NEW k \in Int
  PROVE  Sum([x \in S |-> IF x \in T THEN k ELSE 0], S) = Cardinality(T) * k
<1> DEFINE f == [x \in S |-> IF x \in T THEN k ELSE 0]
<1>1. \A x \in T : f[x] = k
  OBVIOUS
<1>2. \A x \in S \ T : f[x] = 0
  OBVIOUS
<1>3. IsFiniteSet(T)
  BY FS_Subset
<1> HIDE DEF f
<1>4. Sum(f, S) = Sum(f, T)
  BY <1>1, <1>2, SumWhere
<1>5. Sum(f, T) = Cardinality(T) * k
  BY <1>1, <1>3, SumConst
<1> QED BY <1>4, <1>5 DEF f

\* A pair is paid a chop on each runout, and as much more for a win as less for
\* a loss.
LEMMA PairValueIs ==
  ASSUME NEW b, IsBoard(b), NEW payoff, IsPayoff(payoff),
         NEW h \in LiveHands(b), NEW o \in LiveHands(b), h \cap o = {}
  PROVE  /\ PairValue(b, payoff, h, o)
              = payoff.chop * RunoutsOfPair(b)
                  + (payoff.win - payoff.chop) * (Wins(b, h, o) - Wins(b, o, h))
         /\ PairValue(b, payoff, h, o) \in Int
<1> DEFINE S == Clear(b, h \cup o)
           W == WinsOf(b, h, o)
           V == WinsOf(b, o, h)
           d == payoff.win - payoff.chop
           f == Shown(b, payoff, h, o)
           chops == [x \in S |-> IF x \in S THEN payoff.chop ELSE 0]
           wins == [x \in S |-> IF x \in W THEN d ELSE 0]
           losses == [x \in S |-> IF x \in V THEN -d ELSE 0]
           moved == [x \in S |-> wins[x] + losses[x]]
<1>1. IsFiniteSet(S) /\ S \in SUBSET Runouts(b) /\ Cardinality(S) = RunoutsOfPair(b) /\ RunoutsOfPair(b) \in Nat
  BY ClearRunouts
<1>2. /\ W \in SUBSET S /\ V \in SUBSET S
      /\ Wins(b, h, o) = Cardinality(W) /\ Wins(b, o, h) = Cardinality(V)
      /\ Wins(b, h, o) \in Nat /\ Wins(b, o, h) \in Nat
  <2>1. o \cup h = h \cup o
    OBVIOUS
  <2> QED BY <2>1, WinsAre DEF Wins
<1>3. d \in Int /\ -d \in Int /\ payoff.chop \in Int /\ payoff.lose = payoff.chop - d /\ payoff.win = payoff.chop + d
  BY DEF IsPayoff
<1>4. ASSUME NEW x \in S
      PROVE  f[x] = payoff.chop + ((IF x \in W THEN d ELSE 0) + (IF x \in V THEN -d ELSE 0))
  <2>1. x \in Runouts(b) /\ x \cap h = {} /\ x \cap o = {}
    BY DEF Clear
  <2>2. StrengthOn(b, x \cup h) \in Int /\ StrengthOn(b, x \cup o) \in Int
    BY <2>1, FullHand
  <2>3. f[x] = Shows(payoff, StrengthOn(b, x \cup h), StrengthOn(b, x \cup o))
    BY <2>1 DEF Shown
  <2>4. x \in W <=> StrengthOn(b, x \cup h) > StrengthOn(b, x \cup o)
    BY DEF WinsOf
  <2>5. x \in V <=> StrengthOn(b, x \cup o) > StrengthOn(b, x \cup h)
    <3>1. o \cup h = h \cup o
      OBVIOUS
    <3> QED BY <3>1 DEF WinsOf
  <2> HIDE DEF f, S, W, V, d
  <2> QED BY <1>3, <2>2, <2>3, <2>4, <2>5 DEF Shows
<1> HIDE DEF S, W, V, d, f
<1>5. Sum(chops, S) = RunoutsOfPair(b) * payoff.chop
  BY <1>1, <1>3, SumOfSome
<1>6. Sum(wins, S) = Wins(b, h, o) * d
  BY <1>1, <1>2, <1>3, SumOfSome
<1>7. Sum(losses, S) = Wins(b, o, h) * (-d)
  BY <1>1, <1>2, <1>3, SumOfSome
<1>8. \A x \in S : /\ chops[x] \in Int /\ wins[x] \in Int /\ losses[x] \in Int /\ moved[x] \in Int
                   /\ moved[x] = wins[x] + losses[x] /\ f[x] = chops[x] + moved[x]
  BY <1>3, <1>4
<1> HIDE DEF chops, wins, losses, moved
<1>9. Sum(moved, S) = Sum(wins, S) + Sum(losses, S)
  BY <1>1, <1>8, SumPlus
<1>10. Sum(f, S) = Sum(chops, S) + Sum(moved, S)
  BY <1>1, <1>8, SumPlus
<1> DEFINE v == Wins(b, h, o)
           w == Wins(b, o, h)
           R == RunoutsOfPair(b)
           chop == payoff.chop
           all == Sum(f, S)
<1>11. v \in Nat /\ w \in Nat /\ R \in Nat /\ chop \in Int /\ d \in Int
       /\ all = R * chop + (v * d + w * (-d))
  BY <1>1, <1>2, <1>3, <1>5, <1>6, <1>7, <1>9, <1>10
<1>12. all = PairValue(b, payoff, h, o)
  BY DEF PairValue, f, S
<1> HIDE DEF v, w, R, chop, all
<1>13. all = chop * R + d * (v - w) /\ all \in Int
  BY ONLY <1>11
<1> QED BY <1>12, <1>13 DEF v, w, R, chop, d

-----------------------------------------------------------------------------
\* How often a hand beats another, if they can meet.
Beats(b, h, o) == IF o \cap h = {} THEN Wins(b, h, o) ELSE 0
Beaten(b, j, h) == Sum([o \in j |-> Beats(b, h, o)], j)
BeatenBy(b, j, h) == Sum([o \in j |-> Beats(b, o, h)], j)

\* Renamed pairs beat each other as often.
LEMMA BeatsRenamed ==
  ASSUME NEW b, IsBoard(b), NEW names \in Renamings(b), NEW h \in LiveHands(b), NEW o \in LiveHands(b)
  PROVE  Beats(b, h, o) \in Nat /\ Beats(b, Renamed(h, names), Renamed(o, names)) = Beats(b, h, o)
<1>1. Wins(b, h, o) \in Nat
  BY WinsAre
<1>2. Wins(b, Renamed(h, names), Renamed(o, names)) = Wins(b, h, o)
  BY WinsRenamed
<1>3. o \cap h = {} <=> Renamed(o, names) \cap Renamed(h, names) = {}
  <2>1. names \in Bijection(Suits, Suits)
    BY BoardCards, RenamedBoard
  <2>2. h \in SUBSET Cards /\ o \in SUBSET Cards
    BY LiveHandsAre
  <2> QED BY <2>1, <2>2, RenamedDisjoint
<1> QED BY <1>1, <1>2, <1>3 DEF Beats

LEMMA BeatsIs ==
  ASSUME NEW b, IsBoard(b), NEW M, AreIsos(b, M), NEW h \in UNION M, NEW o \in UNION M
  PROVE  h \in LiveHands(b) /\ o \in LiveHands(b) /\ Beats(b, h, o) \in Nat
<1>1. h \in LiveHands(b) /\ o \in LiveHands(b)
  BY IsoFacts
<1>2. Identity \in Renamings(b)
  BY BoardCards, RenamingsGroup
<1> QED BY <1>1, <1>2, BeatsRenamed

LEMMA BeatenIs ==
  ASSUME NEW b, IsBoard(b), NEW M, AreIsos(b, M), NEW j \in M, NEW h \in UNION M
  PROVE  Beaten(b, j, h) \in Int /\ BeatenBy(b, j, h) \in Int
<1>1. IsFiniteSet(j) /\ j \in SUBSET UNION M
  BY IsoFacts
<1> DEFINE f == [o \in j |-> Beats(b, h, o)]
           g == [o \in j |-> Beats(b, o, h)]
<1>2. \A o \in j : f[o] \in Int /\ g[o] \in Int
  BY <1>1, BeatsIs
<1> HIDE DEF f, g
<1>3. Sum(f, j) \in Int /\ Sum(g, j) \in Int
  BY <1>1, <1>2, SumInt
<1> QED BY <1>3 DEF Beaten, BeatenBy, f, g

\* Over an iso hand, what all hands of another beat is the same.
LEMMA BeatenSame ==
  ASSUME NEW b, IsBoard(b), NEW M, AreIsos(b, M), NEW i \in M, NEW j \in M, NEW h \in i, NEW k \in i
  PROVE  Beaten(b, j, k) = Beaten(b, j, h) /\ BeatenBy(b, j, k) = BeatenBy(b, j, h)
<1>1. PICK names \in Renamings(b) : k = Renamed(h, names)
  BY RenamedTo
<1>2. IsFiniteSet(j) /\ j \in SUBSET UNION M /\ h \in UNION M /\ h \in LiveHands(b)
      /\ \A o \in j : o \in LiveHands(b)
  BY IsoFacts
<1>3. /\ \A o \in j : Renamed(o, names) \in j
      /\ \A o, p \in j : Renamed(o, names) = Renamed(p, names) => o = p
      /\ \A p \in j : \E o \in j : Renamed(o, names) = p
  BY RenamedIso
<1> DEFINE to == [o \in j |-> Renamed(o, names)]
           f == [o \in j |-> Beats(b, h, o)]
           fk == [o \in j |-> Beats(b, k, o)]
           g == [o \in j |-> Beats(b, o, h)]
           gk == [o \in j |-> Beats(b, o, k)]
<1>4. ASSUME NEW o \in j
      PROVE  /\ Beats(b, h, o) \in Int /\ Beats(b, o, h) \in Int
             /\ Beats(b, k, Renamed(o, names)) = Beats(b, h, o)
             /\ Beats(b, Renamed(o, names), k) = Beats(b, o, h)
  BY <1>1, <1>2, BeatsRenamed
<1>5. \A o \in j : to[o] \in j /\ fk[to[o]] \in Int /\ f[o] = fk[to[o]]
                   /\ gk[to[o]] \in Int /\ g[o] = gk[to[o]]
  BY <1>3, <1>4
<1>6. \A o, p \in j : to[o] = to[p] => o = p
  BY <1>3
<1>7. \A p \in j : \E o \in j : to[o] = p
  BY <1>3
<1> HIDE DEF to, f, fk, g, gk
<1>8. Sum(fk, j) = Sum(f, j)
  BY <1>2, <1>5, <1>6, <1>7, SumReindex
<1>9. Sum(gk, j) = Sum(g, j)
  BY <1>2, <1>5, <1>6, <1>7, SumReindex
<1> QED BY <1>8, <1>9 DEF Beaten, BeatenBy, f, fk, g, gk

\* Counted over both iso hands, what beats is what is beaten.
LEMMA BothWays ==
  ASSUME NEW b, IsBoard(b), NEW M, AreIsos(b, M), NEW i \in M, NEW j \in M, NEW h \in i, NEW o \in j
  PROVE  Cardinality(i) * BeatenBy(b, j, h) = Cardinality(j) * Beaten(b, i, o)
<1> DEFINE m == [x \in i |-> [y \in j |-> Beats(b, y, x)]]
           t == [y \in j |-> [x \in i |-> Beats(b, y, x)]]
           rows == [x \in i |-> BeatenBy(b, j, x)]
           cols == [y \in j |-> Beaten(b, i, y)]
<1>1. /\ IsFiniteSet(i) /\ IsFiniteSet(j) /\ i \in SUBSET UNION M /\ j \in SUBSET UNION M
      /\ Cardinality(i) \in Nat /\ Cardinality(j) \in Nat
  BY IsoFacts
<1>2. \A x \in i, y \in j : m[x][y] \in Int /\ t[y][x] = m[x][y]
  <2>1. \A x \in i, y \in j : Beats(b, y, x) \in Int
    BY <1>1, BeatsIs
  <2> QED BY <2>1
<1>3. \A x \in i : rows[x] = Sum(m[x], j)
  BY DEF BeatenBy
<1>4. \A y \in j : cols[y] = Sum(t[y], i)
  BY DEF Beaten
<1>5. \A x \in i : rows[x] = BeatenBy(b, j, h)
  BY BeatenSame
<1>6. \A y \in j : cols[y] = Beaten(b, i, o)
  BY BeatenSame
<1> HIDE DEF m, t, rows, cols
<1>7. IsTable(m, t, rows, cols, i, j)
  BY <1>2, <1>3, <1>4 DEF IsTable
<1>8. Sum(rows, i) = Sum(cols, j)
  BY <1>1, <1>7, SumSwap
<1>9. BeatenBy(b, j, h) \in Int /\ Beaten(b, i, o) \in Int
  BY <1>1, BeatenIs
<1>10. Sum(rows, i) = Cardinality(i) * BeatenBy(b, j, h)
  BY <1>1, <1>5, <1>9, SumConst
<1>11. Sum(cols, j) = Cardinality(j) * Beaten(b, i, o)
  BY <1>1, <1>6, <1>9, SumConst
<1> QED BY <1>8, <1>10, <1>11

Fits(M) == Unit \in Nat \ {0} /\ \A iso \in M : Unit % Cardinality(iso) = 0

\* How often the hands of one iso hand beat another's.
LEMMA WinIs ==
  ASSUME NEW b, IsBoard(b), NEW M, AreIsos(b, M), Fits(M), NEW i \in M, NEW j \in M, NEW h \in i
  PROVE  WinProbMatrix(b, M)[i][j] = (Unit \div Cardinality(j)) * Beaten(b, j, h)
<1> DEFINE rep == Representative(i)
           n == Cardinality(j)
           u == Unit \div n
           S == {o \in j : o \cap rep = {}}
           beats == [o \in j |-> Beats(b, rep, o)]
           won(o) == Cardinality({cards \in Runouts(b) :
                       /\ cards \cap (rep \cup o) = {}
                       /\ StrengthOn(b, cards \cup rep) > StrengthOn(b, cards \cup o)})
           f == [o \in S |-> (won(o) * Unit) \div n]
           g == [o \in j |-> u * beats[o]]
<1>1. rep \in i
  <2>1. i # {}
    BY IsoFacts
  <2> QED BY <2>1 DEF Representative
<1>2. /\ IsFiniteSet(j) /\ i \in SUBSET UNION M /\ j \in SUBSET UNION M /\ n \in Nat \ {0}
      /\ rep \in UNION M
  BY <1>1, IsoFacts
<1>3. u \in Nat /\ u * n = Unit
  BY <1>2, DivExact DEF Fits
<1>4. \A o : Wins(b, rep, o) = won(o)
  <2> TAKE o
  <2>1. WinsOf(b, rep, o) = {cards \in Runouts(b) :
          /\ cards \cap (rep \cup o) = {}
          /\ StrengthOn(b, cards \cup rep) > StrengthOn(b, cards \cup o)}
    BY DEF WinsOf, Clear
  <2> QED BY <2>1 DEF Wins
<1>5. WinProbMatrix(b, M)[i][j] = SumOver(S, LAMBDA o : (won(o) * Unit) \div n)
  BY DEF WinProbMatrix
<1>6. SumOver(S, LAMBDA o : (won(o) * Unit) \div n) = Sum(f, S)
  BY DEF Sum, SumOver, MapThenSumSet, MapThenFoldSet
<1>7. \A o \in j : beats[o] \in Int
  BY <1>2, BeatsIs
<1>8. ASSUME NEW o \in S
      PROVE  f[o] = g[o] /\ g[o] \in Int
  <2> DEFINE w == Wins(b, rep, o)
  <2>1. o \in j /\ beats[o] = w
    BY DEF Beats
  <2>2. w \in Nat
    BY WinsAre
  <2>3. f[o] = (w * Unit) \div n
    <3>1. f[o] = (won(o) * Unit) \div n
      OBVIOUS
    <3> HIDE DEF won, f
    <3> QED BY <1>4, <3>1
  <2>4. g[o] = u * w
    BY <2>1
  <2> HIDE DEF w, u, n, f, g, beats, won
  <2>5. w * Unit = n * (u * w) /\ u * w \in Int
    BY ONLY <1>2, <1>3, <2>2
  <2>6. (n * (u * w)) \div n = u * w
    BY <1>2, <2>5, TimesDiv
  <2> QED BY <2>3, <2>4, <2>5, <2>6
<1>9. \A o \in j \ S : g[o] = 0
  <2> TAKE o \in j \ S
  <2>1. beats[o] = 0 /\ g[o] = u * beats[o]
    BY DEF Beats
  <2> HIDE DEF u, beats, g
  <2> QED BY <1>3, <2>1
<1>10. S \in SUBSET j /\ IsFiniteSet(S)
  <2>1. S \in SUBSET j
    OBVIOUS
  <2> QED BY <1>2, <2>1, FS_Subset
<1>11. \A o \in j : g[o] = u * beats[o]
  OBVIOUS
<1>12. Sum(beats, j) = Beaten(b, j, rep)
  BY DEF Beaten
<1> HIDE DEF S, f, g, beats, u, n, rep
<1>13. Sum(f, S) = Sum(g, S)
  BY <1>8, <1>10, SumSame
<1>14. Sum(g, j) = Sum(g, S)
  BY <1>2, <1>8, <1>9, <1>10, SumWhere
<1>15. Sum(g, j) = u * Sum(beats, j)
  BY <1>2, <1>3, <1>7, <1>11, SumTimes
<1>16. Beaten(b, j, rep) = Beaten(b, j, h)
  BY <1>1, BeatenSame
<1> QED BY <1>5, <1>6, <1>12, <1>13, <1>14, <1>15, <1>16 DEF u, n

\* How much more a hand of the opponent's is beaten than it beats.
Margin(b, L, raw, h) == [o \in L |-> raw[o] * (Beats(b, h, o) - Beats(b, o, h))]

\* The matrix product over iso hands is the sum over raw hands.
LEMMA MarginOfIso ==
  ASSUME NEW b, IsBoard(b), NEW M, AreIsos(b, M), Fits(M), NEW r, Even(M, r),
         NEW i \in M, NEW j \in M, NEW h \in i
  PROVE  r[j] * EquityDelta(WinProbMatrix(b, M), i, j)
           = Unit * Sum(Margin(b, UNION M, RawReach(M, r), h), j)
<1> DEFINE L == UNION M
           raw == RawReach(M, r)
           f == Margin(b, L, raw, h)
           wins == [o \in j |-> Beats(b, h, o)]
           losses == [o \in j |-> Beats(b, o, h)]
           minus == [o \in j |-> (-1) * losses[o]]
           diff == [o \in j |-> wins[o] + minus[o]]
           n == Cardinality(j)
           k == Cardinality(i)
<1>1. PICK o0 \in j : TRUE
  <2>1. j # {}
    BY IsoFacts
  <2> QED BY <2>1
<1>2. /\ IsFiniteSet(j) /\ i \in SUBSET L /\ j \in SUBSET L /\ h \in L /\ o0 \in L
      /\ n \in Nat \ {0} /\ k \in Nat \ {0}
  BY <1>1, IsoFacts
<1> DEFINE x == raw[o0]
<1>3. x \in Nat /\ x * n = r[j] /\ \A o \in j : raw[o] = x
  BY RawFacts
<1>4. \A o \in j : Beats(b, h, o) \in Int /\ Beats(b, o, h) \in Int
  BY <1>2, BeatsIs
<1>5. \A o \in j : /\ wins[o] \in Int /\ losses[o] \in Int /\ minus[o] \in Int /\ minus[o] = (-1) * losses[o]
                   /\ diff[o] \in Int /\ diff[o] = wins[o] + minus[o] /\ f[o] = x * diff[o]
  <2> TAKE o \in j
  <2>1. o \in L /\ f[o] = raw[o] * (Beats(b, h, o) - Beats(b, o, h)) /\ raw[o] = x
    BY <1>2, <1>3 DEF Margin
  <2> HIDE DEF f, x, raw
  <2> QED BY <1>4, <2>1
<1>6. Sum(wins, j) = Beaten(b, j, h) /\ Sum(losses, j) = BeatenBy(b, j, h)
  BY DEF Beaten, BeatenBy
<1> DEFINE W == Beaten(b, j, h)
           V == BeatenBy(b, j, h)
           total == Sum(f, j)
<1>7. W \in Int /\ V \in Int
  BY <1>2, BeatenIs
<1> HIDE DEF f, wins, losses, minus, diff, x, W, V
<1>8. total = x * (W + (-1) * V)
  <2>0. -1 \in Int
    OBVIOUS
  <2>1. Sum(minus, j) = (-1) * Sum(losses, j)
    BY <1>2, <1>5, <2>0, SumTimes
  <2>2. Sum(diff, j) = Sum(wins, j) + Sum(minus, j)
    BY <1>2, <1>5, SumPlus
  <2>3. Sum(f, j) = x * Sum(diff, j)
    BY <1>2, <1>3, <1>5, SumTimes
  <2> QED BY <1>6, <2>1, <2>2, <2>3 DEF W, V
<1> DEFINE u == Unit \div n
           v == Unit \div k
           back == Beaten(b, i, o0)
<1>9. u \in Nat /\ u * n = Unit /\ v \in Nat /\ v * k = Unit /\ Unit \in Nat \ {0}
  BY <1>2, DivExact DEF Fits
<1>10. k * V = n * back /\ back \in Int
  <2>1. back \in Int
    BY <1>2, BeatenIs
  <2> QED BY <1>1, <2>1, BothWays DEF V
<1>11. EquityDelta(WinProbMatrix(b, M), i, j) = u * W - v * back
  <2>1. WinProbMatrix(b, M)[i][j] = u * W
    BY WinIs DEF W
  <2>2. WinProbMatrix(b, M)[j][i] = v * back
    BY <1>1, WinIs
  <2> QED BY <2>1, <2>2 DEF EquityDelta
<1> HIDE DEF u, v, back, n, k
<1>12. n * (u * W - v * back) = Unit * (W + (-1) * V)
  <2>1. n * (v * back) = v * (n * back)
    BY ONLY <1>2, <1>9, <1>10
  <2>2. v * (k * V) = Unit * V
    BY ONLY <1>2, <1>7, <1>9
  <2>3. n * (u * W) = Unit * W
    BY ONLY <1>2, <1>7, <1>9
  <2>4. n * (v * back) = Unit * V
    BY <1>10, <2>1, <2>2
  <2>5. u * W \in Int /\ v * back \in Int
    BY <1>7, <1>9, <1>10
  <2> DEFINE p == u * W
             q == v * back
  <2> HIDE DEF p, q
  <2>6. n * (p - q) = n * p - n * q
    BY ONLY <1>2, <2>5 DEF p, q
  <2>7. Unit * (W + (-1) * V) = Unit * W - Unit * V
    BY ONLY <1>7, <1>9
  <2> QED BY <2>3, <2>4, <2>6, <2>7 DEF p, q
<1>13. r[j] * (u * W - v * back) = Unit * total
  <2> DEFINE e == u * W - v * back
             d == W + (-1) * V
  <2>1. e \in Int /\ d \in Int
    BY <1>7, <1>9, <1>10
  <2>2. n * e = Unit * d /\ total = x * d
    BY <1>8, <1>12
  <2> HIDE DEF e, d, total
  <2>3. (x * n) * e = x * (n * e)
    BY ONLY <1>2, <1>3, <2>1
  <2>4. x * (Unit * d) = Unit * (x * d)
    BY ONLY <1>3, <1>9, <2>1
  <2>5. r[j] * e = Unit * total
    BY <1>3, <2>2, <2>3, <2>4
  <2> QED BY <2>5 DEF e
<1> QED BY <1>11, <1>13 DEF f

LEMMA MarginIs ==
  ASSUME NEW b, IsBoard(b), NEW M, AreIsos(b, M), NEW r, Even(M, r), NEW h \in UNION M, NEW o \in UNION M
  PROVE  /\ Margin(b, UNION M, RawReach(M, r), h)[o]
              = RawReach(M, r)[o] * (Beats(b, h, o) - Beats(b, o, h))
         /\ Margin(b, UNION M, RawReach(M, r), h)[o] \in Int
<1>1. RawReach(M, r)[o] \in Nat
  BY RawIsNat
<1>2. Beats(b, h, o) \in Nat /\ Beats(b, o, h) \in Nat
  BY BeatsIs
<1> QED BY <1>1, <1>2 DEF Margin

MarginOver(b, M, r, h) == Sum(Margin(b, UNION M, RawReach(M, r), h), UNION M)

\* The delta mass of an iso hand is its hands' margin of wins over losses.
LEMMA DeltaIs ==
  ASSUME NEW b, IsBoard(b), NEW M, AreIsos(b, M), Fits(M), NEW r, Even(M, r), NEW i \in M, NEW h \in i
  PROVE  DeltaMass(WinProbMatrix(b, M), M, r)[i] = MarginOver(b, M, r, h)
<1> DEFINE win == WinProbMatrix(b, M)
           f == Margin(b, UNION M, RawReach(M, r), h)
           e == [j \in M |-> r[j] * EquityDelta(win, i, j)]
           parts == [j \in M |-> Sum(f, j)]
<1>1. DeltaMass(win, M, r)[i] = Sum(e, M) \div Unit
  <2> HIDE DEF win
  <2> QED BY DEF DeltaMass, Sum, SumOver, MapThenSumSet, MapThenFoldSet
<1>2. /\ IsFiniteSet(M) /\ h \in UNION M
      /\ \A j \in M : IsFiniteSet(j) /\ j \in SUBSET UNION M
      /\ \A j, k \in M : j \cap k # {} => j = k
  BY IsoFacts
<1>3. \A o \in UNION M : f[o] \in Int
  BY <1>2, MarginIs
<1>4. \A j \in M : e[j] = Unit * parts[j]
  <2> TAKE j \in M
  <2>1. r[j] * EquityDelta(win, i, j) = Unit * Sum(f, j)
    BY MarginOfIso
  <2> QED BY <2>1
<1>5. \A j \in M : parts[j] = Sum(f, j)
  OBVIOUS
<1> HIDE DEF e, f, parts
<1>6. \A j \in M : parts[j] \in Int
  <2> TAKE j \in M
  <2>1. IsFiniteSet(j) /\ \A o \in j : f[o] \in Int
    BY <1>2, <1>3
  <2>2. Sum(f, j) \in Int
    BY <2>1, SumInt
  <2> QED BY <1>5, <2>2
<1>7. Sum(f, UNION M) = Sum(parts, M)
  <2>1. \A j \in M : IsFiniteSet(j) /\ parts[j] = Sum(f, j) /\ \A o \in j : f[o] \in Int
    BY <1>2, <1>3, <1>5
  <2> QED BY <1>2, <2>1, SumParts
<1>8. Unit \in Nat \ {0} /\ Unit \in Int
  BY DEF Fits
<1>9. Sum(e, M) = Unit * Sum(parts, M)
  BY <1>2, <1>4, <1>6, <1>8, SumTimes
<1>10. Sum(parts, M) \in Int
  BY <1>2, <1>6, SumInt
<1>11. Sum(e, M) \div Unit = Sum(parts, M)
  BY <1>8, <1>9, <1>10, TimesDiv
<1> QED BY <1>1, <1>7, <1>11 DEF f, MarginOver

LEMMA RunoutsOfPairNat ==
  ASSUME NEW b, IsBoard(b)
  PROVE  RunoutsOfPair(b) \in Nat
<1> DEFINE places == 1 .. ChanceCards(b)
<1>1. IsFiniteSet(places)
  <2>1. Cardinality(Cards) \in Nat /\ Len(b) \in Nat
    BY CardsFinite, BoardCards, FS_CardinalityType
  <2>2. ChanceCards(b) \in Int
    BY <2>1 DEF ChanceCards
  <2> QED BY <2>2, FS_Interval
<1>2. IsFiniteSet(SUBSET places)
  BY <1>1, FS_SUBSET
<1>3. kSubset(RiverCards - Len(b), places) \in SUBSET SUBSET places
  BY DEF kSubset
<1> QED BY <1>2, <1>3, FS_Subset, FS_CardinalityType DEF RunoutsOfPair

\* Before the river, too, a showdown is each hand's pay against every hand it
\* may meet.
LEMMA RunoutIs ==
  ASSUME NEW b, IsBoard(b), NEW M, AreIsos(b, M), Fits(M), NEW r, Even(M, r),
         NEW payoff, IsPayoff(payoff), NEW i \in M, NEW h \in i
  PROVE  CalculateRunoutShowdown(b, M, r, payoff)[i] = Paid(b, M, r, payoff, h)
<1>0. DeltaMass(WinProbMatrix(b, M), M, r)[i] = MarginOver(b, M, r, h)
  BY DeltaIs
<1> DEFINE L == UNION M
           raw == RawReach(M, r)
           A == Against(L, h)
           f == Margin(b, L, raw, h)
           R == RunoutsOfPair(b)
           d == payoff.win - payoff.chop
           c == payoff.chop * R
           paid == PaidOf(b, L, raw, payoff, h)
           chops == [o \in A |-> c * raw[o]]
           moved == [o \in A |-> d * f[o]]
<1>1. IsFiniteSet(L) /\ h \in L
  BY IsoFacts
<1>2. IsFiniteSet(A) /\ A \in SUBSET L
  BY <1>1, AgainstIn
<1>3. CalculateRunoutShowdown(b, M, r, payoff)[i]
        = c * ValidMass(M, r)[i] + d * DeltaMass(WinProbMatrix(b, M), M, r)[i]
  BY DEF CalculateRunoutShowdown
<1>4. ValidMass(M, r)[i] = Sum(raw, A)
  BY ValidMassIs
<1>5. DeltaMass(WinProbMatrix(b, M), M, r)[i] = Sum(f, L)
  BY <1>0 DEF MarginOver
<1>6. \A o \in L : raw[o] \in Int /\ f[o] \in Int
  <2> TAKE o \in L
  <2>1. raw[o] \in Nat
    BY RawIsNat
  <2>2. f[o] \in Int
    BY <1>1, MarginIs
  <2> QED BY <2>1, <2>2
<1>7. \A o \in L \ A : f[o] = 0
  <2> TAKE o \in L \ A
  <2>1. o \cap h # {} /\ h \cap o # {}
    BY DEF Against
  <2>2. Beats(b, h, o) = 0 /\ Beats(b, o, h) = 0
    BY <2>1 DEF Beats
  <2>3. f[o] = raw[o] * (Beats(b, h, o) - Beats(b, o, h)) /\ raw[o] \in Int
    BY <1>1, <1>6, MarginIs
  <2> HIDE DEF f, raw
  <2> QED BY <2>2, <2>3
<1>8. d \in Int /\ payoff.chop \in Int /\ R \in Nat /\ c \in Int
  <2>1. d \in Int /\ payoff.chop \in Int
    BY DEF IsPayoff
  <2>2. R \in Nat
    BY RunoutsOfPairNat
  <2> HIDE DEF R, d
  <2> QED BY <2>1, <2>2
<1>9. ASSUME NEW o \in A
      PROVE  paid[o] = c * raw[o] + d * f[o]
  <2>1. o \in L /\ o \cap h = {} /\ h \cap o = {}
    BY DEF Against
  <2>2. h \in LiveHands(b) /\ o \in LiveHands(b)
    BY <1>1, <2>1, IsoFacts
  <2>3. PairValue(b, payoff, h, o) = c + d * (Wins(b, h, o) - Wins(b, o, h))
    BY <2>1, <2>2, PairValueIs
  <2>5. Wins(b, h, o) \in Nat /\ Wins(b, o, h) \in Nat
    BY WinsAre
  <2> DEFINE w == Wins(b, h, o) - Wins(b, o, h)
             x == raw[o]
  <2>6. f[o] = x * w
    <3>1. f[o] = raw[o] * (Beats(b, h, o) - Beats(b, o, h))
      BY <1>1, <2>1, MarginIs
    <3>2. Beats(b, h, o) = Wins(b, h, o) /\ Beats(b, o, h) = Wins(b, o, h)
      BY <2>1 DEF Beats
    <3> HIDE DEF f, raw
    <3> QED BY <3>1, <3>2
  <2>7. paid[o] = x * (c + d * w)
    <3>1. paid[o] = raw[o] * PairValue(b, payoff, h, o)
      BY <2>1 DEF PaidOf
    <3> HIDE DEF paid, raw, c, d
    <3> QED BY <2>3, <3>1
  <2>8. x \in Int /\ w \in Int /\ c \in Int
    <3> HIDE DEF raw, f
    <3> QED BY <1>6, <1>8, <2>1, <2>5
  <2> HIDE DEF w, x, c, d, f, paid
  <2>9. x * (c + d * w) = c * x + d * (x * w)
    BY ONLY <1>8, <2>8
  <2> QED BY <2>6, <2>7, <2>9 DEF x
<1>10. Paid(b, M, r, payoff, h) = Sum(paid, A)
  BY DEF Paid
<1>11. \A o \in A : /\ raw[o] \in Int /\ f[o] \in Int /\ chops[o] \in Int /\ moved[o] \in Int
                    /\ chops[o] = c * raw[o] /\ moved[o] = d * f[o] /\ paid[o] = chops[o] + moved[o]
  <2> HIDE DEF f, A, L, paid, c, d, raw
  <2> QED BY <1>2, <1>6, <1>8, <1>9
<1> HIDE DEF f, A, L, paid, c, d, raw, chops, moved
<1>12. Sum(f, L) = Sum(f, A)
  BY <1>1, <1>2, <1>6, <1>7, SumWhere
<1>13. Sum(chops, A) = c * Sum(raw, A)
  BY <1>2, <1>8, <1>11, SumTimes
<1>14. Sum(moved, A) = d * Sum(f, A)
  BY <1>2, <1>8, <1>11, SumTimes
<1>15. Sum(paid, A) = Sum(chops, A) + Sum(moved, A)
  BY <1>2, <1>11, SumPlus
<1> QED BY <1>3, <1>4, <1>5, <1>10, <1>12, <1>13, <1>14, <1>15

\* CalculateShowdown, on every board.
LEMMA ShowdownIs ==
  ASSUME NEW b, IsBoard(b), NEW M, AreIsos(b, M), Fits(M), NEW r, Even(M, r),
         NEW payoff, IsPayoff(payoff), NEW i \in M, NEW h \in i
  PROVE  CalculateShowdown(b, M, r, payoff)[i] = Paid(b, M, r, payoff, h)
BY RiverIs, RunoutIs DEF CalculateShowdown

LEMMA PaidInt ==
  ASSUME NEW b, IsBoard(b), NEW M, AreIsos(b, M), NEW r, Even(M, r),
         NEW payoff, IsPayoff(payoff), NEW h \in UNION M
  PROVE  /\ Paid(b, M, r, payoff, h) \in Int
         /\ \A o \in Against(UNION M, h) :
              /\ PaidOf(b, UNION M, RawReach(M, r), payoff, h)[o] \in Int
              /\ PaidOf(b, UNION M, RawReach(M, r), payoff, h)[o]
                   = RawReach(M, r)[o] * PairValue(b, payoff, h, o)
              /\ PairValue(b, payoff, h, o) \in Int /\ RawReach(M, r)[o] \in Nat
<1> DEFINE L == UNION M
           raw == RawReach(M, r)
           paid == PaidOf(b, L, raw, payoff, h)
           A == Against(L, h)
<1>1. IsFiniteSet(L)
  BY IsoFacts
<1>2. IsFiniteSet(A) /\ A \in SUBSET L
  BY <1>1, AgainstIn
<1>3. ASSUME NEW o \in A
      PROVE  /\ paid[o] \in Int /\ paid[o] = raw[o] * PairValue(b, payoff, h, o)
             /\ PairValue(b, payoff, h, o) \in Int /\ raw[o] \in Nat
  <2>1. o \in L /\ h \cap o = {}
    BY DEF Against
  <2>2. h \in LiveHands(b) /\ o \in LiveHands(b)
    BY <2>1, IsoFacts
  <2>3. PairValue(b, payoff, h, o) \in Int
    BY <2>1, <2>2, PairValueIs
  <2>4. raw[o] \in Nat
    BY <2>1, RawIsNat
  <2>5. paid[o] = raw[o] * PairValue(b, payoff, h, o)
    BY <2>1 DEF PaidOf
  <2> HIDE DEF raw, paid
  <2> QED BY <2>3, <2>4, <2>5
<1> HIDE DEF paid, A
<1>4. Sum(paid, A) \in Int
  BY <1>2, <1>3, SumInt
<1> QED BY <1>3, <1>4 DEF Paid, paid, A

-----------------------------------------------------------------------------
(***************************************************************************)
(* A card more on the board.                                               *)
(***************************************************************************)
\* Multiples.
LEMMA MultipleOf ==
  ASSUME NEW a \in Nat, NEW u \in Nat \ {0}, NEW n \in Nat \ {0}, a % u = 0, u % n = 0
  PROVE  a % n = 0
<1> DEFINE q == a \div u
           k == u \div n
<1>1. q \in Nat /\ q * u = a /\ k \in Nat /\ k * n = u
  BY DivExact
<1> HIDE DEF q, k
<1>2. a = (q * k) * n + 0 /\ q * k \in Nat
  BY ONLY <1>1, n \in Nat \ {0}
<1>3. 0 \in 0 .. n - 1
  OBVIOUS
<1> QED BY <1>2, <1>3, Apart

LEMMA SumMultiple ==
  ASSUME NEW f, NEW S, IsFiniteSet(S), NEW n \in Nat \ {0}, \A x \in S : f[x] \in Nat /\ f[x] % n = 0
  PROVE  Sum(f, S) \in Nat /\ Sum(f, S) % n = 0
<1> DEFINE g == [x \in S |-> f[x] \div n]
           total == Sum(g, S)
<1>1. \A x \in S : g[x] \in Nat /\ f[x] = n * g[x]
  <2> TAKE x \in S
  <2>1. f[x] \div n \in Nat /\ (f[x] \div n) * n = f[x]
    BY DivExact
  <2>2. g[x] = f[x] \div n
    OBVIOUS
  <2> HIDE DEF g
  <2> QED BY <2>1, <2>2
<1> HIDE DEF g
<1>2. \A x \in S : g[x] \in Int
  BY <1>1
<1>3. total \in Nat /\ Sum(f, S) = n * total
  <2>1. total \in Nat
    BY <1>1, SumNat
  <2>2. n \in Int
    OBVIOUS
  <2>3. Sum(f, S) = n * total
    BY <1>1, <1>2, <2>2, SumTimes
  <2> QED BY <2>1, <2>3
<1> HIDE DEF total
<1>4. n * total = total * n + 0 /\ n * total \in Nat /\ 0 \in 0 .. n - 1
  BY <1>3
<1> QED BY <1>3, <1>4, Apart

LEMMA IsoSize ==
  ASSUME NEW b, IsBoard(b), NEW M, AreIsos(b, M), NEW iso \in M
  PROVE  iso # {} /\ Cardinality(iso) \in Nat \ {0}
BY IsoFacts

-----------------------------------------------------------------------------
\* A card more.
LEMMA LongerBoard ==
  ASSUME NEW b, IsBoard(b), Len(b) < RiverCards, NEW card \in Cards, card \notin ToSet(b)
  PROVE  /\ IsBoard(Append(b, card)) /\ ToSet(Append(b, card)) = ToSet(b) \cup {card}
         /\ Len(Append(b, card)) = Len(b) + 1
<1> DEFINE longer == Append(b, card)
<1>1. b \in Seq(Cards) /\ Len(b) \in Nat /\ IsInjective(b) /\ Len(b) \in FlopCards .. RiverCards
      /\ FlopCards \in Nat /\ RiverCards \in Nat
  BY BoardCards, DeckAssumption DEF IsBoard, RiverCards
<1>2. /\ longer \in Seq(Cards) /\ Len(longer) = Len(b) + 1 /\ DOMAIN longer = 1 .. Len(b) + 1
      /\ longer[Len(b) + 1] = card /\ \A i \in 1 .. Len(b) : longer[i] = b[i]
      /\ DOMAIN b = 1 .. Len(b)
  BY <1>1
<1>3. Len(longer) \in FlopCards .. RiverCards
  BY <1>1, <1>2
<1> HIDE DEF longer
<1>4. \A i \in 1 .. Len(b) : b[i] \in ToSet(b)
  BY <1>2 DEF ToSet
<1>5. \A i, j \in DOMAIN longer : longer[i] = longer[j] => i = j
  <2> TAKE i, j \in DOMAIN longer
  <2>1. \A k \in DOMAIN longer : k = Len(b) + 1 \/ k \in 1 .. Len(b)
    BY <1>1, <1>2
  <2>2. \A k, l \in 1 .. Len(b) : b[k] = b[l] => k = l
    BY <1>1, <1>2 DEF IsInjective
  <2> QED BY <1>2, <1>4, <2>1, <2>2
<1>6. IsInjective(longer)
  BY <1>5 DEF IsInjective
<1>7. ToSet(longer) = ToSet(b) \cup {card}
  <2>1. \A k \in DOMAIN longer : k = Len(b) + 1 \/ k \in 1 .. Len(b)
    BY <1>1, <1>2
  <2>2. Len(b) + 1 \in DOMAIN longer /\ \A k \in 1 .. Len(b) : k \in DOMAIN longer
    BY <1>1, <1>2
  <2> QED BY <1>2, <2>1, <2>2 DEF ToSet
<1> QED BY <1>2, <1>3, <1>6, <1>7 DEF longer, IsBoard

LEMMA LiveHandsLonger ==
  ASSUME NEW b, IsBoard(b), Len(b) < RiverCards, NEW card \in Cards, card \notin ToSet(b)
  PROVE  LiveHands(Append(b, card)) = {h \in LiveHands(b) : card \notin h}
BY LongerBoard DEF LiveHands

\* The iso hands of a longer board are parts of the shorter's.
LEMMA IsosBelow ==
  ASSUME NEW b, IsBoard(b), Len(b) < RiverCards, NEW card \in Cards, card \notin ToSet(b), NEW hands,
         NEW iso \in Mapping(Append(b, card), hands)
  PROVE  \E j \in Mapping(b, hands) : iso \subseteq j
<1>1. PICK h \in hands \cap LiveHands(Append(b, card)) : iso = Orbit(Append(b, card), h)
  BY MappingIs
<1>2. h \in hands \cap LiveHands(b)
  BY <1>1, LiveHandsLonger
<1>3. Renamings(Append(b, card)) \subseteq Renamings(b)
  BY BoardCards, RenamingsShrink
<1>4. iso \subseteq Orbit(b, h)
  BY <1>1, <1>3 DEF Orbit
<1> QED BY <1>2, <1>4, MappingIs

LEMMA HandsBelow ==
  ASSUME NEW b, IsBoard(b), Len(b) < RiverCards, NEW card \in Cards, card \notin ToSet(b),
         NEW hands \in SUBSET Hands, Accepts(b, hands)
  PROVE  UNION Mapping(Append(b, card), hands) = {h \in UNION Mapping(b, hands) : card \notin h}
<1>1. UNION Mapping(b, hands) = hands \cap LiveHands(b)
  BY BoardCards, MappingPartitions DEF Partitions
<1>2. UNION Mapping(Append(b, card), hands) = hands \cap LiveHands(Append(b, card))
  <2>1. CASE hands \cap LiveHands(Append(b, card)) = {}
    BY <2>1, MappingIs
  <2>2. CASE hands \cap LiveHands(Append(b, card)) # {}
    <3>1. Accepts(Append(b, card), hands)
      BY <2>2, BoardCards, AcceptsBelow
    <3>2. Append(b, card) \in Seq(Cards) /\ Len(Append(b, card)) >= FlopCards
      BY LongerBoard, BoardCards
    <3> QED BY <3>1, <3>2, MappingPartitions DEF Partitions
  <2> QED BY <2>1, <2>2
<1>3. LiveHands(Append(b, card)) = {h \in LiveHands(b) : card \notin h}
  BY LiveHandsLonger
<1> QED BY <1>1, <1>2, <1>3

\* Reaches go to a longer board as the parts of the hands they are.
LEMMA ReachBelow ==
  ASSUME NEW b, IsBoard(b), Len(b) < RiverCards, NEW card \in Cards, card \notin ToSet(b), NEW hands,
         NEW r, Even(Mapping(b, hands), r),
         NEW iso \in Mapping(Append(b, card), hands), NEW h \in iso
  PROVE  PropagateChanceReach(Mapping(b, hands), Mapping(Append(b, card), hands), r)[iso]
           = RawReach(Mapping(b, hands), r)[h] * Cardinality(iso)
<1> DEFINE M == Mapping(b, hands)
           C == Mapping(Append(b, card), hands)
           S == {edge \in Edges(M, C) : edge[2] = iso}
           f == [edge \in S |-> Weighted(edge[1], edge[2], r[edge[1]])]
<1>1. IsBoard(Append(b, card)) /\ AreIsos(Append(b, card), C) /\ AreIsos(b, M)
  BY LongerBoard, MappingAreIsos
<1>2. PICK j \in M : iso \subseteq j
  BY IsosBelow
<1>0. iso \in C /\ Even(M, r)
  OBVIOUS
<1> HIDE DEF M, C
<1>3. iso # {} /\ Cardinality(iso) \in Nat
  BY <1>0, <1>1, IsoSize
<1>4. PropagateChanceReach(M, C, r)[iso] = Sum(f, S)
  <2>1. PropagateChanceReach(M, C, r)[iso] = SumOver(S, LAMBDA edge : Weighted(edge[1], edge[2], r[edge[1]]))
    BY <1>0 DEF PropagateChanceReach
  <2> HIDE DEF S
  <2> QED BY <2>1 DEF Sum, SumOver, MapThenSumSet, MapThenFoldSet
<1>5. \A i \in M : i \cap iso # {} => i = j
  <2>1. \A i, k \in M : i \cap k # {} => i = k
    BY <1>1, IsoFacts
  <2> QED BY <1>2, <2>1
<1>6. S = {<<j, iso>>}
  <2>1. <<j, iso>> \in S
    <3>1. j \cap iso # {}
      BY <1>2, <1>3
    <3>2. <<j, iso>> \in M \X C /\ iso \in C
      BY <1>2 DEF C
    <3> QED BY <3>1, <3>2 DEF Edges
  <2>2. \A edge \in S : edge = <<j, iso>>
    <3> TAKE edge \in S
    <3>1. edge \in M \X C /\ edge[1] \cap edge[2] # {} /\ edge[2] = iso
      BY DEF Edges
    <3>2. edge = <<edge[1], edge[2]>> /\ edge[1] \in M
      BY <3>1
    <3>3. edge[1] = j
      BY <1>5, <3>1, <3>2
    <3> QED BY <3>1, <3>2, <3>3
  <2> HIDE DEF S
  <2> QED BY <2>1, <2>2
<1> DEFINE x == RawReach(M, r)[h]
           n == Cardinality(iso)
           k == Cardinality(j)
           pair == <<j, iso>>
<1>7. x \in Nat /\ x * k = r[j] /\ k \in Nat \ {0}
  <2>1. h \in j
    BY <1>2
  <2>2. x \in Nat /\ x * k = r[j]
    BY <1>0, <1>1, <2>1, RawFacts
  <2>3. k \in Nat \ {0}
    BY <1>1, IsoFacts
  <2> QED BY <2>2, <2>3
<1>8. f[pair] = (r[j] * n) \div k
  <2>1. pair \in S /\ pair[1] = j /\ pair[2] = iso
    BY <1>6
  <2>2. j \cap iso = iso
    BY <1>2
  <2>3. f[pair] = Weighted(j, iso, r[j])
    BY <2>1
  <2> HIDE DEF f, pair
  <2> QED BY <2>2, <2>3 DEF Weighted
<1> HIDE DEF f, S, x, n, k, pair
<1>9. (r[j] * n) \div k = x * n /\ x * n \in Int
  <2>1. n \in Nat
    BY <1>3 DEF n
  <2>2. r[j] * n = k * (x * n) /\ x * n \in Int
    <3>1. (x * k) * n = k * (x * n) /\ x * n \in Int
      BY ONLY <1>7, <2>1
    <3> QED BY <1>7, <3>1
  <2> QED BY <1>7, <2>2, TimesDiv
<1>10. Sum(f, {pair}) = f[pair]
  <2>1. IsFiniteSet({pair}) /\ Cardinality({pair}) = 1
    BY FS_Singleton
  <2>2. f[pair] \in Int
    BY <1>8, <1>9
  <2>3. Sum(f, {pair}) = Cardinality({pair}) * f[pair]
    BY <2>1, <2>2, SumConst
  <2> QED BY <2>1, <2>2, <2>3
<1> QED BY <1>4, <1>6, <1>8, <1>9, <1>10 DEF pair, x, n, M, C

\* The reach below is even again.
LEMMA ReachesBelow ==
  ASSUME NEW b, IsBoard(b), Len(b) < RiverCards, NEW card \in Cards, card \notin ToSet(b), NEW hands,
         NEW r, Even(Mapping(b, hands), r), NEW below,
         below = PropagateChanceReach(Mapping(b, hands), Mapping(Append(b, card), hands), r)
  PROVE  /\ Even(Mapping(Append(b, card), hands), below)
         /\ \A h \in UNION Mapping(Append(b, card), hands) :
              RawReach(Mapping(Append(b, card), hands), below)[h] = RawReach(Mapping(b, hands), r)[h]
<1> DEFINE M == Mapping(b, hands)
           C == Mapping(Append(b, card), hands)
<1>1. IsBoard(Append(b, card)) /\ AreIsos(Append(b, card), C) /\ AreIsos(b, M)
  BY LongerBoard, MappingAreIsos
<1>2. DOMAIN below = C /\ below = [iso \in C |-> below[iso]]
  BY DEF PropagateChanceReach
<1>3. ASSUME NEW iso \in C, NEW h \in iso
      PROVE  /\ RawReach(M, r)[h] \in Nat /\ Cardinality(iso) \in Nat \ {0}
             /\ below[iso] = RawReach(M, r)[h] * Cardinality(iso)
  <2>1. below[iso] = RawReach(M, r)[h] * Cardinality(iso)
    BY ReachBelow
  <2>2. h \in UNION M
    <3>1. PICK j \in M : iso \subseteq j
      BY IsosBelow
    <3> QED BY <3>1
  <2>3. RawReach(M, r)[h] \in Nat
    <3> HIDE DEF M
    <3>1. Even(M, r)
      BY DEF M
    <3> QED BY <1>1, <2>2, <3>1, RawIsNat
  <2>4. Cardinality(iso) \in Nat \ {0}
    <3>1. iso \in C
      OBVIOUS
    <3> HIDE DEF C
    <3> QED BY <1>1, <3>1, IsoSize
  <2> QED BY <2>1, <2>3, <2>4
<1> HIDE DEF M, C
<1>4. ASSUME NEW iso \in C
      PROVE  below[iso] \in Nat /\ below[iso] % Cardinality(iso) = 0
  <2>1. PICK h \in iso : TRUE
    <3>1. iso # {}
      BY <1>1, IsoSize
    <3> QED BY <3>1
  <2> DEFINE x == RawReach(M, r)[h]
             n == Cardinality(iso)
  <2>2. x \in Nat /\ n \in Nat \ {0} /\ below[iso] = x * n
    BY <1>3
  <2> HIDE DEF x, n
  <2>3. x * n = x * n + 0 /\ x * n \in Nat /\ 0 \in 0 .. n - 1
    BY <2>2
  <2>4. (x * n) % n = 0
    BY <2>2, <2>3, Apart
  <2> QED BY <2>2, <2>3, <2>4 DEF n
<1>5. Even(C, below)
  BY <1>2, <1>4 DEF Even
<1>6. ASSUME NEW h \in UNION C
      PROVE  RawReach(C, below)[h] = RawReach(M, r)[h]
  <2>1. PICK iso \in C : h \in iso
    OBVIOUS
  <2> DEFINE x == RawReach(M, r)[h]
             n == Cardinality(iso)
  <2>2. x \in Nat /\ n \in Nat \ {0} /\ below[iso] = x * n
    BY <1>3, <2>1
  <2>3. RawReach(C, below)[h] = below[iso] \div n
    BY <1>1, <1>5, <2>1, RawFacts
  <2> HIDE DEF x, n
  <2>4. x * n = n * x /\ x \in Int
    BY <2>2
  <2>5. (n * x) \div n = x
    BY <2>2, <2>4, TimesDiv
  <2> QED BY <2>2, <2>3, <2>4, <2>5 DEF x
<1> QED BY <1>5, <1>6 DEF M, C

-----------------------------------------------------------------------------
(***************************************************************************)
(* Equities: each pair of hands shares what it plays for.                  *)
(***************************************************************************)
\* A sum over iso hands, each taken as often as it is held, is one over hands.
LEMMA SumOverIsos ==
  ASSUME NEW b, IsBoard(b), NEW M, AreIsos(b, M), NEW r, Even(M, r), NEW own, Even(M, own),
         NEW f, \A h \in UNION M : f[h] \in Int,
         NEW e, \A iso \in M : \A h \in iso : e[iso] = own[iso] * f[h],
         NEW g, \A h \in UNION M : g[h] = RawReach(M, own)[h] * f[h]
  PROVE  Sum(e, M) = Sum(g, UNION M)
<1> DEFINE raw == RawReach(M, own)
<1>1. /\ IsFiniteSet(M) /\ \A iso \in M : IsFiniteSet(iso) /\ iso # {} /\ iso \in SUBSET UNION M
      /\ \A i, j \in M : i \cap j # {} => i = j
  BY IsoFacts
<1>2. ASSUME NEW iso \in M
      PROVE  \A h \in iso : /\ raw[h] \in Nat /\ Cardinality(iso) \in Nat
                            /\ raw[h] * Cardinality(iso) = own[iso]
  BY RawFacts, IsoSize
<1>3. \A h \in UNION M : g[h] \in Int /\ g[h] = raw[h] * f[h]
  <2> TAKE h \in UNION M
  <2>1. raw[h] \in Nat
    BY <1>2
  <2>2. g[h] = raw[h] * f[h]
    OBVIOUS
  <2> HIDE DEF raw
  <2> QED BY <2>1, <2>2
<1> HIDE DEF raw
<1>4. ASSUME NEW iso \in M
      PROVE  e[iso] = Sum(g, iso)
  <2>1. PICK h0 \in iso : TRUE
    BY <1>1
  <2> DEFINE n == Cardinality(iso)
             x == raw[h0]
             y == f[h0]
  <2>2. x \in Nat /\ n \in Nat /\ x * n = own[iso] /\ y \in Int /\ e[iso] = own[iso] * y
    BY <1>1, <1>2, <2>1
  <2>3. n # 0
    BY IsoSize
  <2>4. ASSUME NEW h \in iso
        PROVE  g[h] = x * y
    <3> DEFINE z == raw[h]
               w == f[h]
    <3>1. z \in Nat /\ z * n = own[iso] /\ w \in Int /\ e[iso] = own[iso] * w /\ g[h] = z * w
      BY <1>1, <1>2, <1>3
    <3> HIDE DEF n, x, y, z, w
    <3>2. z = x
      BY ONLY <2>2, <2>3, <3>1
    <3>3. x = 0 \/ w = y
      BY ONLY <2>2, <2>3, <3>1, <3>2
    <3> QED BY <2>2, <3>1, <3>2, <3>3
  <2> HIDE DEF x, y
  <2>5. x * y \in Int
    BY <2>2
  <2>6. Sum(g, iso) = Cardinality(iso) * (x * y)
    BY <1>1, <2>4, <2>5, SumConst
  <2> HIDE DEF n
  <2>7. n * (x * y) = (x * n) * y
    BY ONLY <2>2
  <2> QED BY <2>2, <2>6, <2>7 DEF n
<1>5. Sum(g, UNION M) = Sum(e, M)
  <2>1. \A iso \in M : IsFiniteSet(iso) /\ e[iso] = Sum(g, iso) /\ \A h \in iso : g[h] \in Int
    BY <1>1, <1>3, <1>4
  <2> QED BY <1>1, <2>1, SumParts
<1> QED BY <1>5

\* What each hand of a range is paid by each of the other's.
PaidPairs(b, M, own, r, payoff) ==
  [h \in UNION M |-> [o \in UNION M |->
     IF o \cap h = {} THEN RawReach(M, own)[h] * (RawReach(M, r)[o] * PairValue(b, payoff, h, o)) ELSE 0]]
PaidRows(b, M, own, r, payoff) ==
  [h \in UNION M |-> Sum(PaidPairs(b, M, own, r, payoff)[h], UNION M)]
PaidRange(b, M, own, r, payoff) == Sum(PaidRows(b, M, own, r, payoff), UNION M)

LEMMA PaidPairsAre ==
  ASSUME NEW b, IsBoard(b), NEW M, AreIsos(b, M), NEW own, Even(M, own), NEW r, Even(M, r),
         NEW payoff, IsPayoff(payoff), NEW h \in UNION M, NEW o \in UNION M
  PROVE  /\ PaidPairs(b, M, own, r, payoff)[h][o] \in Int
         /\ PaidPairs(b, M, own, r, payoff)[h][o]
              = IF o \cap h = {} THEN RawReach(M, own)[h] * (RawReach(M, r)[o] * PairValue(b, payoff, h, o))
                ELSE 0
<1>1. RawReach(M, own)[h] \in Nat /\ RawReach(M, r)[o] \in Nat
  BY RawIsNat
<1>2. o \cap h = {} => PairValue(b, payoff, h, o) \in Int
  <2>1. h \in LiveHands(b) /\ o \in LiveHands(b)
    BY IsoFacts
  <2>2. h \cap o = o \cap h
    OBVIOUS
  <2> QED BY <2>1, <2>2, PairValueIs
<1>3. PaidPairs(b, M, own, r, payoff)[h][o]
        = IF o \cap h = {} THEN RawReach(M, own)[h] * (RawReach(M, r)[o] * PairValue(b, payoff, h, o)) ELSE 0
  BY DEF PaidPairs
<1> QED BY <1>1, <1>2, <1>3

\* Over the hands of a range, what they are paid.
LEMMA PaidRangeIs ==
  ASSUME NEW b, IsBoard(b), NEW M, AreIsos(b, M), NEW own, Even(M, own), NEW r, Even(M, r),
         NEW payoff, IsPayoff(payoff),
         NEW e, \A iso \in M : \A h \in iso : e[iso] = own[iso] * Paid(b, M, r, payoff, h)
  PROVE  Sum(e, M) = PaidRange(b, M, own, r, payoff) /\ PaidRange(b, M, own, r, payoff) \in Int
<1> DEFINE L == UNION M
           f == [h \in L |-> Paid(b, M, r, payoff, h)]
           x == RawReach(M, own)
           weighed == [h \in L |-> x[h] * f[h]]
           rows == PaidRows(b, M, own, r, payoff)
<1>1. IsFiniteSet(L)
  BY IsoFacts
<1>2. \A h \in L : f[h] \in Int /\ x[h] \in Nat
  BY PaidInt, RawIsNat
<1>3. \A iso \in M : \A h \in iso : e[iso] = own[iso] * f[h]
  OBVIOUS
<1>4. Sum(e, M) = Sum(weighed, L)
  <2>1. \A h \in UNION M : f[h] \in Int
    BY <1>2
  <2>2. \A h \in UNION M : weighed[h] = RawReach(M, own)[h] * f[h]
    OBVIOUS
  <2> HIDE DEF f, weighed
  <2> QED BY <2>1, <2>2, <1>3, SumOverIsos
<1>5. ASSUME NEW h \in L
      PROVE  weighed[h] = rows[h] /\ rows[h] \in Int
  <2> DEFINE A == Against(L, h)
             paid == PaidOf(b, L, RawReach(M, r), payoff, h)
             pairs == PaidPairs(b, M, own, r, payoff)[h]
             k == x[h]
  <2>1. IsFiniteSet(A) /\ A \in SUBSET L
    BY <1>1, AgainstIn
  <2>2. \A o \in A : paid[o] \in Int /\ paid[o] = RawReach(M, r)[o] * PairValue(b, payoff, h, o)
    BY PaidInt
  <2>3. \A o \in A : o \in L /\ o \cap h = {}
    BY DEF Against
  <2>4. \A o \in L \ A : o \cap h # {}
    BY DEF Against
  <2>5. f[h] = Sum(paid, A)
    BY DEF Paid
  <2>6. rows[h] = Sum(pairs, L)
    BY DEF PaidRows
  <2>7. weighed[h] = k * f[h]
    OBVIOUS
  <2>70. k \in Int
    <3>1. x[h] \in Nat
      BY <1>2
    <3> HIDE DEF x
    <3> QED BY <3>1
  <2>8. \A o \in L : pairs[o] \in Int /\ pairs[o]
          = IF o \cap h = {} THEN k * (RawReach(M, r)[o] * PairValue(b, payoff, h, o)) ELSE 0
    BY PaidPairsAre
  <2> HIDE DEF A, paid, pairs, k, f, rows, weighed, x, L
  <2>9. \A o \in A : pairs[o] = k * paid[o] /\ pairs[o] \in Int
    BY <2>2, <2>3, <2>8
  <2>10. \A o \in L \ A : pairs[o] = 0
    BY <2>4, <2>8
  <2>11. Sum(pairs, L) = Sum(pairs, A)
    BY <1>1, <2>1, <2>9, <2>10, SumWhere
  <2>12. Sum(pairs, A) = k * Sum(paid, A)
    BY <2>1, <2>2, <2>70, <2>9, SumTimes
  <2>13. Sum(pairs, L) \in Int
    BY <1>1, <2>8, SumInt
  <2> QED BY <2>5, <2>6, <2>7, <2>11, <2>12, <2>13
<1> HIDE DEF L, f, x, weighed, rows
<1>6. Sum(weighed, L) = Sum(rows, L)
  BY <1>1, <1>5, SumSame
<1>7. Sum(rows, L) \in Int
  BY <1>1, <1>5, SumInt
<1> QED BY <1>4, <1>6, <1>7 DEF PaidRange, rows, L

\* The pairs of the other range with this one, from this one's side.
Turned(b, M, own, r, payoff) ==
  [h \in UNION M |-> [o \in UNION M |-> PaidPairs(b, M, r, own, payoff)[o][h]]]
TurnedRows(b, M, own, r, payoff) ==
  [h \in UNION M |-> Sum(Turned(b, M, own, r, payoff)[h], UNION M)]

LEMMA TurnedPair ==
  ASSUME NEW b, NEW M, NEW own, NEW r, NEW payoff, NEW h \in UNION M, NEW o \in UNION M
  PROVE  Turned(b, M, own, r, payoff)[h][o] = PaidPairs(b, M, r, own, payoff)[o][h]
BY DEF Turned

\* From the other side, a pair is paid the other way round.
LEMMA TurnedIs ==
  ASSUME NEW b, IsBoard(b), NEW M, AreIsos(b, M), NEW own, Even(M, own), NEW r, Even(M, r),
         NEW payoff, IsPayoff(payoff)
  PROVE  Sum(TurnedRows(b, M, own, r, payoff), UNION M) = PaidRange(b, M, r, own, payoff)
<1> DEFINE L == UNION M
           m == PaidPairs(b, M, r, own, payoff)
           t == Turned(b, M, own, r, payoff)
           rows == PaidRows(b, M, r, own, payoff)
           cols == TurnedRows(b, M, own, r, payoff)
<1>1. IsFiniteSet(L)
  BY IsoFacts
<1>2. \A h, o \in L : m[h][o] \in Int
  BY PaidPairsAre
<1>3. \A h, o \in L : m[h][o] \in Int /\ t[o][h] = m[h][o]
  BY <1>2, TurnedPair
<1>4. \A h \in L : rows[h] = Sum(m[h], L)
  BY DEF PaidRows
<1>5. \A o \in L : cols[o] = Sum(t[o], L)
  BY DEF TurnedRows
<1> HIDE DEF m, t, rows, cols, L
<1>6. IsTable(m, t, rows, cols, L, L)
  BY <1>3, <1>4, <1>5 DEF IsTable
<1>7. Sum(rows, L) = Sum(cols, L)
  BY <1>1, <1>6, SumSwap
<1> QED BY <1>7 DEF PaidRange, rows, cols, L

EquityPayoff == [lose |-> 0, chop |-> 1, win |-> 2]
MassPayoff == [lose |-> 2, chop |-> 2, win |-> 2]

\* Two points for every pair and runout.
LEMMA EquityPairs ==
  ASSUME NEW b, IsBoard(b), NEW h \in LiveHands(b), NEW o \in LiveHands(b), o \cap h = {}
  PROVE  /\ IsPayoff(EquityPayoff) /\ IsPayoff(MassPayoff)
         /\ PairValue(b, MassPayoff, h, o) = 2 * RunoutsOfPair(b)
         /\ PairValue(b, EquityPayoff, h, o) + PairValue(b, EquityPayoff, o, h) = 2 * RunoutsOfPair(b)
         /\ PairValue(b, EquityPayoff, h, o) \in Int /\ PairValue(b, EquityPayoff, o, h) \in Int
<1>1. IsPayoff(EquityPayoff) /\ IsPayoff(MassPayoff)
  BY DEF IsPayoff, EquityPayoff, MassPayoff
<1>2. h \cap o = {}
  OBVIOUS
<1> DEFINE R == RunoutsOfPair(b)
           v == Wins(b, h, o)
           w == Wins(b, o, h)
<1>3. R \in Nat /\ v \in Nat /\ w \in Nat
  BY RunoutsOfPairNat, WinsAre
<1>4. PairValue(b, MassPayoff, h, o)
        = MassPayoff.chop * R + (MassPayoff.win - MassPayoff.chop) * (v - w)
  BY <1>1, <1>2, PairValueIs
<1>5. PairValue(b, EquityPayoff, h, o)
        = EquityPayoff.chop * R + (EquityPayoff.win - EquityPayoff.chop) * (v - w)
  BY <1>1, <1>2, PairValueIs
<1>6. PairValue(b, EquityPayoff, o, h)
        = EquityPayoff.chop * R + (EquityPayoff.win - EquityPayoff.chop) * (w - v)
  BY <1>1, <1>2, PairValueIs
<1>7. /\ MassPayoff.chop = 2 /\ MassPayoff.win = 2
      /\ EquityPayoff.chop = 1 /\ EquityPayoff.win = 2
  BY DEF MassPayoff, EquityPayoff
<1> HIDE DEF R, v, w
<1>8. 0 * (v - w) = 0 /\ 1 * (v - w) = v - w /\ 1 * (w - v) = w - v
  BY <1>3
<1> QED BY <1>1, <1>3, <1>4, <1>5, <1>6, <1>7, <1>8 DEF R

\* The equity of a range is what it is paid for its wins and chops.
LEMMA EquityIs ==
  ASSUME NEW b, IsBoard(b), NEW M, AreIsos(b, M), Fits(M), NEW own, Even(M, own), NEW r, Even(M, r)
  PROVE  /\ RangeEquity(b, M, own, r).numerator = PaidRange(b, M, own, r, EquityPayoff)
         /\ RangeEquity(b, M, own, r).denominator = PaidRange(b, M, own, r, MassPayoff)
<1> DEFINE mass == EquityMass(b, M, r)
           valid == ValidMass(M, r)
           n == 2 * RunoutsOfPair(b)
           e == [iso \in M |-> own[iso] * mass[iso]]
           d == [iso \in M |-> n * own[iso] * valid[iso]]
<1>1. /\ RangeEquity(b, M, own, r).numerator = SumOver(M, LAMBDA iso : own[iso] * mass[iso])
      /\ RangeEquity(b, M, own, r).denominator
           = SumOver(M, LAMBDA iso : 2 * RunoutsOfPair(b) * own[iso] * valid[iso])
  BY DEF RangeEquity
<1>2. IsPayoff(EquityPayoff) /\ IsPayoff(MassPayoff)
  BY DEF IsPayoff, EquityPayoff, MassPayoff
<1>3. \A iso \in M : \A h \in iso : mass[iso] = Paid(b, M, r, EquityPayoff, h)
  <2> TAKE iso \in M
  <2> TAKE h \in iso
  <2>1. mass = CalculateShowdown(b, M, r, EquityPayoff)
    BY DEF EquityMass, EquityPayoff
  <2> HIDE DEF mass
  <2> QED BY <2>1, <1>2, ShowdownIs
<1>4. \A iso \in M : \A h \in iso : e[iso] = own[iso] * Paid(b, M, r, EquityPayoff, h)
  BY <1>3
<1>5. ASSUME NEW iso \in M, NEW h \in iso
      PROVE  d[iso] = own[iso] * Paid(b, M, r, MassPayoff, h)
  <2> DEFINE A == Against(UNION M, h)
             raw == RawReach(M, r)
             paid == PaidOf(b, UNION M, raw, MassPayoff, h)
  <2>1. h \in UNION M /\ h \in LiveHands(b)
    BY IsoOfHand
  <2>2. IsFiniteSet(A) /\ \A o \in A : o \in UNION M /\ o \cap h = {} /\ o \in LiveHands(b)
    <3>1. IsFiniteSet(UNION M) /\ UNION M \in SUBSET LiveHands(b)
      BY IsoFacts
    <3> QED BY <3>1, AgainstIn DEF Against
  <2>3. \A o \in A : paid[o] = raw[o] * PairValue(b, MassPayoff, h, o) /\ raw[o] \in Nat
    BY <1>2, <2>1, PaidInt
  <2>4. \A o \in A : PairValue(b, MassPayoff, h, o) = n
    BY <2>1, <2>2, EquityPairs
  <2>5. n \in Nat
    BY RunoutsOfPairNat
  <2>6. valid[iso] = Sum(raw, A) /\ valid[iso] \in Nat
    BY ValidMassIs
  <2>7. Paid(b, M, r, MassPayoff, h) = Sum(paid, A)
    BY DEF Paid
  <2>8. own[iso] \in Nat /\ d[iso] = n * own[iso] * valid[iso]
    BY DEF Even
  <2> HIDE DEF A, raw, paid, n, valid, d
  <2>9. \A o \in A : raw[o] \in Int /\ paid[o] = n * raw[o]
    BY <2>3, <2>4, <2>5
  <2>10. Sum(paid, A) = n * Sum(raw, A)
    BY <2>2, <2>5, <2>9, SumTimes
  <2>11. n * own[iso] * valid[iso] = own[iso] * (n * valid[iso])
    BY <2>5, <2>6, <2>8
  <2> QED BY <2>6, <2>7, <2>8, <2>10, <2>11
<1>6. SumOver(M, LAMBDA iso : own[iso] * mass[iso]) = Sum(e, M)
  <2> HIDE DEF mass
  <2> QED BY DEF Sum, SumOver, MapThenSumSet, MapThenFoldSet
<1>7. SumOver(M, LAMBDA iso : 2 * RunoutsOfPair(b) * own[iso] * valid[iso]) = Sum(d, M)
  <2> HIDE DEF valid
  <2> QED BY DEF Sum, SumOver, MapThenSumSet, MapThenFoldSet
<1> HIDE DEF e, d
<1>8. Sum(e, M) = PaidRange(b, M, own, r, EquityPayoff)
  BY <1>2, <1>4, PaidRangeIs
<1>9. Sum(d, M) = PaidRange(b, M, own, r, MassPayoff)
  BY <1>2, <1>5, PaidRangeIs
<1> QED BY <1>1, <1>6, <1>7, <1>8, <1>9

\* What both ranges are paid against each other, hand by hand.
LEMMA PaidBothWays ==
  ASSUME NEW b, IsBoard(b), NEW M, AreIsos(b, M), NEW own, Even(M, own), NEW r, Even(M, r),
         NEW h \in UNION M, NEW o \in UNION M
  PROVE  /\ PaidPairs(b, M, r, own, MassPayoff)[o][h] = PaidPairs(b, M, own, r, MassPayoff)[h][o]
         /\ PaidPairs(b, M, own, r, EquityPayoff)[h][o] + PaidPairs(b, M, r, own, EquityPayoff)[o][h]
              = PaidPairs(b, M, own, r, MassPayoff)[h][o]
<1> DEFINE x == RawReach(M, own)[h]
           y == RawReach(M, r)[o]
           n == 2 * RunoutsOfPair(b)
           v == PairValue(b, EquityPayoff, h, o)
           w == PairValue(b, EquityPayoff, o, h)
           ho == PaidPairs(b, M, own, r, EquityPayoff)[h][o]
           oh == PaidPairs(b, M, r, own, EquityPayoff)[o][h]
           mho == PaidPairs(b, M, own, r, MassPayoff)[h][o]
           moh == PaidPairs(b, M, r, own, MassPayoff)[o][h]
<1>1. x \in Nat /\ y \in Nat /\ n \in Nat
  <2>1. x \in Nat
    BY RawIsNat
  <2>2. y \in Nat
    BY RawIsNat
  <2>3. RunoutsOfPair(b) \in Nat
    BY RunoutsOfPairNat
  <2> QED BY <2>1, <2>2, <2>3
<1>2. h \in LiveHands(b) /\ o \in LiveHands(b) /\ IsPayoff(EquityPayoff) /\ IsPayoff(MassPayoff)
  <2>1. h \in LiveHands(b) /\ o \in LiveHands(b)
    BY IsoFacts
  <2> QED BY <2>1 DEF IsPayoff, EquityPayoff, MassPayoff
<1>3. /\ ho = IF o \cap h = {} THEN x * (y * v) ELSE 0
      /\ oh = IF h \cap o = {} THEN y * (x * w) ELSE 0
  BY <1>2, PaidPairsAre
<1>4. /\ mho = IF o \cap h = {} THEN x * (y * PairValue(b, MassPayoff, h, o)) ELSE 0
      /\ moh = IF h \cap o = {} THEN y * (x * PairValue(b, MassPayoff, o, h)) ELSE 0
  BY <1>2, PaidPairsAre
<1>5. h \cap o = o \cap h
  OBVIOUS
<1>6. o \cap h = {} => /\ PairValue(b, MassPayoff, h, o) = n /\ PairValue(b, MassPayoff, o, h) = n
                       /\ v + w = n /\ v \in Int /\ w \in Int
  BY <1>2, <1>5, EquityPairs
<1> HIDE DEF x, y, n, v, w, ho, oh, mho, moh
<1>7. CASE o \cap h = {}
  <2>1. ho = x * (y * v) /\ oh = y * (x * w) /\ mho = x * (y * n) /\ moh = y * (x * n)
    BY <1>3, <1>4, <1>5, <1>6, <1>7
  <2>2. v + w = n /\ v \in Int /\ w \in Int
    BY <1>6, <1>7
  <2>3. y * (x * n) = x * (y * n) /\ x * (y * v) + y * (x * w) = (x * y) * (v + w)
    BY ONLY <1>1, <2>2
  <2>4. (x * y) * n = x * (y * n)
    BY ONLY <1>1
  <2> QED BY <2>1, <2>2, <2>3, <2>4 DEF ho, oh, mho, moh
<1>8. CASE o \cap h # {}
  BY <1>3, <1>4, <1>5, <1>8 DEF ho, oh, mho, moh
<1> QED BY <1>7, <1>8

\* The equities of two ranges against each other add up to what both play for.
LEMMA EquitiesOfRanges ==
  ASSUME NEW b, IsBoard(b), NEW M, AreIsos(b, M), Fits(M), NEW own, Even(M, own), NEW r, Even(M, r)
  PROVE  /\ RangeEquity(b, M, own, r).denominator = RangeEquity(b, M, r, own).denominator
         /\ RangeEquity(b, M, own, r).numerator + RangeEquity(b, M, r, own).numerator
              = RangeEquity(b, M, own, r).denominator
<1> DEFINE L == UNION M
           mass == PaidPairs(b, M, own, r, MassPayoff)
           turned == Turned(b, M, own, r, MassPayoff)
           mine == PaidPairs(b, M, own, r, EquityPayoff)
           theirs == Turned(b, M, own, r, EquityPayoff)
           massRows == PaidRows(b, M, own, r, MassPayoff)
           turnedRows == TurnedRows(b, M, own, r, MassPayoff)
           mineRows == PaidRows(b, M, own, r, EquityPayoff)
           theirsRows == TurnedRows(b, M, own, r, EquityPayoff)
<1>1. IsFiniteSet(L)
  BY IsoFacts
<1>2. IsPayoff(EquityPayoff) /\ IsPayoff(MassPayoff)
  BY DEF IsPayoff, EquityPayoff, MassPayoff
<1>3. \A h \in L, o \in L : mass[h][o] \in Int /\ mine[h][o] \in Int
  BY <1>2, PaidPairsAre
<1>4. \A h \in L, o \in L : turned[h][o] \in Int /\ theirs[h][o] \in Int
  BY <1>2, PaidPairsAre, TurnedPair
<1>5. \A h \in L, o \in L : turned[h][o] = mass[h][o] /\ mass[h][o] = mine[h][o] + theirs[h][o]
  <2>1. \A h \in L, o \in L : turned[h][o] = PaidPairs(b, M, r, own, MassPayoff)[o][h]
    BY TurnedPair
  <2>2. \A h \in L, o \in L : theirs[h][o] = PaidPairs(b, M, r, own, EquityPayoff)[o][h]
    BY TurnedPair
  <2>3. \A h \in L, o \in L :
          /\ PaidPairs(b, M, r, own, MassPayoff)[o][h] = mass[h][o]
          /\ mine[h][o] + PaidPairs(b, M, r, own, EquityPayoff)[o][h] = mass[h][o]
    BY PaidBothWays
  <2> HIDE DEF mass, turned, mine, theirs, L
  <2> QED BY <2>1, <2>2, <2>3
<1>6. \A h \in L : /\ massRows[h] = Sum(mass[h], L) /\ turnedRows[h] = Sum(turned[h], L)
                   /\ mineRows[h] = Sum(mine[h], L) /\ theirsRows[h] = Sum(theirs[h], L)
  BY DEF PaidRows, TurnedRows
<1>7. /\ RangeEquity(b, M, own, r).denominator = Sum(massRows, L)
      /\ RangeEquity(b, M, r, own).denominator = Sum(turnedRows, L)
      /\ RangeEquity(b, M, own, r).numerator = Sum(mineRows, L)
      /\ RangeEquity(b, M, r, own).numerator = Sum(theirsRows, L)
  BY <1>2, EquityIs, TurnedIs DEF PaidRange
<1> HIDE DEF mass, turned, mine, theirs, massRows, turnedRows, mineRows, theirsRows, L
<1>8. ASSUME NEW h \in L
      PROVE  /\ turnedRows[h] = massRows[h] /\ massRows[h] = mineRows[h] + theirsRows[h]
             /\ massRows[h] \in Int /\ mineRows[h] \in Int /\ theirsRows[h] \in Int
  <2> DEFINE m == mass[h]
             t == turned[h]
             f == mine[h]
             g == theirs[h]
  <2>1. \A o \in L : m[o] \in Int /\ f[o] \in Int /\ g[o] \in Int /\ t[o] = m[o] /\ m[o] = f[o] + g[o]
    BY <1>3, <1>4, <1>5
  <2> HIDE DEF m, t, f, g
  <2>2. Sum(t, L) = Sum(m, L)
    BY <1>1, <2>1, SumSame
  <2>3. Sum(m, L) = Sum(f, L) + Sum(g, L)
    BY <1>1, <2>1, SumPlus
  <2>4. Sum(m, L) \in Int /\ Sum(f, L) \in Int /\ Sum(g, L) \in Int
    BY <1>1, <2>1, SumInt
  <2> QED BY <1>6, <2>2, <2>3, <2>4 DEF m, t, f, g
<1>9. Sum(turnedRows, L) = Sum(massRows, L)
  BY <1>1, <1>8, SumSame
<1>10. Sum(massRows, L) = Sum(mineRows, L) + Sum(theirsRows, L)
  BY <1>1, <1>8, SumPlus
<1> QED BY <1>7, <1>9, <1>10

-----------------------------------------------------------------------------
(***************************************************************************)
(* The next card: each runout is dealt once by each of its cards.          *)
(***************************************************************************)
\* The runouts with a card are the card and a runout of the board with it.
LEMMA RunoutWithCard ==
  ASSUME NEW b, IsBoard(b), Len(b) < RiverCards, NEW card \in NextCards(b),
         NEW x \in SUBSET Cards, card \notin x
  PROVE  /\ \A cards \in Clear(b, x) : card \in cards => cards \ {card} \in Clear(Append(b, card), x)
         /\ \A rest \in Clear(Append(b, card), x) :
              card \notin rest /\ rest \cup {card} \in Clear(b, x)
<1>1. /\ card \in Cards /\ card \notin ToSet(b)
      /\ IsBoard(Append(b, card)) /\ ToSet(Append(b, card)) = ToSet(b) \cup {card}
      /\ Len(Append(b, card)) = Len(b) + 1
  BY LongerBoard DEF NextCards
<1>2. Len(b) \in Nat /\ RiverCards \in Nat
  BY BoardCards, DeckAssumption DEF RiverCards
<1>3. \A c, S : c \in kSubset(RiverCards - Len(b), S)
               <=> c \in SUBSET S /\ Cardinality(c) = RiverCards - Len(b)
  BY DEF kSubset
<1>4. \A c, S : c \in kSubset(RiverCards - (Len(b) + 1), S)
               <=> c \in SUBSET S /\ Cardinality(c) = RiverCards - (Len(b) + 1)
  BY DEF kSubset
<1>5. NextCards(Append(b, card)) = NextCards(b) \ {card}
  BY <1>1 DEF NextCards
<1>6. NextCards(b) \in SUBSET Cards
  BY DEF NextCards
<1>7. ASSUME NEW cards \in Clear(b, x), card \in cards
      PROVE  cards \ {card} \in Clear(Append(b, card), x)
  <2>1. cards \in SUBSET NextCards(b) /\ Cardinality(cards) = RiverCards - Len(b) /\ cards \cap x = {}
    BY <1>3 DEF Clear, Runouts
  <2>2. IsFiniteSet(cards)
    BY <1>6, <2>1, CardsFinite
  <2>3. Cardinality(cards \ {card}) = Cardinality(cards) - 1
    BY <1>7, <2>2, FS_RemoveElement
  <2>4. Cardinality(cards \ {card}) = RiverCards - (Len(b) + 1)
    BY <1>2, <2>1, <2>3
  <2>5. cards \ {card} \in SUBSET NextCards(Append(b, card))
    BY <1>5, <2>1
  <2>6. cards \ {card} \in Runouts(Append(b, card))
    BY <1>1, <1>4, <2>4, <2>5 DEF Runouts
  <2> QED BY <2>1, <2>6 DEF Clear
<1>8. ASSUME NEW rest \in Clear(Append(b, card), x)
      PROVE  card \notin rest /\ rest \cup {card} \in Clear(b, x)
  <2>1. /\ rest \in SUBSET NextCards(Append(b, card)) /\ rest \cap x = {}
        /\ Cardinality(rest) = RiverCards - (Len(b) + 1)
    BY <1>1, <1>4 DEF Clear, Runouts
  <2>2. card \notin rest /\ rest \cup {card} \in SUBSET NextCards(b)
    BY <1>5, <2>1
  <2>3. IsFiniteSet(rest)
    BY <1>5, <1>6, <2>1, CardsFinite
  <2>4. Cardinality(rest \cup {card}) = Cardinality(rest) + 1
    BY <2>2, <2>3, FS_AddElement
  <2>5. Cardinality(rest \cup {card}) = RiverCards - Len(b)
    BY <1>2, <2>1, <2>4
  <2>6. rest \cup {card} \in Runouts(b)
    BY <1>3, <2>2, <2>5 DEF Runouts
  <2> QED BY <2>1, <2>2, <2>6 DEF Clear
<1> QED BY <1>7, <1>8

LEMMA ShownIs ==
  ASSUME NEW b, NEW payoff, IsPayoff(payoff), NEW h, NEW o, NEW cards \in Runouts(b)
  PROVE  /\ Shown(b, payoff, h, o)[cards]
              = Shows(payoff, StrengthOn(b, cards \cup h), StrengthOn(b, cards \cup o))
         /\ Shown(b, payoff, h, o)[cards] \in Int
BY DEF Shown, Shows, IsPayoff

\* What a pair is paid with a card, and what it is paid over the runouts with it.
PaidWith(b, payoff, h, o, card) ==
  [cards \in Clear(b, h \cup o) |-> IF card \in cards THEN Shown(b, payoff, h, o)[cards] ELSE 0]

\* A pair on the runouts with a card is the pair on the board with it.
LEMMA PairWithCard ==
  ASSUME NEW b, IsBoard(b), Len(b) < RiverCards, NEW payoff, IsPayoff(payoff),
         NEW h \in LiveHands(b), NEW o \in LiveHands(b), h \cap o = {},
         NEW card \in NextCards(b), card \notin h \cup o
  PROVE  PairValue(Append(b, card), payoff, h, o)
           = Sum(PaidWith(b, payoff, h, o, card), Clear(b, h \cup o))
<1> DEFINE x == h \cup o
           c == Append(b, card)
           f == Shown(c, payoff, h, o)
           g == PaidWith(b, payoff, h, o, card)
           With == {cards \in Clear(b, x) : card \in cards}
           minus == [cards \in With |-> cards \ {card}]
<1>1. IsBoard(c)
  BY LongerBoard DEF NextCards
<1>2. x \in SUBSET Cards /\ card \notin x
  BY LiveHandsAre
<1>3. IsFiniteSet(Clear(b, x)) /\ Clear(b, x) \in SUBSET Runouts(b)
  BY ClearRunouts
<1>4. With \in SUBSET Clear(b, x) /\ IsFiniteSet(With)
  BY <1>3, FS_Subset
<1>5. \A cards \in With : minus[cards] \in Clear(c, x)
  BY <1>2, RunoutWithCard
<1>6. \A y, z \in With : minus[y] = minus[z] => y = z
  <2> TAKE y, z \in With
  <2>1. minus[y] = y \ {card} /\ minus[z] = z \ {card} /\ card \in y /\ card \in z
    OBVIOUS
  <2>2. y = (y \ {card}) \cup {card} /\ z = (z \ {card}) \cup {card}
    BY <2>1
  <2> HIDE DEF minus
  <2> QED BY <2>1, <2>2
<1>7. \A rest \in Clear(c, x) : \E cards \in With : minus[cards] = rest
  <2> TAKE rest \in Clear(c, x)
  <2>1. card \notin rest /\ rest \cup {card} \in Clear(b, x)
    BY <1>2, RunoutWithCard
  <2>2. rest \cup {card} \in With /\ (rest \cup {card}) \ {card} = rest
    BY <2>1
  <2> QED BY <2>2
<1>8. ASSUME NEW cards \in With
      PROVE  f[minus[cards]] \in Int /\ g[cards] = f[minus[cards]]
  <2>1. cards \in Runouts(b) /\ card \in cards /\ cards \in Clear(b, x)
    BY <1>3
  <2>2. minus[cards] \in Runouts(c)
    BY <1>5 DEF Clear
  <2>3. minus[cards] = cards \ {card}
    OBVIOUS
  <2>4. g[cards] = Shown(b, payoff, h, o)[cards]
    BY <2>1 DEF PaidWith
  <2> HIDE DEF minus, f, g, c, With, x
  <2>5. Shown(b, payoff, h, o)[cards]
          = Shows(payoff, StrengthOn(b, cards \cup h), StrengthOn(b, cards \cup o))
    BY <2>1 DEF Shown
  <2>6. f[minus[cards]] = Shows(payoff, StrengthOn(c, minus[cards] \cup h),
                                StrengthOn(c, minus[cards] \cup o))
    BY <2>2 DEF f, Shown
  <2>9. Shows(payoff, StrengthOn(c, minus[cards] \cup h), StrengthOn(c, minus[cards] \cup o)) \in Int
    BY DEF Shows, IsPayoff
  <2>7. \A k : StrengthOn(c, (cards \ {card}) \cup k) = StrengthOn(b, cards \cup k)
    <3>1. ToSet(c) = ToSet(b) \cup {card}
      BY LongerBoard DEF NextCards, c
    <3> TAKE k
    <3>2. ToSet(c) \cup ((cards \ {card}) \cup k) = ToSet(b) \cup (cards \cup k)
      BY <2>1, <3>1
    <3> QED BY <3>2 DEF StrengthOn
  <2> QED BY <2>3, <2>4, <2>5, <2>6, <2>7, <2>9
<1>9. \A cards \in Clear(b, x) \ With : g[cards] = 0
  BY DEF PaidWith
<1>10. PairValue(c, payoff, h, o) = Sum(f, Clear(c, x))
  BY DEF PairValue
<1> HIDE DEF f, g, With, minus, x, c
<1>11. Sum(f, Clear(c, x)) = Sum(g, With)
  BY <1>4, <1>5, <1>6, <1>7, <1>8, SumReindex
<1>12. Sum(g, Clear(b, x)) = Sum(g, With)
  BY <1>3, <1>4, <1>8, <1>9, SumWhere
<1> QED BY <1>10, <1>11, <1>12 DEF g, c, x

\* What a pair is paid for the card that comes, and then; nothing where it is
\* theirs.
PaidOn(b, payoff, h, o) ==
  [card \in NextCards(b) |->
     IF card \notin h \cup o THEN PairValue(Append(b, card), payoff, h, o) ELSE 0]

\* A runout comes with each of its cards as the next.
LEMMA PairIsChance ==
  ASSUME NEW b, IsBoard(b), Len(b) < RiverCards, NEW payoff, IsPayoff(payoff),
         NEW h \in LiveHands(b), NEW o \in LiveHands(b), h \cap o = {}
  PROVE  /\ Sum(PaidOn(b, payoff, h, o), NextCards(b))
              = (RiverCards - Len(b)) * PairValue(b, payoff, h, o)
         /\ \A card \in NextCards(b) : PaidOn(b, payoff, h, o)[card] \in Int
<1> DEFINE N == NextCards(b)
           C == Clear(b, h \cup o)
           s == Shown(b, payoff, h, o)
           k == RiverCards - Len(b)
           m == [card \in N |-> PaidWith(b, payoff, h, o, card)]
           t == [cards \in C |-> [card \in N |-> IF card \in cards THEN s[cards] ELSE 0]]
           rows == PaidOn(b, payoff, h, o)
           cols == [cards \in C |-> k * s[cards]]
<1>1. IsFiniteSet(N) /\ N \in SUBSET Cards
  BY CardsFinite DEF NextCards
<1>2. IsFiniteSet(C) /\ C \in SUBSET Runouts(b)
  BY ClearRunouts
<1>3. \A cards \in C : s[cards] \in Int
  BY <1>2, ShownIs
<1>4. k \in Int
  BY BoardCards, DeckAssumption DEF RiverCards
<1>5. ASSUME NEW card \in N, NEW cards \in C
      PROVE  m[card][cards] \in Int /\ t[cards][card] = m[card][cards]
  <2>1. m[card][cards] = IF card \in cards THEN s[cards] ELSE 0
    BY DEF PaidWith
  <2>2. t[cards][card] = IF card \in cards THEN s[cards] ELSE 0
    OBVIOUS
  <2>3. s[cards] \in Int
    BY <1>3
  <2> HIDE DEF m, t, s
  <2> QED BY <2>1, <2>2, <2>3
<1>6. ASSUME NEW card \in N
      PROVE  rows[card] = Sum(m[card], C)
  <2>1. m[card] = PaidWith(b, payoff, h, o, card)
    OBVIOUS
  <2>2. CASE card \notin h \cup o
    <3>1. rows[card] = PairValue(Append(b, card), payoff, h, o)
      BY <2>2 DEF PaidOn
    <3> QED BY <2>1, <2>2, <3>1, PairWithCard
  <2>3. CASE card \in h \cup o
    <3>1. rows[card] = 0
      BY <2>3 DEF PaidOn
    <3>2. \A cards \in C : card \notin cards
      BY <2>3 DEF Clear
    <3>3. \A cards \in C : m[card][cards] = 0
      BY <3>2 DEF PaidWith
    <3> HIDE DEF m
    <3> QED BY <1>2, <3>1, <3>3, SumZero
  <2> QED BY <2>2, <2>3
<1>7. ASSUME NEW cards \in C
      PROVE  cols[cards] = Sum(t[cards], N)
  <2>1. cards \in SUBSET N /\ Cardinality(cards) = k
    BY <1>2 DEF Runouts, kSubset
  <2>2. s[cards] \in Int
    BY <1>3
  <2>3. t[cards] = [card \in N |-> IF card \in cards THEN s[cards] ELSE 0]
    OBVIOUS
  <2>4. cols[cards] = k * s[cards]
    OBVIOUS
  <2> HIDE DEF t, s, N, C, cols, k
  <2>5. Sum([card \in N |-> IF card \in cards THEN s[cards] ELSE 0], N) = Cardinality(cards) * s[cards]
    BY <1>1, <2>1, <2>2, SumOfSome
  <2> QED BY <2>1, <2>3, <2>4, <2>5
<1>8. PairValue(b, payoff, h, o) = Sum(s, C)
  BY DEF PairValue
<1>9. \A cards \in C : cols[cards] = k * s[cards]
  OBVIOUS
<1> HIDE DEF m, t, rows, cols, s, N, C, k
<1>10. IsTable(m, t, rows, cols, N, C)
  BY <1>5, <1>6, <1>7 DEF IsTable
<1>11. Sum(rows, N) = Sum(cols, C)
  BY <1>1, <1>2, <1>10, SumSwap
<1>12. Sum(cols, C) = k * Sum(s, C)
  BY <1>2, <1>3, <1>4, <1>9, SumTimes
<1>13. \A card \in N : rows[card] \in Int
  BY <1>2, <1>5, <1>6, SumInt
<1> QED BY <1>8, <1>11, <1>12, <1>13 DEF rows, N, k

\* The mapping and the reach of the board with a card.
Below(b, hands, card) == Mapping(Append(b, card), hands)
BelowReach(b, hands, card, r) == PropagateChanceReach(Mapping(b, hands), Below(b, hands, card), r)

LEMMA BelowIs ==
  ASSUME NEW b, IsBoard(b), Len(b) < RiverCards, NEW hands \in SUBSET Hands, Accepts(b, hands),
         NEW r, Even(Mapping(b, hands), r), NEW card \in NextCards(b)
  PROVE  /\ IsBoard(Append(b, card)) /\ AreIsos(Append(b, card), Below(b, hands, card))
         /\ Even(Below(b, hands, card), BelowReach(b, hands, card, r))
         /\ UNION Below(b, hands, card) = {h \in UNION Mapping(b, hands) : card \notin h}
         /\ \A h \in UNION Below(b, hands, card) :
              RawReach(Below(b, hands, card), BelowReach(b, hands, card, r))[h]
                = RawReach(Mapping(b, hands), r)[h]
<1>1. card \in Cards /\ card \notin ToSet(b)
  BY DEF NextCards
<1>2. IsBoard(Append(b, card))
  BY <1>1, LongerBoard
<1>3. AreIsos(Append(b, card), Below(b, hands, card))
  BY MappingAreIsos DEF Below
<1>4. UNION Below(b, hands, card) = {h \in UNION Mapping(b, hands) : card \notin h}
  BY <1>1, HandsBelow DEF Below
<1>5. /\ Even(Below(b, hands, card), BelowReach(b, hands, card, r))
      /\ \A h \in UNION Below(b, hands, card) :
              RawReach(Below(b, hands, card), BelowReach(b, hands, card, r))[h]
                = RawReach(Mapping(b, hands), r)[h]
  BY <1>1, ReachesBelow DEF Below, BelowReach
<1> QED BY <1>2, <1>3, <1>4, <1>5

\* What a hand is paid with each next card.
PaidNext(b, hands, r, payoff, h) ==
  [card \in NextCards(b) |->
     IF card \notin h
     THEN Paid(Append(b, card), Below(b, hands, card), BelowReach(b, hands, card, r), payoff, h)
     ELSE 0]

\* The same by the opponent's hands.
PaidNextBy(b, L, raw, payoff, h, card) ==
  [o \in Against(L, h) |-> raw[o] * PaidOn(b, payoff, h, o)[card]]

LEMMA PaidOnIs ==
  ASSUME NEW b, NEW payoff, NEW h, NEW o, NEW card \in NextCards(b)
  PROVE  PaidOn(b, payoff, h, o)[card]
           = IF card \notin h \cup o THEN PairValue(Append(b, card), payoff, h, o) ELSE 0
BY DEF PaidOn

LEMMA PaidNextIs ==
  ASSUME NEW b, IsBoard(b), Len(b) < RiverCards, NEW hands \in SUBSET Hands, Accepts(b, hands),
         NEW r, Even(Mapping(b, hands), r), NEW payoff, IsPayoff(payoff),
         NEW h \in UNION Mapping(b, hands), NEW card \in NextCards(b)
  PROVE  /\ PaidNext(b, hands, r, payoff, h)[card]
              = Sum(PaidNextBy(b, UNION Mapping(b, hands), RawReach(Mapping(b, hands), r),
                               payoff, h, card),
                    Against(UNION Mapping(b, hands), h))
         /\ \A o \in Against(UNION Mapping(b, hands), h) :
              PaidNextBy(b, UNION Mapping(b, hands), RawReach(Mapping(b, hands), r),
                         payoff, h, card)[o] \in Int
<1> DEFINE M == Mapping(b, hands)
           L == UNION M
           raw == RawReach(M, r)
           A == Against(L, h)
           c == Append(b, card)
           C == Below(b, hands, card)
           s == BelowReach(b, hands, card, r)
           B == Against(UNION C, h)
           by == PaidNextBy(b, L, raw, payoff, h, card)
           paid == PaidOf(c, UNION C, RawReach(C, s), payoff, h)
<1>1. AreIsos(b, M)
  BY MappingAreIsos
<1>2. IsFiniteSet(L) /\ L \in SUBSET LiveHands(b)
  <2> HIDE DEF M
  <2> QED BY <1>1, IsoFacts
<1>3. A \in SUBSET L /\ IsFiniteSet(A) /\ \A o \in A : o \cap h = {} /\ h \cap o = {}
  BY <1>2, AgainstIn DEF Against
<1>4. \A o \in A : raw[o] \in Nat
  BY <1>1, <1>3, RawIsNat
<1>5. \A o \in A : by[o] = raw[o] * PaidOn(b, payoff, h, o)[card]
  BY DEF PaidNextBy
<1>6. \A o \in A : PaidOn(b, payoff, h, o)[card] \in Int
  BY <1>2, <1>3, PairIsChance
<1>7. \A o \in A : by[o] \in Int
  <2> HIDE DEF by, raw, A
  <2> QED BY <1>4, <1>5, <1>6
<1>8. CASE card \in h
  <2>1. PaidNext(b, hands, r, payoff, h)[card] = 0
    BY <1>8 DEF PaidNext
  <2>2. \A o \in A : PaidOn(b, payoff, h, o)[card] = 0
    BY <1>8, PaidOnIs
  <2> HIDE DEF by, raw, A
  <2>3. \A o \in A : by[o] = 0
    BY <1>4, <1>5, <2>2
  <2>4. Sum(by, A) = 0
    BY <1>3, <2>3, SumZero
  <2> QED BY <1>7, <2>1, <2>4 DEF by, raw, A
<1>9. CASE card \notin h
  <2>1. PaidNext(b, hands, r, payoff, h)[card] = Paid(c, C, s, payoff, h)
    BY <1>9 DEF PaidNext
  <2>2. /\ IsBoard(c) /\ AreIsos(c, C) /\ Even(C, s)
        /\ UNION C = {o \in L : card \notin o}
        /\ \A o \in UNION C : RawReach(C, s)[o] = raw[o]
    BY BelowIs
  <2>3. B = {o \in A : card \notin o} /\ h \in UNION C
    BY <1>9, <2>2 DEF Against
  <2>4. Paid(c, C, s, payoff, h) = Sum(paid, B)
    BY DEF Paid
  <2>5. \A o \in B : /\ paid[o] \in Int
                     /\ paid[o] = RawReach(C, s)[o] * PairValue(c, payoff, h, o)
    BY <2>2, <2>3, PaidInt
  <2>6. \A o \in B : RawReach(C, s)[o] = raw[o]
    BY <2>2 DEF Against
  <2>7. \A o \in B : PaidOn(b, payoff, h, o)[card] = PairValue(c, payoff, h, o)
    BY <1>9, <2>3, PaidOnIs
  <2>8. \A o \in A \ B : PaidOn(b, payoff, h, o)[card] = 0
    BY <2>3, PaidOnIs
  <2> HIDE DEF by, paid, raw, A, B, C, c, s
  <2>9. \A o \in B : by[o] = paid[o] /\ paid[o] \in Int
    BY <1>5, <2>3, <2>5, <2>6, <2>7
  <2>10. \A o \in A \ B : by[o] = 0
    BY <1>4, <1>5, <2>8
  <2>11. B \in SUBSET A /\ IsFiniteSet(B)
    BY <1>3, <2>3, FS_Subset
  <2>12. Sum(by, A) = Sum(by, B)
    BY <1>3, <1>7, <2>10, <2>11, SumWhere
  <2>13. Sum(by, B) = Sum(paid, B)
    BY <2>9, <2>11, SumSame
  <2> QED BY <1>7, <2>1, <2>4, <2>12, <2>13 DEF by, raw, A
<1> QED BY <1>8, <1>9

\* A hand is paid on average what it is paid with the next card, for the cards
\* that may come.
LEMMA PaidIsChance ==
  ASSUME NEW b, IsBoard(b), Len(b) < RiverCards, NEW hands \in SUBSET Hands, Accepts(b, hands),
         NEW r, Even(Mapping(b, hands), r), NEW payoff, IsPayoff(payoff),
         NEW h \in UNION Mapping(b, hands)
  PROVE  /\ Sum(PaidNext(b, hands, r, payoff, h), NextCards(b))
              = (RiverCards - Len(b)) * Paid(b, Mapping(b, hands), r, payoff, h)
         /\ \A card \in NextCards(b) : PaidNext(b, hands, r, payoff, h)[card] \in Int
<1> DEFINE M == Mapping(b, hands)
           L == UNION M
           raw == RawReach(M, r)
           A == Against(L, h)
           N == NextCards(b)
           k == RiverCards - Len(b)
           paid == PaidOf(b, L, raw, payoff, h)
           m == [card \in N |-> PaidNextBy(b, L, raw, payoff, h, card)]
           t == [o \in A |-> [card \in N |-> raw[o] * PaidOn(b, payoff, h, o)[card]]]
           rows == PaidNext(b, hands, r, payoff, h)
           cols == [o \in A |-> k * paid[o]]
<1>1. AreIsos(b, M)
  BY MappingAreIsos
<1>2. IsFiniteSet(L) /\ L \in SUBSET LiveHands(b)
  <2> HIDE DEF M
  <2> QED BY <1>1, IsoFacts
<1>3. A \in SUBSET L /\ IsFiniteSet(A) /\ \A o \in A : o \cap h = {} /\ h \cap o = {}
  BY <1>2, AgainstIn DEF Against
<1>4. IsFiniteSet(N)
  BY CardsFinite DEF NextCards
<1>5. k \in Int
  BY BoardCards, DeckAssumption DEF RiverCards
<1>6. \A o \in A : /\ paid[o] \in Int /\ paid[o] = raw[o] * PairValue(b, payoff, h, o)
                   /\ PairValue(b, payoff, h, o) \in Int /\ raw[o] \in Nat
  BY <1>1, PaidInt
<1>7. ASSUME NEW card \in N
      PROVE  /\ rows[card] = Sum(m[card], A)
             /\ \A o \in A : m[card][o] \in Int /\ t[o][card] = m[card][o]
  <2>1. m[card] = PaidNextBy(b, L, raw, payoff, h, card)
    OBVIOUS
  <2>2. /\ rows[card] = Sum(PaidNextBy(b, L, raw, payoff, h, card), A)
        /\ \A o \in A : PaidNextBy(b, L, raw, payoff, h, card)[o] \in Int
    BY PaidNextIs
  <2>3. \A o \in A : t[o][card] = PaidNextBy(b, L, raw, payoff, h, card)[o]
    BY DEF PaidNextBy
  <2> QED BY <2>1, <2>2, <2>3
<1>8. ASSUME NEW o \in A
      PROVE  cols[o] = Sum(t[o], N) /\ cols[o] = k * paid[o]
  <2> DEFINE on == PaidOn(b, payoff, h, o)
             x == raw[o]
             f == t[o]
             v == PairValue(b, payoff, h, o)
  <2>1. Sum(on, N) = k * v /\ \A card \in N : on[card] \in Int
    BY <1>2, <1>3, PairIsChance
  <2>2. \A card \in N : f[card] = x * on[card]
    OBVIOUS
  <2>3. x \in Int /\ v \in Int /\ paid[o] = x * v
    <3> HIDE DEF raw, paid, A
    <3> QED BY <1>6
  <2>4. cols[o] = k * paid[o]
    OBVIOUS
  <2> HIDE DEF on, x, f, v, cols, paid, N, k
  <2>5. Sum(f, N) = x * Sum(on, N)
    BY <1>4, <2>1, <2>2, <2>3, SumTimes
  <2>6. x * (k * v) = k * (x * v)
    BY ONLY <1>5, <2>3
  <2> QED BY <2>1, <2>3, <2>4, <2>5, <2>6 DEF f
<1>9. Paid(b, M, r, payoff, h) = Sum(paid, A)
  BY DEF Paid
<1> HIDE DEF m, t, rows, cols, N, A, k, paid
<1>10. IsTable(m, t, rows, cols, N, A)
  BY <1>7, <1>8 DEF IsTable
<1>11. Sum(rows, N) = Sum(cols, A)
  BY <1>3, <1>4, <1>10, SumSwap
<1>12. Sum(cols, A) = k * Sum(paid, A)
  BY <1>3, <1>5, <1>6, <1>8, SumTimes
<1>13. \A card \in N : rows[card] \in Int
  BY <1>3, <1>7, SumInt
<1> QED BY <1>9, <1>11, <1>12, <1>13 DEF rows, N, k

\* What a child of a chance node gives an iso hand: the values of its hands
\* that are without the card.
ValuesBelow(iso, card, f) == [h \in iso |-> IF card \notin h THEN f[h] ELSE 0]

EdgeValue(values, edge) == values[edge[2]] * Cardinality(edge[1] \cap edge[2])

LEMMA SumOverEdges ==
  ASSUME NEW values, NEW S
  PROVE  SumOver(S, LAMBDA edge : EdgeValue(values, edge))
           = Sum([edge \in S |-> EdgeValue(values, edge)], S)
BY DEF Sum, SumOver, MapThenSumSet, MapThenFoldSet

\* What a chance node gives an iso hand is the sum over the child of its hands' values.
LEMMA ChildIs ==
  ASSUME NEW b, IsBoard(b), Len(b) < RiverCards, NEW hands \in SUBSET Hands, Accepts(b, hands),
         NEW card \in NextCards(b), NEW values, NEW f,
         \A j \in Below(b, hands, card) : \A h \in j : f[h] \in Int /\ values[j] = f[h],
         NEW iso \in Mapping(b, hands)
  PROVE  BackwardChanceNode(Mapping(b, hands), Below(b, hands, card), values)[iso]
           = Sum(ValuesBelow(iso, card, f), iso)
<1> DEFINE M == Mapping(b, hands)
           C == Below(b, hands, card)
           S == {edge \in Edges(M, C) : edge[1] = iso}
           w == [edge \in S |-> EdgeValue(values, edge)]
           K == {j \in C : j \subseteq iso}
           to == [edge \in S |-> edge[2]]
           g == [j \in K |-> values[j] * Cardinality(j)]
           u == ValuesBelow(iso, card, f)
           B == {h \in iso : card \notin h}
<1>1. card \in Cards /\ card \notin ToSet(b)
  BY DEF NextCards
<1>2. AreIsos(b, M)
  BY MappingAreIsos
<1>3. IsBoard(Append(b, card)) /\ AreIsos(Append(b, card), C)
  BY <1>1, LongerBoard, MappingAreIsos DEF Below
<1>4. UNION C = {h \in UNION M : card \notin h}
  BY <1>1, HandsBelow DEF Below
<1>5. \A j \in C : \E i \in M : j \subseteq i
  BY <1>1, IsosBelow DEF Below
<1>0. iso \in M
  OBVIOUS
<1>6. /\ \A i, j \in M : i \cap j # {} => i = j
      /\ IsFiniteSet(iso) /\ iso \in SUBSET UNION M
  <2> HIDE DEF M
  <2> QED BY <1>0, <1>2, IsoFacts
<1>7. /\ IsFiniteSet(C) /\ \A i, j \in C : i \cap j # {} => i = j
      /\ \A j \in C : IsFiniteSet(j) /\ j # {} /\ Cardinality(j) \in Nat /\ j \in SUBSET UNION C
  <2> DEFINE c == Append(b, card)
  <2>0. IsBoard(c) /\ AreIsos(c, C)
    BY <1>3
  <2> HIDE DEF C, c
  <2>1. IsFiniteSet(C) /\ \A i, j \in C : i \cap j # {} => i = j
    BY <2>0, IsoFacts
  <2>2. \A j \in C : IsFiniteSet(j) /\ j # {} /\ Cardinality(j) \in Nat \ {0} /\ j \in SUBSET UNION C
    BY <2>0, IsoFacts
  <2> QED BY <2>1, <2>2
<1> HIDE DEF M, C
<1>8. BackwardChanceNode(M, C, values)[iso] = Sum(w, S)
  <2>1. BackwardChanceNode(M, C, values)[iso]
          = SumOver(S, LAMBDA edge : EdgeValue(values, edge))
    BY <1>0 DEF BackwardChanceNode, EdgeValue
  <2> HIDE DEF S
  <2>2. SumOver(S, LAMBDA edge : EdgeValue(values, edge)) = Sum(w, S)
    BY SumOverEdges
  <2> HIDE DEF w
  <2> QED BY <2>1, <2>2
<1>9. \A edge : edge \in S <=> \E j \in K : edge = <<iso, j>>
  <2>1. ASSUME NEW edge \in S
        PROVE  \E j \in K : edge = <<iso, j>>
    <3>1. edge \in M \X C /\ edge[1] \cap edge[2] # {} /\ edge[1] = iso
      BY DEF Edges
    <3>2. edge = <<iso, edge[2]>> /\ edge[2] \in C /\ iso \cap edge[2] # {}
      BY <3>1
    <3>3. edge[2] \subseteq iso
      <4>1. PICK i \in M : edge[2] \subseteq i
        BY <1>5, <3>2
      <4>2. i = iso
        BY <1>0, <1>6, <3>2, <4>1
      <4> QED BY <4>1, <4>2
    <3> QED BY <3>2, <3>3
  <2>2. ASSUME NEW j \in K
        PROVE  <<iso, j>> \in S
    <3>1. j \in C /\ iso \cap j # {}
      BY <1>7
    <3>2. <<iso, j>> \in M \X C
      BY <1>0, <3>1
    <3> QED BY <3>1, <3>2 DEF Edges
  <2> HIDE DEF S, K
  <2> QED BY <2>1, <2>2
<1>10. IsFiniteSet(K)
  BY <1>7, FS_Subset
<1> DEFINE from == [j \in K |-> <<iso, j>>]
           v == [j \in K |-> w[from[j]]]
<1>11. \A j \in K : from[j] = <<iso, j>> /\ from[j] \in S
  BY <1>9
<1>12. \A j \in K : \A h \in j : f[h] \in Int /\ values[j] = f[h]
  BY DEF C
<1>13. ASSUME NEW j \in K
       PROVE  /\ v[j] = w[from[j]] /\ w[from[j]] \in Int /\ v[j] = values[j] * Cardinality(j)
              /\ v[j] = Sum(f, j)
  <2>1. from[j] \in S /\ from[j][1] = iso /\ from[j][2] = j
    BY <1>11
  <2>2. iso \cap j = j
    OBVIOUS
  <2>3. w[from[j]] = values[j] * Cardinality(iso \cap j)
    BY <2>1 DEF EdgeValue
  <2>4. j # {} /\ Cardinality(j) \in Nat /\ IsFiniteSet(j)
    BY <1>7
  <2>5. values[j] \in Int
    BY <1>12, <2>4
  <2>6. v[j] = w[from[j]]
    OBVIOUS
  <2> HIDE DEF v, w, from, K
  <2>7. \A h \in j : f[h] = values[j]
    BY <1>12
  <2>8. Sum(f, j) = Cardinality(j) * values[j]
    BY <2>4, <2>5, <2>7, SumConst
  <2> DEFINE n == Cardinality(j)
             x == values[j]
  <2>9. n * x = x * n /\ x * n \in Int
    <3>1. n \in Nat /\ x \in Int
      BY <2>4, <2>5
    <3> HIDE DEF n, x
    <3> QED BY ONLY <3>1
  <2> QED BY <2>2, <2>3, <2>6, <2>8, <2>9
<1>14. Sum(w, S) = Sum(v, K)
  <2>1. \A x, y \in K : from[x] = from[y] => x = y
    <3> TAKE x, y \in K
    <3>1. from[x] = <<iso, x>> /\ from[y] = <<iso, y>>
      BY <1>11
    <3> HIDE DEF from
    <3> QED BY <3>1
  <2>2. \A edge \in S : \E j \in K : from[j] = edge
    BY <1>9, <1>11
  <2>3. \A j \in K : from[j] \in S /\ w[from[j]] \in Int /\ v[j] = w[from[j]]
    BY <1>11, <1>13
  <2> HIDE DEF S, K, from, w, v
  <2> QED BY <1>10, <2>1, <2>2, <2>3, SumReindex
<1>15. UNION K = B
  <2>1. ASSUME NEW h \in UNION K
        PROVE  h \in B
    <3>1. h \in UNION C /\ h \in iso
      OBVIOUS
    <3> QED BY <1>4, <3>1
  <2>2. ASSUME NEW h \in B
        PROVE  h \in UNION K
    <3>1. h \in UNION C /\ h \in iso
      BY <1>4, <1>6
    <3>2. PICK j \in C : h \in j
      BY <3>1
    <3>3. PICK i \in M : j \subseteq i
      BY <1>5
    <3>4. i = iso
      BY <1>0, <1>6, <3>1, <3>2, <3>3
    <3> QED BY <3>2, <3>3, <3>4
  <2> HIDE DEF K, B
  <2> QED BY <2>1, <2>2
<1>16. Sum(f, UNION K) = Sum(v, K)
  <2>1. \A j \in K : IsFiniteSet(j) /\ v[j] = Sum(f, j) /\ \A h \in j : f[h] \in Int
    BY <1>7, <1>12, <1>13
  <2>2. \A i, j \in K : i \cap j # {} => i = j
    BY <1>7
  <2> HIDE DEF K, v
  <2> QED BY <1>10, <2>1, <2>2, SumParts
<1>17. Sum(u, iso) = Sum(f, B)
  <2>1. B \in SUBSET iso /\ IsFiniteSet(B)
    BY <1>6, FS_Subset
  <2>2. \A h \in B : u[h] = f[h]
    BY DEF ValuesBelow
  <2>3. \A h \in iso \ B : u[h] = 0
    BY DEF ValuesBelow
  <2>4. \A h \in B : f[h] \in Int
    BY <1>12, <1>15
  <2> HIDE DEF u, B
  <2>5. Sum(u, iso) = Sum(u, B)
    BY <1>6, <2>1, <2>2, <2>3, <2>4, SumWhere
  <2>6. Sum(u, B) = Sum(f, B)
    BY <2>1, <2>2, <2>4, SumSame
  <2> QED BY <2>5, <2>6
<1> QED BY <1>8, <1>14, <1>15, <1>16, <1>17 DEF M, C

-----------------------------------------------------------------------------
(***************************************************************************)
(* Mappings.                                                               *)
(***************************************************************************)
IInv ==
  /\ board \in Seq(Cards) /\ Len(board) >= FlopCards
  /\ possible \in SUBSET Hands
  /\ status \in {"playing", "refused", "valued"}
  /\ mapping = Mapping(board, possible)
  /\ status # "refused" => Accepts(board, possible)
  /\ OnlyRootsRefused

\* A root satisfies the invariant.
LEMMA InitIInv == Init => IInv
<1> SUFFICES ASSUME Init PROVE IInv
  OBVIOUS
<1>1. board \in Seq(Cards) /\ Len(board) >= FlopCards
  BY RootsAssumption DEF Init
<1>2. possible \in SUBSET Hands
  BY DEF Init, RootPossibleHands
<1> QED BY <1>1, <1>2 DEF Init, IInv, OnlyRootsRefused

\* A card keeps the invariant.
LEMMA DealCardIInv ==
  ASSUME IInv, NEW card \in Cards, DealCard(card)
  PROVE  IInv'
<1>1. /\ board \in Seq(Cards) /\ Len(board) >= FlopCards /\ Accepts(board, possible)
      /\ possible' = possible /\ board' = Append(board, card) /\ mapping' = Mapping(board', possible)
      /\ status' = IF Accepts(board', possible) THEN "playing" ELSE "refused"
      /\ possible \in SUBSET Hands
  BY DEF IInv, DealCard
<1>2. board' \in Seq(Cards) /\ Len(board') >= FlopCards
  BY <1>1, DeckAssumption
<1>3. ~Accepts(board', possible) => possible \cap LiveHands(board') = {}
  BY <1>1, AcceptsBelow
<1>4. OnlyRootsRefused'
  BY <1>1, <1>3 DEF OnlyRootsRefused
<1> QED BY <1>1, <1>2, <1>4 DEF IInv

\* So does every step.
LEMMA NextIInv == IInv /\ [Next]_isoVars => IInv'
<1> SUFFICES ASSUME IInv, [Next]_isoVars PROVE IInv'
  OBVIOUS
<1>1. ASSUME NEW p \in Player, PlayAction(p)
      PROVE  IInv'
  BY <1>1 DEF IInv, PlayAction, OnlyRootsRefused
<1>2. ASSUME NEW p \in Player, ShowdownTerminal(p)
      PROVE  IInv'
  BY <1>2 DEF IInv, ShowdownTerminal, OnlyRootsRefused
<1>3. ASSUME NEW p \in Player, NEW folder \in Player, FoldTerminal(p, folder)
      PROVE  IInv'
  BY <1>3 DEF IInv, FoldTerminal, OnlyRootsRefused
<1>4. CASE UNCHANGED isoVars
  BY <1>4 DEF IInv, OnlyRootsRefused, isoVars
<1> QED BY <1>1, <1>2, <1>3, <1>4, DealCardIInv DEF Next

\* The mapping is that of the board and is accepted in every state but a refused one.
THEOREM SpecIInv == Spec => []IInv
BY InitIInv, NextIInv, PTL DEF Spec

\* Once the root's mapping is accepted, no mapping below it is refused but for
\* a board that leaves no possible hand, for every deck, flop and belief.
THEOREM SpecOnlyRootsRefused == Spec => []OnlyRootsRefused
<1>1. IInv => OnlyRootsRefused
  BY DEF IInv
<1> QED BY <1>1, SpecIInv, PTL

\* On every board the solver goes on with, each possible hand that the board
\* leaves has exactly one iso hand: raw_index_to_iso_index_ is a function.
THEOREM SpecMappingPartitions ==
  Spec => [](status # "refused" => Partitions(mapping, possible \cap LiveHands(board)))
<1>1. IInv => (status # "refused" => Partitions(mapping, possible \cap LiveHands(board)))
  BY MappingPartitions DEF IInv
<1> QED BY <1>1, SpecIInv, PTL

-----------------------------------------------------------------------------
(***************************************************************************)
(* Where boards and reaches come from.                                     *)
(***************************************************************************)
\* Boards come from a root.
FromRoot(b) == \E root \in Roots : \E later \in LaterCards(root) : b = root \o later

\* A root is one.
LEMMA RootFromRoot ==
  ASSUME NEW root \in Roots
  PROVE  FromRoot(root) /\ IsBoard(root)
<1>1. root \in Seq(Cards) /\ IsBoard(root) /\ Len(root) \in Nat /\ RiverCards - Len(root) \in Nat
  BY RootsAssumption, DeckAssumption DEF IsBoard, RiverCards
<1>2. <<>> \in [1 .. 0 -> Cards] /\ 0 \in 0 .. RiverCards - Len(root)
  BY <1>1
<1>3. <<>> \in LaterCards(root)
  BY <1>2 DEF LaterCards
<1>4. root = root \o <<>>
  BY <1>1
<1> QED BY <1>1, <1>3, <1>4 DEF FromRoot

\* A card more.
LEMMA LongerFromRoot ==
  ASSUME NEW b, IsBoard(b), FromRoot(b), Len(b) < RiverCards, NEW card \in Cards
  PROVE  FromRoot(Append(b, card))
<1>1. PICK root \in Roots : \E later \in LaterCards(root) : b = root \o later
  BY DEF FromRoot
<1>2. PICK later \in LaterCards(root) : b = root \o later
  BY <1>1
<1>3. PICK n \in 0 .. RiverCards - Len(root) : later \in [1 .. n -> Cards]
  BY <1>2 DEF LaterCards
<1>4. /\ root \in Seq(Cards) /\ Len(root) \in Nat /\ RiverCards \in Nat /\ n \in Nat
      /\ later \in Seq(Cards) /\ Len(later) = n
  <2>1. root \in Seq(Cards) /\ RiverCards \in Nat /\ Len(root) \in Nat
    BY RootsAssumption, DeckAssumption DEF RiverCards
  <2>2. n \in Nat
    OBVIOUS
  <2>3. later \in Seq(Cards)
    BY <1>3, <2>2
  <2> QED BY <1>3, <2>1, <2>2, <2>3
<1>5. Len(b) = Len(root) + n
  <2>1. Len(root \o later) = Len(root) + Len(later)
    BY <1>4
  <2> QED BY <1>2, <1>4, <2>1
<1> DEFINE longer == Append(later, card)
<1>6. longer \in [1 .. n + 1 -> Cards] /\ n + 1 \in 0 .. RiverCards - Len(root)
  <2>1. longer \in [1 .. n + 1 -> Cards]
    <3>1. longer \in Seq(Cards) /\ Len(longer) = n + 1
      BY <1>4
    <3> HIDE DEF longer
    <3>2. longer \in [1 .. Len(longer) -> Cards]
      BY <3>1
    <3> QED BY <3>1, <3>2
  <2> QED BY <1>4, <1>5, <2>1
<1>7. longer \in LaterCards(root)
  BY <1>6 DEF LaterCards
<1>8. Append(b, card) = root \o longer
  <2>1. Append(root \o later, card) = root \o Append(later, card)
    BY <1>4
  <2> QED BY <1>2, <2>1
<1> QED BY <1>7, <1>8 DEF FromRoot

\* The unit is a multiple of the iso hands' sizes.
LEMMA FitsBoard ==
  ASSUME NEW b, IsBoard(b), FromRoot(b), NEW M, AreIsos(b, M)
  PROVE  Fits(M)
<1>1. Unit \in Nat \ {0}
  BY BeliefsAssumption
<1>2. ASSUME NEW iso \in M
      PROVE  Unit % Cardinality(iso) = 0
  <2>1. PICK h \in LiveHands(b) : iso = Orbit(b, h)
    BY DEF AreIsos
  <2>2. h \in Hands /\ iso = Bucket(b, h)
    BY <2>1, LiveHandsAre DEF Bucket, Orbit
  <2>3. PICK root \in Roots : \E later \in LaterCards(root) : b = root \o later
    BY DEF FromRoot
  <2>4. PICK later \in LaterCards(root) : b = root \o later
    BY <2>3
  <2>5. Unit % Cardinality(Bucket(root \o later, h)) = 0
    BY <2>2, UnitAssumption
  <2> QED BY <2>2, <2>4, <2>5
<1> QED BY <1>1, <1>2 DEF Fits

-----------------------------------------------------------------------------
\* What the ranges are made of.
Spread ==
  /\ IsBoard(board) /\ FromRoot(board)
  /\ reach \in [Player -> [mapping -> Nat]]
  /\ \A p \in Player : Even(mapping, reach[p])

RootMass(M, weights) == [iso \in M |-> SumOver(iso, LAMBDA h : weights[h])]

\* The root's reach of an iso hand is spread evenly over its hands.
LEMMA RootMassEven ==
  ASSUME NEW b, IsBoard(b), FromRoot(b), NEW M, AreIsos(b, M),
         NEW weights, \A h \in Hands : weights[h] \in Nat /\ weights[h] % Unit = 0
  PROVE  /\ Even(M, RootMass(M, weights))
         /\ \A iso \in M : RootMass(M, weights)[iso] = Sum(weights, iso)
<1>1. \A iso \in M : RootMass(M, weights)[iso] = Sum(weights, iso)
  BY DEF RootMass, Sum, SumOver, MapThenSumSet, MapThenFoldSet
<1>2. ASSUME NEW iso \in M
      PROVE  Sum(weights, iso) \in Nat /\ Sum(weights, iso) % Cardinality(iso) = 0
  <2>1. IsFiniteSet(iso) /\ iso \in SUBSET Hands
    BY IsoFacts
  <2>2. Cardinality(iso) \in Nat \ {0}
    BY IsoSize
  <2>3. Unit \in Nat \ {0} /\ Unit % Cardinality(iso) = 0
    BY FitsBoard DEF Fits
  <2>4. \A h \in iso : weights[h] \in Nat /\ weights[h] % Cardinality(iso) = 0
    BY <2>1, <2>2, <2>3, MultipleOf
  <2> QED BY <2>1, <2>2, <2>4, SumMultiple
<1>3. DOMAIN RootMass(M, weights) = M /\ RootMass(M, weights) = [iso \in M |-> RootMass(M, weights)[iso]]
  BY DEF RootMass
<1>4. RootMass(M, weights) \in [M -> Nat]
  BY <1>1, <1>2, <1>3
<1> QED BY <1>1, <1>2, <1>4 DEF Even

\* InitializeRootReach adds the weights of an iso hand.
LEMMA InitReach ==
  ASSUME Init, NEW p \in Player
  PROVE  /\ reach[p] = RootMass(mapping, belief[p])
         /\ \A h \in Hands : belief[p][h] \in Nat /\ belief[p][h] % Unit = 0
<1>1. reach[p] = RootMass(mapping, belief[p])
  BY DEF Init, InitializeRootReach, RootMass
<1>2. PICK weights \in Beliefs : belief = RootBelief(weights)
  BY DEF Init
<1>3. ASSUME NEW h \in Hands
      PROVE  belief[p][h] \in Nat /\ belief[p][h] % Unit = 0
  <2>1. belief[p][h] = IF h \in LiveHands(board) THEN weights[p][h] ELSE 0
    BY <1>2 DEF RootBelief
  <2>2. weights[p][h] \in Nat /\ weights[p][h] % Unit = 0 /\ Unit \in Nat \ {0}
    BY BeliefsAssumption
  <2>3. 0 % Unit = 0
    BY <2>2
  <2> QED BY <2>1, <2>2, <2>3
<1> QED BY <1>1, <1>3

\* A root is spread.
LEMMA InitSpread == Init => Spread
<1> SUFFICES ASSUME Init PROVE Spread
  OBVIOUS
<1>1. IsBoard(board) /\ FromRoot(board) /\ AreIsos(board, mapping)
  BY RootFromRoot, MappingAreIsos DEF Init
<1>2. \A p \in Player : Even(mapping, reach[p])
  <2> TAKE p \in Player
  <2>1. Even(mapping, RootMass(mapping, belief[p]))
    BY <1>1, InitReach, RootMassEven
  <2> QED BY <2>1, InitReach
<1>3. reach \in [Player -> [mapping -> Nat]]
  <2>1. DOMAIN reach = Player /\ reach = [p \in Player |-> reach[p]]
    BY DEF Init, InitializeRootReach
  <2> QED BY <1>2, <2>1 DEF Even
<1> QED BY <1>1, <1>2, <1>3 DEF Spread

\* An action keeps the reach spread.
LEMMA PlayedReach ==
  ASSUME IInv, Spread, NEW p \in Player, NEW taken,
         reach' = [reach EXCEPT ![p] = [iso \in mapping |-> IF iso \subseteq taken THEN @[iso] ELSE 0]]
  PROVE  /\ reach' \in [Player -> [mapping -> Nat]]
         /\ \A q \in Player : Even(mapping, reach'[q])
         /\ \A q \in Player : q # p => reach'[q] = reach[q]
         /\ \A iso \in mapping : reach'[p][iso] \in {0, reach[p][iso]}
<1>1. /\ reach \in [Player -> [mapping -> Nat]] /\ IsBoard(board) /\ AreIsos(board, mapping)
      /\ \A q \in Player : Even(mapping, reach[q])
  BY MappingAreIsos DEF Spread, IInv
<1>2. reach'[p] = [iso \in mapping |-> IF iso \subseteq taken THEN reach[p][iso] ELSE 0]
  BY <1>1
<1>3. \A q \in Player : q # p => reach'[q] = reach[q]
  BY <1>1
<1>4. reach'[p] \in [mapping -> Nat] /\ \A iso \in mapping : reach'[p][iso] \in {0, reach[p][iso]}
  BY <1>1, <1>2
<1>5. Even(mapping, reach'[p])
  <2>1. ASSUME NEW iso \in mapping
        PROVE  reach'[p][iso] % Cardinality(iso) = 0
    <3>1. Cardinality(iso) \in Nat \ {0}
      BY <1>1, IsoSize
    <3>2. 0 % Cardinality(iso) = 0
      BY <3>1
    <3>3. reach[p][iso] % Cardinality(iso) = 0
      BY <1>1 DEF Even
    <3> QED BY <1>4, <3>2, <3>3
  <2> QED BY <1>4, <2>1 DEF Even
<1>6. \A q \in Player : Even(mapping, reach'[q])
  BY <1>1, <1>3, <1>5
<1>7. reach' \in [Player -> [mapping -> Nat]]
  <2>1. DOMAIN reach' = Player /\ reach' = [q \in Player |-> reach'[q]]
    BY <1>1
  <2> QED BY <1>6, <2>1 DEF Even
<1> QED BY <1>3, <1>4, <1>6, <1>7

\* A card keeps the reach spread.
LEMMA DealtReach ==
  ASSUME IInv, Spread, NEW card \in Cards, DealCard(card)
  PROVE  /\ Spread'
         /\ UNION mapping' = {h \in UNION mapping : card \notin h}
         /\ \A p \in Player, h \in UNION mapping' :
              RawReach(mapping', reach'[p])[h] = RawReach(mapping, reach[p])[h]
<1>1. /\ IsBoard(board) /\ FromRoot(board) /\ Len(board) < RiverCards /\ card \notin ToSet(board)
      /\ mapping = Mapping(board, possible) /\ mapping' = Mapping(Append(board, card), possible)
      /\ possible \in SUBSET Hands /\ Accepts(board, possible) /\ board' = Append(board, card)
      /\ \A p \in Player : Even(mapping, reach[p])
  BY DEF Spread, IInv, DealCard
<1>2. IsBoard(board') /\ FromRoot(board')
  BY <1>1, LongerBoard, LongerFromRoot
<1>3. UNION mapping' = {h \in UNION mapping : card \notin h}
  BY <1>1, HandsBelow
<1>4. reach' = [p \in Player |-> PropagateChanceReach(mapping, mapping', reach[p])]
  BY DEF DealCard
<1>5. ASSUME NEW p \in Player
      PROVE  /\ Even(mapping', reach'[p])
             /\ \A h \in UNION mapping' : RawReach(mapping', reach'[p])[h] = RawReach(mapping, reach[p])[h]
  <2>1. reach'[p] = PropagateChanceReach(Mapping(board, possible), Mapping(Append(board, card), possible), reach[p])
    BY <1>1, <1>4
  <2>2. Even(Mapping(board, possible), reach[p])
    BY <1>1
  <2>3. /\ Even(Mapping(Append(board, card), possible), reach'[p])
        /\ \A h \in UNION Mapping(Append(board, card), possible) :
              RawReach(Mapping(Append(board, card), possible), reach'[p])[h]
                = RawReach(Mapping(board, possible), reach[p])[h]
    BY <1>1, <2>1, <2>2, ReachesBelow
  <2> QED BY <1>1, <2>3
<1>6. reach' \in [Player -> [mapping' -> Nat]]
  <2>1. DOMAIN reach' = Player /\ reach' = [q \in Player |-> reach'[q]]
    BY <1>4
  <2> QED BY <1>5, <2>1 DEF Even
<1> QED BY <1>2, <1>3, <1>5, <1>6 DEF Spread

\* Every step keeps the reach spread.
LEMMA NextSpread == IInv /\ Spread /\ [Next]_isoVars => Spread'
<1> SUFFICES ASSUME IInv, Spread, [Next]_isoVars PROVE Spread'
  OBVIOUS
<1>1. ASSUME NEW p \in Player, PlayAction(p)
      PROVE  Spread'
  <2>1. PICK taken \in TakenAt(board) :
          reach' = [reach EXCEPT ![p] = [iso \in mapping |-> IF iso \subseteq taken THEN @[iso] ELSE 0]]
    BY <1>1 DEF PlayAction
  <2>2. reach' \in [Player -> [mapping -> Nat]] /\ \A q \in Player : Even(mapping, reach'[q])
    BY <2>1, PlayedReach
  <2>3. mapping' = mapping /\ board' = board
    BY <1>1 DEF PlayAction
  <2> QED BY <2>2, <2>3 DEF Spread
<1>2. ASSUME UNCHANGED <<board, mapping, reach>>
      PROVE  Spread'
  BY <1>2 DEF Spread
<1>3. ASSUME NEW p \in Player, ShowdownTerminal(p)
      PROVE  Spread'
  BY <1>2, <1>3 DEF ShowdownTerminal
<1>4. ASSUME NEW p \in Player, NEW folder \in Player, FoldTerminal(p, folder)
      PROVE  Spread'
  BY <1>2, <1>4 DEF FoldTerminal
<1>5. CASE UNCHANGED isoVars
  BY <1>2, <1>5 DEF isoVars
<1> QED BY <1>1, <1>3, <1>4, <1>5, DealtReach DEF Next

\* Every board comes from a root, and the reach of an iso hand is a natural number
\* that its hands share evenly, through every action and card: what the code keeps
\* of an iso hand is enough to know the reach of each of its hands.
THEOREM SpecSpread == Spec => [](IInv /\ Spread)
BY InitIInv, NextIInv, InitSpread, NextSpread, PTL DEF Spec

-----------------------------------------------------------------------------
\* Raw hands.
RawValue == IF status = "valued" THEN ByHand(cfv) ELSE [h \in {} |-> 0]

LEMMA PlayingNoValue ==
  ASSUME status = "playing"
  PROVE  RawValue = RawHandsOf!NoValue
BY DEF RawValue, RawHandsOf!NoValue

\* The reach RawRanges is given is that of each hand of the mapping.
LEMMA SpreadIs ==
  ASSUME IInv, Spread, NEW p \in Player
  PROVE  /\ AreIsos(board, mapping)
         /\ SpreadReach[p] = RawReach(mapping, reach[p]) /\ DOMAIN SpreadReach[p] = UNION mapping
         /\ SpreadReach[p] = [h \in UNION mapping |-> SpreadReach[p][h]]
         /\ \A h \in UNION mapping : SpreadReach[p][h] \in Nat
<1>1. SpreadReach[p] = RawReach(mapping, reach[p])
  BY DEF SpreadReach
<1>2. AreIsos(board, mapping) /\ IsBoard(board) /\ Even(mapping, reach[p])
  BY MappingAreIsos DEF IInv, Spread
<1>3. \A h \in UNION mapping : RawReach(mapping, reach[p])[h] \in Nat
  BY <1>2, RawIsNat
<1>4. RawReach(mapping, reach[p]) = [h \in UNION mapping |-> RawReach(mapping, reach[p])[h]]
  BY DEF RawReach
<1> QED BY <1>1, <1>2, <1>3, <1>4

LEMMA RawCardinality == \A S : RawHandsOf!Cardinality(S) = Cardinality(S)
BY DEF RawHandsOf!Cardinality, Cardinality, RawHandsOf!IsFiniteSet, IsFiniteSet

\* A root is a root over raw hands.
LEMMA InitRaws == Init => RawHandsOf!InitRaw
<1> SUFFICES ASSUME Init PROVE RawHandsOf!InitRaw
  OBVIOUS
<1>1. IInv /\ Spread /\ IsBoard(board) /\ FromRoot(board)
  BY InitIInv, InitSpread DEF Spread
<1>2. RawValue = RawHandsOf!NoValue
  BY DEF RawValue, Init, RawHandsOf!NoValue
<1>3. AreIsos(board, mapping) /\ UNION mapping \subseteq Hands
  <2>1. AreIsos(board, mapping)
    BY <1>1, MappingAreIsos DEF IInv
  <2>2. UNION mapping \in SUBSET Hands
    BY <1>1, <2>1, IsoFacts
  <2> QED BY <2>1, <2>2
<1>4. SpreadReach \in [{0, 1} -> [UNION mapping -> Nat]]
  <2>1. \A p \in Player : SpreadReach[p] \in [UNION mapping -> Nat]
    BY <1>1, SpreadIs
  <2>2. SpreadReach = [p \in Player |-> SpreadReach[p]]
    BY DEF SpreadReach
  <2> QED BY <2>1, <2>2 DEF Player
<1>5. ASSUME NEW p \in {0, 1}, NEW h \in UNION mapping
      PROVE  Cardinality(Bucket(board, h)) * SpreadReach[p][h]
               = RawHandsOf!SumOf(belief[p], Bucket(board, h))
  <2>1. p \in Player
    BY DEF Player
  <2>2. PICK iso \in mapping : h \in iso
    OBVIOUS
  <2>3. Bucket(board, h) = iso
    <3>1. iso = Orbit(board, h)
      BY <1>1, <1>3, <2>2, IsoOfHand
    <3> QED BY <3>1 DEF Bucket, Orbit
  <2>4. RawReach(mapping, reach[p])[h] * Cardinality(iso) = reach[p][iso]
        /\ RawReach(mapping, reach[p])[h] \in Nat
    BY <1>1, <1>3, <2>1, <2>2, RawFacts DEF Spread
  <2>5. reach[p][iso] = Sum(belief[p], iso)
    BY <1>1, <1>3, <2>1, InitReach, RootMassEven
  <2>6. SpreadReach[p][h] = RawReach(mapping, reach[p])[h]
    BY <1>1, <2>1, SpreadIs
  <2>7. RawHandsOf!SumOf(belief[p], iso) = Sum(belief[p], iso)
    <3> DEFINE f == belief[p]
    <3> HIDE DEF f
    <3>1. RawHandsOf!SumOf(f, iso) = Sum(f, iso)
      BY DEF RawHandsOf!SumOf, RawHandsOf!MapThenSumSet, RawHandsOf!MapThenFoldSet,
              Sum, SumOver, MapThenSumSet, MapThenFoldSet
    <3> QED BY <3>1 DEF f
  <2>8. Cardinality(iso) \in Nat
    BY <1>1, <1>3, IsoSize
  <2> QED BY <2>3, <2>4, <2>5, <2>6, <2>7, <2>8
<1> QED BY <1>2, <1>3, <1>4, <1>5, RawCardinality DEF RawHandsOf!InitRaw, RawHandsOf!Players, RawValue

-----------------------------------------------------------------------------
(***************************************************************************)
(* Each step is a step of the game over raw hands.                         *)
(***************************************************************************)
LEMMA ActIsRaw ==
  ASSUME IInv, Spread, NEW p \in Player, PlayAction(p)
  PROVE  RawHandsOf!Act(p)
<1>1. PICK taken \in TakenAt(board) :
        reach' = [reach EXCEPT ![p] = [iso \in mapping |-> IF iso \subseteq taken THEN @[iso] ELSE 0]]
  BY DEF PlayAction
<1>2. /\ \A q \in Player : Even(mapping, reach'[q])
      /\ \A q \in Player : q # p => reach'[q] = reach[q]
      /\ \A iso \in mapping : reach'[p][iso] \in {0, reach[p][iso]}
  BY <1>1, PlayedReach
<1>3. /\ mapping' = mapping /\ board' = board /\ belief' = belief
      /\ status = "playing" /\ status' = status
  BY DEF PlayAction
<1>4. RawValue = RawHandsOf!NoValue /\ RawValue' = RawHandsOf!NoValue
  BY <1>3 DEF RawValue, RawHandsOf!NoValue
<1>5. SpreadReach' = [q \in Player |-> RawReach(mapping, reach'[q])]
  BY <1>3 DEF SpreadReach
<1>6. AreIsos(board, mapping) /\ IsBoard(board) /\ Even(mapping, reach[p])
  BY MappingAreIsos DEF IInv, Spread
<1>7. ASSUME NEW h \in UNION mapping
      PROVE  SpreadReach'[p][h] \in {0, SpreadReach[p][h]}
  <2>1. PICK iso \in mapping : h \in iso
    OBVIOUS
  <2>2. /\ RawReach(mapping, reach'[p])[h] = reach'[p][iso] \div Cardinality(iso)
        /\ RawReach(mapping, reach[p])[h] = reach[p][iso] \div Cardinality(iso)
    BY <1>2, <1>6, <2>1, RawFacts
  <2>3. Cardinality(iso) \in Nat \ {0}
    BY <1>6, IsoSize
  <2>4. 0 \div Cardinality(iso) = 0
    BY <2>3
  <2>5. SpreadReach[p] = RawReach(mapping, reach[p]) /\ SpreadReach'[p] = RawReach(mapping, reach'[p])
    BY <1>5 DEF SpreadReach
  <2>6. reach'[p][iso] \in {0, reach[p][iso]}
    BY <1>2
  <2> QED BY <2>2, <2>4, <2>5, <2>6
<1>8. DOMAIN SpreadReach' = {0, 1} /\ DOMAIN SpreadReach'[p] = UNION mapping
  BY <1>5 DEF Player, RawReach
<1>9. SpreadReach'[1 - p] = SpreadReach[1 - p]
  <2>1. 1 - p \in Player /\ 1 - p # p
    BY DEF Player
  <2>2. reach'[1 - p] = reach[1 - p]
    BY <1>2, <2>1
  <2> QED BY <1>5, <2>1, <2>2 DEF SpreadReach
<1> QED BY <1>3, <1>4, <1>7, <1>8, <1>9 DEF RawHandsOf!Act, RawHandsOf!Players, RawValue

\* A card over iso hands is one over raw hands.
LEMMA DealIsRaw ==
  ASSUME IInv, Spread, NEW card \in Cards, DealCard(card)
  PROVE  card \in NextCards(board) /\ RawHandsOf!Deal(card)
<1>1. /\ board' = Append(board, card) /\ belief' = belief /\ status = "playing"
      /\ status' # "valued" /\ card \in NextCards(board)
  BY DEF DealCard, NextCards
<1>2. RawValue = RawHandsOf!NoValue /\ RawValue' = RawHandsOf!NoValue
  BY <1>1 DEF RawValue, RawHandsOf!NoValue
<1>3. /\ UNION mapping' = {h \in UNION mapping : card \notin h}
      /\ \A p \in Player, h \in UNION mapping' :
           RawReach(mapping', reach'[p])[h] = RawReach(mapping, reach[p])[h]
  BY DealtReach
<1>4. SpreadReach' = [p \in {0, 1} |-> [h \in UNION mapping' |-> SpreadReach[p][h]]]
  <2>1. SpreadReach' = [p \in Player |-> RawReach(mapping', reach'[p])]
    BY DEF SpreadReach
  <2>2. ASSUME NEW p \in Player
        PROVE  RawReach(mapping', reach'[p]) = [h \in UNION mapping' |-> SpreadReach[p][h]]
    <3>1. RawReach(mapping', reach'[p])
            = [h \in UNION mapping' |-> RawReach(mapping', reach'[p])[h]]
      BY DEF RawReach
    <3>2. SpreadReach[p] = RawReach(mapping, reach[p])
      BY DEF SpreadReach
    <3> QED BY <1>3, <3>1, <3>2
  <2> QED BY <2>1, <2>2 DEF Player
<1> QED BY <1>1, <1>2, <1>3, <1>4 DEF RawHandsOf!Deal, RawHandsOf!Players, RawValue

-----------------------------------------------------------------------------
\* A fold terminal over iso hands is one over raw hands.
LEMMA FoldIsRaw ==
  ASSUME IInv, Spread, NEW p \in Player, NEW folder \in Player, FoldTerminal(p, folder)
  PROVE  RawHandsOf!Fold(p, folder)
<1> DEFINE L == UNION mapping
           raw == SpreadReach[1 - p]
           r == reach[1 - p]
<1>1. /\ mapping' = mapping /\ reach' = reach /\ board' = board /\ belief' = belief
      /\ status = "playing" /\ status' = "valued"
  BY DEF FoldTerminal
<1>2. PICK payoff \in Payoffs : cfv' = CalculateFold(mapping, r, payoff, folder = p)
  BY DEF FoldTerminal
<1> DEFINE k == IF folder = p THEN payoff.lose ELSE payoff.win
           pay(h) == MapThenSumSet(LAMBDA o : raw[o] * k, {o \in L : o \cap h = {}})
<1>3. 1 - p \in Player
  BY DEF Player
<1>4. /\ AreIsos(board, mapping) /\ IsBoard(board) /\ Even(mapping, r)
      /\ raw = RawReach(mapping, r) /\ \A o \in L : raw[o] \in Nat
  BY <1>3, SpreadIs DEF Spread
<1>5. k \in Int
  BY PayoffsAssumption
<1>6. RawValue' = [h \in L |-> cfv'[IsoOf(mapping, h)]]
  BY <1>1 DEF RawValue, ByHand
<1>7. ASSUME NEW h \in L
      PROVE  cfv'[IsoOf(mapping, h)] = pay(h)
  <2>1. PICK iso \in mapping : h \in iso
    OBVIOUS
  <2>2. IsoOf(mapping, h) = iso
    BY <1>4, <2>1, IsoOfHand
  <2>3. cfv'[iso] = k * ValidMass(mapping, r)[iso]
    BY <1>2 DEF CalculateFold
  <2>4. ValidMass(mapping, r)[iso] = Sum(raw, Against(L, h))
    BY <1>4, <2>1, ValidMassIs
  <2> DEFINE A == Against(L, h)
             paid == [o \in A |-> raw[o] * k]
  <2>5. IsFiniteSet(A) /\ A \in SUBSET L
    <3>1. IsFiniteSet(L)
      BY <1>4, IsoFacts
    <3> QED BY <3>1, AgainstIn
  <2>6. pay(h) = Sum(paid, A)
    <3>1. pay(h) = MapThenSumSet(LAMBDA o : raw[o] * k, A)
      BY DEF Against
    <3> HIDE DEF A, raw, k, pay
    <3>2. MapThenSumSet(LAMBDA o : raw[o] * k, A) = Sum(paid, A)
      BY DEF Sum, SumOver, MapThenSumSet, MapThenFoldSet
    <3> QED BY <3>1, <3>2
  <2> HIDE DEF A, raw
  <2>7. \A o \in A : raw[o] \in Int /\ paid[o] = k * raw[o]
    BY <1>4, <1>5, <2>5
  <2> HIDE DEF paid, k
  <2>8. Sum(paid, A) = k * Sum(raw, A)
    BY <1>5, <2>5, <2>7, SumTimes
  <2> QED BY <2>2, <2>3, <2>4, <2>6, <2>8 DEF A
<1>8. RawValue' = [h \in L |-> pay(h)]
  <2> HIDE DEF pay, L
  <2> QED BY <1>6, <1>7
<1>9. RawValue = RawHandsOf!NoValue
  BY <1>1, PlayingNoValue
<1>10. SpreadReach' = SpreadReach
  BY <1>1 DEF SpreadReach
<1> QED BY <1>1, <1>8, <1>9, <1>10
   DEF RawHandsOf!Fold, RawValue, RawHandsOf!MapThenSumSet, RawHandsOf!MapThenFoldSet,
       MapThenSumSet, MapThenFoldSet

\* What RawRanges pays a pair on a runout.
RawPay(b, payoff, h, o, cards) ==
  LET mine == Strength(RawHandsOf!ToSet(b) \cup cards \cup h)
      theirs == Strength(RawHandsOf!ToSet(b) \cup cards \cup o)
  IN  IF mine > theirs THEN payoff.win ELSE IF mine = theirs THEN payoff.chop ELSE payoff.lose
RawRunouts(b) == RawHandsOf!kSubset(RiverCards - Len(b), NextCards(b))
RawPair(b, payoff, h, o) ==
  MapThenSumSet(LAMBDA cards : RawPay(b, payoff, h, o, cards),
                {cards \in RawRunouts(b) : cards \cap (h \cup o) = {}})
RawShowdown(b, L, raw, payoff, h) ==
  MapThenSumSet(LAMBDA o : raw[o] * RawPair(b, payoff, h, o), {o \in L : o \cap h = {} /\ raw[o] > 0})

LEMMA RawCardsAre ==
  ASSUME NEW b
  PROVE  RawRunouts(b) = Runouts(b) /\ RawHandsOf!ToSet(b) = ToSet(b)
BY RawCardinality DEF RawRunouts, RawHandsOf!kSubset, Runouts, kSubset, RawHandsOf!ToSet, ToSet

LEMMA RawPairIs ==
  ASSUME NEW b, IsBoard(b), NEW payoff, IsPayoff(payoff),
         NEW h \in LiveHands(b), NEW o \in LiveHands(b), h \cap o = {}
  PROVE  RawPair(b, payoff, h, o) = PairValue(b, payoff, h, o)
<1> DEFINE S == Clear(b, h \cup o)
           f == Shown(b, payoff, h, o)
           g == [cards \in S |-> RawPay(b, payoff, h, o, cards)]
<1>1. RawPair(b, payoff, h, o) = Sum(g, S)
  <2>1. RawPair(b, payoff, h, o) = MapThenSumSet(LAMBDA cards : RawPay(b, payoff, h, o, cards), S)
    BY RawCardsAre DEF RawPair, Clear
  <2> HIDE DEF S
  <2>2. MapThenSumSet(LAMBDA cards : RawPay(b, payoff, h, o, cards), S) = Sum(g, S)
    BY DEF Sum, SumOver, MapThenSumSet, MapThenFoldSet
  <2> QED BY <2>1, <2>2
<1>2. IsFiniteSet(S)
  BY ClearRunouts
<1>3. ASSUME NEW cards \in S
      PROVE  f[cards] \in Int /\ g[cards] = f[cards]
  <2>1. cards \in Runouts(b) /\ cards \cap h = {} /\ cards \cap o = {}
    BY DEF Clear
  <2>2. f[cards] = Shows(payoff, StrengthOn(b, cards \cup h), StrengthOn(b, cards \cup o))
    BY <2>1 DEF Shown
  <2>3. /\ ToSet(b) \cup cards \cup h = ToSet(b) \cup (cards \cup h)
        /\ ToSet(b) \cup cards \cup o = ToSet(b) \cup (cards \cup o)
    OBVIOUS
  <2>4. g[cards] = Shows(payoff, StrengthOn(b, cards \cup h), StrengthOn(b, cards \cup o))
    BY <2>3, RawCardsAre DEF RawPay, Shows, StrengthOn
  <2>5. f[cards] \in Int
    BY <2>2 DEF Shows, IsPayoff
  <2> QED BY <2>2, <2>4, <2>5
<1> HIDE DEF f, g, S
<1>4. Sum(g, S) = Sum(f, S)
  BY <1>2, <1>3, SumSame
<1> QED BY <1>1, <1>4 DEF PairValue, f, S

\* RawRanges pays a hand what the calculator pays it.
LEMMA RawShowdownIs ==
  ASSUME NEW b, IsBoard(b), NEW M, AreIsos(b, M), NEW r, Even(M, r),
         NEW payoff, IsPayoff(payoff), NEW h \in UNION M
  PROVE  RawShowdown(b, UNION M, RawReach(M, r), payoff, h) = Paid(b, M, r, payoff, h)
<1> DEFINE L == UNION M
           raw == RawReach(M, r)
           A == Against(L, h)
           T == {o \in L : o \cap h = {} /\ raw[o] > 0}
           paid == PaidOf(b, L, raw, payoff, h)
           g == [o \in T |-> raw[o] * RawPair(b, payoff, h, o)]
<1>1. RawShowdown(b, L, raw, payoff, h) = Sum(g, T)
  <2>1. RawShowdown(b, L, raw, payoff, h) = MapThenSumSet(LAMBDA o : raw[o] * RawPair(b, payoff, h, o), T)
    BY DEF RawShowdown
  <2> HIDE DEF T, raw
  <2>2. MapThenSumSet(LAMBDA o : raw[o] * RawPair(b, payoff, h, o), T) = Sum(g, T)
    BY DEF Sum, SumOver, MapThenSumSet, MapThenFoldSet
  <2> QED BY <2>1, <2>2
<1>2. IsFiniteSet(A) /\ A \in SUBSET L
  <2>1. IsFiniteSet(L)
    BY IsoFacts
  <2> QED BY <2>1, AgainstIn
<1>3. T \in SUBSET A
  BY DEF Against
<1>4. IsFiniteSet(T)
  BY <1>2, <1>3, FS_Subset
<1>5. \A o \in A : /\ paid[o] \in Int /\ paid[o] = raw[o] * PairValue(b, payoff, h, o)
                   /\ PairValue(b, payoff, h, o) \in Int /\ raw[o] \in Nat
  BY PaidInt
<1>6. \A o \in A : o \in T <=> raw[o] > 0
  BY <1>2 DEF Against
<1>7. \A o \in A \ T : paid[o] = 0
  <2> HIDE DEF A, T, raw, paid
  <2> QED BY <1>5, <1>6
<1>8. ASSUME NEW o \in T
      PROVE  g[o] = paid[o]
  <2>1. o \in A /\ o \in L /\ h \cap o = {} /\ h \in L
    BY <1>3 DEF Against
  <2>2. h \in LiveHands(b) /\ o \in LiveHands(b)
    BY <2>1, IsoFacts
  <2>3. RawPair(b, payoff, h, o) = PairValue(b, payoff, h, o)
    BY <2>1, <2>2, RawPairIs
  <2>4. g[o] = raw[o] * RawPair(b, payoff, h, o)
    OBVIOUS
  <2> HIDE DEF g, A, T, raw, paid
  <2> QED BY <1>5, <2>1, <2>3, <2>4
<1>9. Paid(b, M, r, payoff, h) = Sum(paid, A)
  BY DEF Paid
<1> HIDE DEF g, A, T, raw, paid, L
<1>10. Sum(g, T) = Sum(paid, T)
  <2>1. \A o \in T : paid[o] \in Int /\ g[o] = paid[o]
    BY <1>3, <1>5, <1>8
  <2> QED BY <1>4, <2>1, SumSame
<1>11. Sum(paid, A) = Sum(paid, T)
  <2>1. \A o \in T : paid[o] \in Int
    BY <1>3, <1>5
  <2> QED BY <1>2, <1>3, <1>7, <2>1, SumWhere
<1> QED BY <1>1, <1>9, <1>10, <1>11 DEF L, raw

\* A showdown over iso hands is one over raw hands.
LEMMA ShowdownIsRaw ==
  ASSUME IInv, Spread, NEW p \in Player, ShowdownTerminal(p)
  PROVE  RawHandsOf!Showdown(p)
<1> DEFINE L == UNION mapping
           raw == SpreadReach[1 - p]
           r == reach[1 - p]
<1>1. /\ mapping' = mapping /\ reach' = reach /\ board' = board /\ belief' = belief
      /\ status = "playing" /\ status' = "valued"
  BY DEF ShowdownTerminal
<1>2. PICK payoff \in Payoffs : cfv' = CalculateShowdown(board, mapping, r, payoff)
  BY DEF ShowdownTerminal
<1>3. 1 - p \in Player
  BY DEF Player
<1>4. /\ AreIsos(board, mapping) /\ IsBoard(board) /\ Even(mapping, r) /\ Fits(mapping)
      /\ raw = RawReach(mapping, r) /\ IsPayoff(payoff)
  BY <1>3, SpreadIs, FitsBoard, PayoffsAssumption DEF Spread, IsPayoff
<1>5. RawValue' = [h \in L |-> cfv'[IsoOf(mapping, h)]]
  BY <1>1 DEF RawValue, ByHand
<1>6. ASSUME NEW h \in L
      PROVE  cfv'[IsoOf(mapping, h)] = RawShowdown(board, L, raw, payoff, h)
  <2>1. PICK iso \in mapping : h \in iso
    OBVIOUS
  <2>2. IsoOf(mapping, h) = iso
    BY <1>4, <2>1, IsoOfHand
  <2>3. cfv'[iso] = Paid(board, mapping, r, payoff, h)
    BY <1>2, <1>4, <2>1, ShowdownIs
  <2> HIDE DEF raw
  <2>4. RawShowdown(board, L, raw, payoff, h) = Paid(board, mapping, r, payoff, h)
    BY <1>4, RawShowdownIs
  <2> QED BY <2>2, <2>3, <2>4
<1>7. RawValue' = [h \in L |-> RawShowdown(board, L, raw, payoff, h)]
  <2> HIDE DEF raw, L
  <2> QED BY <1>5, <1>6
<1>8. RawValue = RawHandsOf!NoValue /\ SpreadReach' = SpreadReach
  BY <1>1, PlayingNoValue DEF SpreadReach
<1>9. RawValue' = [h \in L |->
         RawHandsOf!MapThenSumSet(LAMBDA o : raw[o]
             * RawHandsOf!MapThenSumSet(LAMBDA cards : RawPay(board, payoff, h, o, cards),
                                        {cards \in RawRunouts(board) : cards \cap (h \cup o) = {}}),
           {o \in L : o \cap h = {} /\ raw[o] > 0})]
  <2> HIDE DEF raw, L
  <2> QED BY <1>7
     DEF RawShowdown, RawPair, MapThenSumSet, MapThenFoldSet,
         RawHandsOf!MapThenSumSet, RawHandsOf!MapThenFoldSet
<1> QED BY <1>1, <1>8, <1>9 DEF RawHandsOf!Showdown, RawPay, RawRunouts, RawValue

\* Every step is a step or a stutter.
LEMMA NextIsRaw ==
  IInv /\ Spread /\ [Next]_isoVars => [RawHandsOf!NextRaw]_RawHandsOf!rawVars
<1> SUFFICES ASSUME IInv, Spread, [Next]_isoVars
             PROVE  RawHandsOf!NextRaw \/ UNCHANGED RawHandsOf!rawVars
  OBVIOUS
<1>1. ASSUME NEW p \in Player, PlayAction(p)
      PROVE  RawHandsOf!NextRaw
  <2>1. RawHandsOf!Act(p) /\ p \in RawHandsOf!Players
    BY <1>1, ActIsRaw DEF Player, RawHandsOf!Players
  <2> QED BY <2>1 DEF RawHandsOf!NextRaw
<1>2. ASSUME NEW p \in Player, ShowdownTerminal(p)
      PROVE  RawHandsOf!NextRaw
  <2>1. RawHandsOf!Showdown(p) /\ p \in RawHandsOf!Players
    BY <1>2, ShowdownIsRaw DEF Player, RawHandsOf!Players
  <2> QED BY <2>1 DEF RawHandsOf!NextRaw
<1>3. ASSUME NEW p \in Player, NEW folder \in Player, FoldTerminal(p, folder)
      PROVE  RawHandsOf!NextRaw
  <2>1. RawHandsOf!Fold(p, folder) /\ p \in RawHandsOf!Players /\ folder \in RawHandsOf!Players
    BY <1>3, FoldIsRaw DEF Player, RawHandsOf!Players
  <2> QED BY <2>1 DEF RawHandsOf!NextRaw
<1>4. ASSUME NEW card \in Cards, DealCard(card)
      PROVE  RawHandsOf!NextRaw
  <2>1. card \in NextCards(board) /\ RawHandsOf!Deal(card)
    BY <1>4, DealIsRaw
  <2> QED BY <2>1 DEF RawHandsOf!NextRaw
<1>5. CASE UNCHANGED isoVars
  <2>1. /\ belief' = belief /\ board' = board /\ mapping' = mapping /\ reach' = reach
        /\ status' = status /\ cfv' = cfv
    BY <1>5 DEF isoVars
  <2>2. SpreadReach' = SpreadReach /\ RawValue' = RawValue
    BY <2>1 DEF SpreadReach, RawValue, ByHand
  <2> QED BY <2>1, <2>2 DEF RawHandsOf!rawVars, RawValue
<1> QED BY <1>1, <1>2, <1>3, <1>4, <1>5 DEF Next

\* Isomorphism does not change the game: each step over iso hands (root reach,
\* actions, cards, fold and showdown values) is a step of the game over raw hands,
\* whose values are sums over the opponent's hands, for every deck, root, belief
\* and payoff, and every evaluator to which suits are alike.
THEOREM SpecPlaysRawHands == Spec => PlaysRawHands
<1>1. Init => RawHandsOf!InitRaw
  BY InitRaws
<1>2. IInv /\ Spread /\ [Next]_isoVars => [RawHandsOf!NextRaw]_RawHandsOf!rawVars
  BY NextIsRaw
<1>3. Spec => Init /\ [][Next]_isoVars
  BY DEF Spec
<1>4. PlaysRawHands <=> RawHandsOf!InitRaw /\ [][RawHandsOf!NextRaw]_RawHandsOf!rawVars
  BY DEF PlaysRawHands, RawHandsOf!RawSpec
<1> QED BY <1>1, <1>2, <1>3, <1>4, SpecSpread, PTL

-----------------------------------------------------------------------------
(***************************************************************************)
(* Equities and the next card, in every reachable state.                   *)
(***************************************************************************)
\* The equities HandEquityCalculator gives two ranges on a reachable board share
\* what is played for: one denominator, and numerators that add up to it.
THEOREM SpecEquitiesAddUp == Spec => []EquitiesAddUp
<1>1. IInv /\ Spread => EquitiesAddUp
  <2> SUFFICES ASSUME IInv, Spread
               PROVE  EquitiesAddUp
    OBVIOUS
  <2>1. IsBoard(board) /\ AreIsos(board, mapping) /\ Fits(mapping)
    BY SpreadIs, FitsBoard DEF Spread, Player
  <2>2. Even(mapping, reach[0]) /\ Even(mapping, reach[1])
    BY DEF Spread, Player
  <2>3. /\ RangeEquity(board, mapping, reach[0], reach[1]).denominator
             = RangeEquity(board, mapping, reach[1], reach[0]).denominator
        /\ RangeEquity(board, mapping, reach[0], reach[1]).numerator
             + RangeEquity(board, mapping, reach[1], reach[0]).numerator
             = RangeEquity(board, mapping, reach[0], reach[1]).denominator
    BY <2>1, <2>2, EquitiesOfRanges
  <2> QED BY <2>3 DEF EquitiesAddUp
<1> QED BY <1>1, SpecSpread, PTL

\* What each hand is paid on a child's board, and what the chance node gets.
ChildPaid(b, hands, r, payoff, card) ==
  [h \in UNION Below(b, hands, card) |->
     Paid(Append(b, card), Below(b, hands, card), BelowReach(b, hands, card, r), payoff, h)]
ChildValues(b, hands, r, payoff, card) ==
  BackwardChanceNode(Mapping(b, hands), Below(b, hands, card),
    CalculateShowdown(Append(b, card), Below(b, hands, card), BelowReach(b, hands, card, r), payoff))

\* The values a child sends up.
LEMMA ChildValuesAre ==
  ASSUME NEW b, IsBoard(b), FromRoot(b), Len(b) < RiverCards,
         NEW hands \in SUBSET Hands, Accepts(b, hands),
         NEW r, Even(Mapping(b, hands), r), NEW payoff, IsPayoff(payoff),
         NEW card \in NextCards(b), NEW iso \in Mapping(b, hands)
  PROVE  /\ ChildValues(b, hands, r, payoff, card)[iso]
              = Sum(ValuesBelow(iso, card, ChildPaid(b, hands, r, payoff, card)), iso)
         /\ \A h \in iso :
              ValuesBelow(iso, card, ChildPaid(b, hands, r, payoff, card))[h]
                = PaidNext(b, hands, r, payoff, h)[card]
<1> DEFINE c == Append(b, card)
           C == Below(b, hands, card)
           s == BelowReach(b, hands, card, r)
           values == CalculateShowdown(c, C, s, payoff)
           f == ChildPaid(b, hands, r, payoff, card)
<1>1. /\ IsBoard(c) /\ AreIsos(c, C) /\ Even(C, s)
      /\ UNION C = {h \in UNION Mapping(b, hands) : card \notin h}
  BY BelowIs
<1>2. Fits(C)
  <2>1. FromRoot(c)
    BY LongerFromRoot DEF NextCards
  <2> HIDE DEF c, C
  <2> QED BY <1>1, <2>1, FitsBoard
<1>3. \A h \in UNION C : f[h] = Paid(c, C, s, payoff, h)
  BY DEF ChildPaid
<1>4. \A j \in C : \A h \in j : f[h] \in Int /\ values[j] = f[h]
  <2> TAKE j \in C
  <2> TAKE h \in j
  <2>1. h \in UNION C
    OBVIOUS
  <2> HIDE DEF c, C, s, f
  <2>2. Paid(c, C, s, payoff, h) \in Int
    BY <1>1, <2>1, PaidInt
  <2>3. values[j] = Paid(c, C, s, payoff, h)
    BY <1>1, <1>2, ShowdownIs
  <2> QED BY <1>3, <2>1, <2>2, <2>3
<1>5. \A h \in iso : ValuesBelow(iso, card, f)[h] = PaidNext(b, hands, r, payoff, h)[card]
  <2> TAKE h \in iso
  <2>1. CASE card \in h
    BY <2>1 DEF ValuesBelow, PaidNext
  <2>2. CASE card \notin h
    <3>1. h \in UNION C
      BY <1>1, <2>2
    <3>2. PaidNext(b, hands, r, payoff, h)[card] = Paid(c, C, s, payoff, h)
      BY <2>2 DEF PaidNext
    <3>3. ValuesBelow(iso, card, f)[h] = f[h]
      BY <2>2 DEF ValuesBelow
    <3> QED BY <1>3, <3>1, <3>2, <3>3
  <2> QED BY <2>1, <2>2
<1>6. ChildValues(b, hands, r, payoff, card)[iso] = Sum(ValuesBelow(iso, card, f), iso)
  <2> HIDE DEF f, values
  <2>1. BackwardChanceNode(Mapping(b, hands), C, values)[iso] = Sum(ValuesBelow(iso, card, f), iso)
    BY <1>4, ChildIs
  <2> QED BY <2>1 DEF ChildValues, values
<1> QED BY <1>5, <1>6

\* All-in before the last card is a chance node over all-ins after it.
LEMMA ChanceIs ==
  ASSUME NEW b, IsBoard(b), FromRoot(b), Len(b) < RiverCards,
         NEW hands \in SUBSET Hands, Accepts(b, hands),
         NEW r, Even(Mapping(b, hands), r), NEW payoff, IsPayoff(payoff),
         NEW iso \in Mapping(b, hands)
  PROVE  CalculateShowdown(b, Mapping(b, hands), r, payoff)[iso] * Cardinality(iso)
             * (RiverCards - Len(b))
           = Sum([card \in NextCards(b) |-> ChildValues(b, hands, r, payoff, card)[iso]], NextCards(b))
<1> DEFINE M == Mapping(b, hands)
           N == NextCards(b)
           k == RiverCards - Len(b)
           now == CalculateShowdown(b, M, r, payoff)[iso]
           m == [card \in N |-> ValuesBelow(iso, card, ChildPaid(b, hands, r, payoff, card))]
           t == [h \in iso |-> PaidNext(b, hands, r, payoff, h)]
           rows == [card \in N |-> ChildValues(b, hands, r, payoff, card)[iso]]
           cols == [h \in iso |-> k * now]
<1>0. iso \in M /\ Even(M, r)
  OBVIOUS
<1>1. AreIsos(b, M)
  BY MappingAreIsos
<1>2. Fits(M)
  <2> HIDE DEF M
  <2> QED BY <1>1, FitsBoard
<1>3. /\ IsFiniteSet(iso) /\ iso # {} /\ Cardinality(iso) \in Nat /\ iso \in SUBSET UNION M
  <2> HIDE DEF M
  <2> QED BY <1>0, <1>1, IsoFacts
<1>4. IsFiniteSet(N)
  BY CardsFinite DEF NextCards
<1>5. k \in Int
  BY BoardCards, DeckAssumption DEF RiverCards
<1>6. \A h \in iso : now = Paid(b, M, r, payoff, h) /\ now \in Int
  <2> HIDE DEF M
  <2> TAKE h \in iso
  <2>1. CalculateShowdown(b, M, r, payoff)[iso] = Paid(b, M, r, payoff, h)
    BY <1>0, <1>1, <1>2, ShowdownIs
  <2>2. Paid(b, M, r, payoff, h) \in Int
    BY <1>0, <1>1, <1>3, PaidInt
  <2> QED BY <2>1, <2>2
<1>7. ASSUME NEW card \in N, NEW h \in iso
      PROVE  m[card][h] \in Int /\ t[h][card] = m[card][h]
  <2>1. m[card][h] = PaidNext(b, hands, r, payoff, h)[card]
    BY ChildValuesAre
  <2>2. h \in UNION M
    BY <1>3
  <2>3. PaidNext(b, hands, r, payoff, h)[card] \in Int
    BY <2>2, PaidIsChance
  <2> QED BY <2>1, <2>3
<1>8. ASSUME NEW card \in N
      PROVE  rows[card] = Sum(m[card], iso)
  BY ChildValuesAre
<1>9. ASSUME NEW h \in iso
      PROVE  cols[h] = Sum(t[h], N)
  <2>1. h \in UNION M
    BY <1>3
  <2>2. Sum(PaidNext(b, hands, r, payoff, h), N) = k * Paid(b, M, r, payoff, h)
    BY <2>1, PaidIsChance
  <2>3. now = Paid(b, M, r, payoff, h)
    BY <1>6
  <2>4. cols[h] = k * now
    OBVIOUS
  <2>5. t[h] = PaidNext(b, hands, r, payoff, h)
    OBVIOUS
  <2> HIDE DEF now, t, cols, k, N, M
  <2> QED BY <2>2, <2>3, <2>4, <2>5
<1>10. \A h \in iso : cols[h] = k * now
  OBVIOUS
<1>11. k * now \in Int
  <2>1. now \in Int
    BY <1>3, <1>6
  <2> HIDE DEF k, now
  <2> QED BY <1>5, <2>1
<1>12. now \in Int
  BY <1>3, <1>6
<1> HIDE DEF m, t, rows, cols, N, k, now, M
<1>13. IsTable(m, t, rows, cols, N, iso)
  BY <1>7, <1>8, <1>9 DEF IsTable
<1>14. Sum(rows, N) = Sum(cols, iso)
  BY <1>3, <1>4, <1>13, SumSwap
<1>15. Sum(cols, iso) = Cardinality(iso) * (k * now)
  BY <1>3, <1>10, <1>11, SumConst
<1>16. now * Cardinality(iso) * k = Cardinality(iso) * (k * now)
  <2> DEFINE n == Cardinality(iso)
  <2>1. n \in Nat
    BY <1>3
  <2> HIDE DEF n
  <2>2. now * n * k = n * (k * now)
    BY ONLY <1>5, <1>12, <2>1
  <2> QED BY <2>2 DEF n
<1> QED BY <1>14, <1>15, <1>16 DEF now, k, rows, N, M

LEMMA SumOverColumn ==
  ASSUME NEW after, NEW iso, NEW S
  PROVE  SumOver(S, LAMBDA card : after[card][iso]) = Sum([card \in S |-> after[card][iso]], S)
BY DEF Sum, SumOver, MapThenSumSet, MapThenFoldSet

\* An all-in showdown before the river is worth, to every iso hand, the average
\* over the next card of the showdowns below it: the win matrices agree with the
\* chance nodes the tree would have had.
THEOREM SpecRunoutIsChance == Spec => []RunoutIsChance
<1>1. IInv /\ Spread => RunoutIsChance
  <2> SUFFICES ASSUME IInv, Spread, status = "playing", Len(board) < RiverCards,
                      NEW p \in Player, NEW payoff \in Payoffs, NEW iso \in mapping
               PROVE  LET r == reach[1 - p]
                          After(card) ==
                            LET child == Mapping(Append(board, card), possible)
                            IN  BackwardChanceNode(mapping, child,
                                  CalculateShowdown(Append(board, card), child,
                                    PropagateChanceReach(mapping, child, r), payoff))
                          after == [card \in NextCards(board) |-> After(card)]
                      IN  CalculateShowdown(board, mapping, r, payoff)[iso] * Cardinality(iso)
                              * (RiverCards - Len(board))
                            = SumOver(NextCards(board), LAMBDA card : after[card][iso])
    BY DEF RunoutIsChance
  <2> DEFINE r == reach[1 - p]
             After(card) ==
               LET child == Mapping(Append(board, card), possible)
               IN  BackwardChanceNode(mapping, child,
                     CalculateShowdown(Append(board, card), child,
                       PropagateChanceReach(mapping, child, r), payoff))
             after == [card \in NextCards(board) |-> After(card)]
             N == NextCards(board)
             row == [card \in N |-> ChildValues(board, possible, r, payoff, card)[iso]]
  <2>1. /\ IsBoard(board) /\ FromRoot(board) /\ possible \in SUBSET Hands
        /\ mapping = Mapping(board, possible) /\ Accepts(board, possible)
    BY DEF IInv, Spread
  <2>2. Even(Mapping(board, possible), r)
    <3>1. 1 - p \in Player
      BY DEF Player
    <3> QED BY <2>1, <3>1 DEF Spread
  <2>3. IsPayoff(payoff)
    BY PayoffsAssumption DEF IsPayoff
  <2>4. iso \in Mapping(board, possible)
    BY <2>1
  <2>5. [card \in N |-> after[card][iso]] = row
    BY <2>1 DEF ChildValues, Below, BelowReach
  <2> HIDE DEF r
  <2>6. CalculateShowdown(board, Mapping(board, possible), r, payoff)[iso] * Cardinality(iso)
            * (RiverCards - Len(board)) = Sum(row, N)
    BY <2>1, <2>2, <2>3, <2>4, ChanceIs
  <2> HIDE DEF after, row, N
  <2>7. SumOver(N, LAMBDA card : after[card][iso]) = Sum([card \in N |-> after[card][iso]], N)
    BY SumOverColumn
  <2> QED BY <2>1, <2>5, <2>6, <2>7 DEF N, after, r
<1> QED BY <1>1, SpecSpread, PTL
=============================================================================
