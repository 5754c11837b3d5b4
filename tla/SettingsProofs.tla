---------------------------- MODULE SettingsProofs -----------------------------
(***************************************************************************)
(* What the adapter has been told, for all channels, domains, addresses,   *)
(* networks and keys.  The argument is about the commands that are still   *)
(* to be carried out: a setting WillBe v if the last command for it sets v *)
(* or, without one, if it is v already.  A command that is carried out     *)
(* changes nothing in that, and what a call of mac80211's issues decides   *)
(* it anew for the settings the call is about.                             *)
(***************************************************************************)
EXTENDS Settings, SequenceTheorems, WellFoundedInduction, TLAPS

-------------------------------------------------------------------------------
(* Lists of commands *)

LEMMA CmdIn ==
  ASSUME NEW f \in Fields, NEW v \in AcxValues[f]
  PROVE  Cmd(f, v) \in Commands /\ Needed(f, v) \in Commands
  BY DEF Cmd, Needed, Commands

LEMMA CommandIs ==
  ASSUME NEW c \in Commands
  PROVE  c.ie \in Fields /\ c.val \in AcxValues[c.ie]
  BY DEF Commands

\* A list whose commands are for the settings of F, and which is careful with rxConfig.
List(q, F) ==
  /\ q \in Seq(Commands)
  /\ \A i \in DOMAIN q : q[i].ie \in F
  /\ Careful(q)

\* What a list says of a setting after another list was put before it.
LEMMA Appended ==
  ASSUME NEW F, NEW G, NEW a, NEW b, List(a, F), List(b, G)
  PROVE  /\ List(a \o b, F \cup G)
         /\ \A f, v : Sets(b, f, v) => Sets(a \o b, f, v)
         /\ \A f, v : Sets(a, f, v) /\ f \notin G => Sets(a \o b, f, v)
<1>1. a \in Seq(Commands) /\ b \in Seq(Commands)
  BY DEF List
<1>2. /\ a \o b \in Seq(Commands) /\ Len(a \o b) = Len(a) + Len(b)
      /\ Len(a) \in Nat /\ Len(b) \in Nat
      /\ DOMAIN a = 1..Len(a) /\ DOMAIN b = 1..Len(b) /\ DOMAIN (a \o b) = 1 .. Len(a) + Len(b)
      /\ \A i \in 1 .. Len(a) : (a \o b)[i] = a[i]
      /\ \A i \in 1 .. Len(b) : (a \o b)[Len(a) + i] = b[i]
      /\ \A i \in 1 .. Len(a) + Len(b) : (a \o b)[i] = IF i <= Len(a) THEN a[i] ELSE b[i - Len(a)]
  BY <1>1, ConcatProperties, LenProperties
<1>3. ASSUME NEW i \in DOMAIN (a \o b) PROVE (a \o b)[i].ie \in F \cup G
  BY <1>2, <1>3 DEF List
<1>4. Careful(a \o b)
  <2> SUFFICES ASSUME NEW i \in DOMAIN (a \o b), (a \o b)[i].ie = "rxConfig"
               PROVE  i > 1 /\ (a \o b)[i - 1].ie = "rx" /\ (a \o b)[i - 1].val = 0
    BY DEF Careful
  <2>1. CASE i <= Len(a)
    <3>1. i \in DOMAIN a /\ a[i].ie = "rxConfig"
      BY <2>1, <1>2
    <3>2. i > 1 /\ a[i - 1].ie = "rx" /\ a[i - 1].val = 0
      BY <3>1 DEF List, Careful
    <3> QED
      BY <3>1, <3>2, <1>2
  <2>2. CASE i > Len(a)
    <3>1. i - Len(a) \in DOMAIN b /\ b[i - Len(a)].ie = "rxConfig"
      BY <2>2, <1>2
    <3>2. i - Len(a) > 1 /\ b[i - Len(a) - 1].ie = "rx" /\ b[i - Len(a) - 1].val = 0
      BY <3>1 DEF List, Careful
    <3>3. (a \o b)[i - 1] = b[i - Len(a) - 1] /\ i > 1
      BY <3>1, <3>2, <1>2
    <3> QED
      BY <3>2, <3>3
  <2> QED
    BY <2>1, <2>2, <1>2
<1>5. ASSUME NEW f, NEW v, Sets(b, f, v) PROVE Sets(a \o b, f, v)
  <2>1. PICK i \in DOMAIN b : b[i].ie = f /\ b[i].val = v /\ \A j \in DOMAIN b : j > i => b[j].ie # f
    BY <1>5 DEF Sets
  <2>2. Len(a) + i \in DOMAIN (a \o b) /\ (a \o b)[Len(a) + i] = b[i]
    BY <1>2
  <2>3. ASSUME NEW j \in DOMAIN (a \o b), j > Len(a) + i PROVE (a \o b)[j].ie # f
    <3>1. j - Len(a) \in DOMAIN b /\ j - Len(a) > i /\ (a \o b)[j] = b[j - Len(a)]
      BY <1>2, <2>3
    <3> QED
      BY <3>1, <2>1
  <2> QED
    BY <2>1, <2>2, <2>3 DEF Sets
<1>6. ASSUME NEW f, NEW v, Sets(a, f, v), f \notin G PROVE Sets(a \o b, f, v)
  <2>1. PICK i \in DOMAIN a : a[i].ie = f /\ a[i].val = v /\ \A j \in DOMAIN a : j > i => a[j].ie # f
    BY <1>6 DEF Sets
  <2>2. i \in DOMAIN (a \o b) /\ (a \o b)[i] = a[i]
    BY <1>2
  <2>3. ASSUME NEW j \in DOMAIN (a \o b), j > i PROVE (a \o b)[j].ie # f
    <3>1. CASE j <= Len(a)
      BY <3>1, <1>2, <2>1, <2>3
    <3>2. CASE j > Len(a)
      <4>1. j - Len(a) \in DOMAIN b /\ (a \o b)[j] = b[j - Len(a)]
        BY <3>2, <1>2
      <4> QED
        BY <4>1, <1>6 DEF List
    <3> QED
      BY <3>1, <3>2, <1>2
  <2> QED
    BY <2>1, <2>2, <2>3 DEF Sets
<1> QED
  BY <1>1, <1>2, <1>3, <1>4, <1>5, <1>6 DEF List

LEMMA NoCommands == List(<<>>, {})
  BY DEF List, Careful

LEMMA OneCommand ==
  ASSUME NEW f \in Fields, f # "rxConfig", NEW v \in AcxValues[f], NEW c,
         c = Cmd(f, v) \/ c = Needed(f, v)
  PROVE  List(<<c>>, {f}) /\ Sets(<<c>>, f, v)
<1>1. c \in Commands /\ c.ie = f /\ c.val = v
  <2>1. c \in Commands
    BY CmdIn
  <2>2. c.ie = f /\ c.val = v
    BY DEF Cmd, Needed
  <2> QED
    BY <2>1, <2>2
<1> DEFINE q == <<c>>
<1>2. q \in Seq(Commands) /\ DOMAIN q = {1} /\ q[1] = c
  BY <1>1
<1> HIDE DEF q
<1>3. List(q, {f})
  BY <1>1, <1>2 DEF List, Careful
<1>4. Sets(q, f, v)
  BY <1>1, <1>2 DEF Sets
<1> QED
  BY <1>3, <1>4 DEF q

\* A list that may not be there.
LEMMA WhenList ==
  ASSUME NEW F, NEW q, List(q, F), NEW c \in BOOLEAN
  PROVE  List(When(c, q), F) /\ (c => When(c, q) = q)
  BY DEF When, List, Careful

LEMMA ListMonotone ==
  ASSUME NEW F, NEW G, F \subseteq G, NEW q, List(q, F)
  PROVE  List(q, G)
  BY DEF List

-------------------------------------------------------------------------------
(* Carrying out commands *)

\* The values of the settings.
AcxOK == acx = [f \in Fields |-> acx[f]] /\ \A f \in Fields : acx[f] \in AcxValues[f]

LEMMA OkKeepsWillBe ==
  ASSUME AcxOK, todo \in Seq(Commands), IssueCmdOk
  PROVE  /\ AcxOK' /\ todo' \in Seq(Commands)
         /\ \A f \in Fields : \A v : After(todo, acx, f, v) => After(todo', acx', f, v)
<1>1. /\ todo # <<>> /\ todo' = Tail(todo)
      /\ acx' = [acx EXCEPT ![Head(todo).ie] = Head(todo).val]
  BY DEF IssueCmdOk, Idle
<1>2. /\ Len(todo) \in Nat \ {0} /\ DOMAIN todo = 1..Len(todo) /\ todo' \in Seq(Commands)
      /\ DOMAIN todo' = 1 .. Len(todo) - 1 /\ Head(todo) = todo[1] /\ todo[1] \in Commands
      /\ \A i \in 1 .. Len(todo) - 1 : todo'[i] = todo[i + 1]
  BY <1>1
<1>3. Head(todo).ie \in Fields /\ Head(todo).val \in AcxValues[Head(todo).ie]
  BY <1>2, CommandIs
<1>4. /\ acx' = [f \in Fields |-> IF f = Head(todo).ie THEN Head(todo).val ELSE acx[f]]
  BY <1>1, <1>3 DEF AcxOK
<1>5. AcxOK'
  BY <1>3, <1>4 DEF AcxOK
<1>6. ASSUME NEW f \in Fields, NEW v, Sets(todo, f, v) PROVE After(todo', acx', f, v)
  <2>1. PICK i \in DOMAIN todo : /\ todo[i].ie = f /\ todo[i].val = v
                                 /\ \A j \in DOMAIN todo : j > i => todo[j].ie # f
    BY <1>6 DEF Sets
  <2>2. ASSUME NEW j \in DOMAIN todo' PROVE todo'[j] = todo[j + 1] /\ j + 1 \in DOMAIN todo
    BY <1>2
  <2>3. CASE i = 1
    <3>1. acx'[f] = v
      BY <2>1, <2>3, <1>2, <1>4
    <3>2. Leaves(todo', f)
      BY <2>1, <2>2, <2>3, <1>2 DEF Leaves
    <3> QED
      BY <3>1, <3>2 DEF After
  <2>4. CASE i # 1
    <3>1. i - 1 \in DOMAIN todo' /\ todo'[i - 1] = todo[i]
      BY <2>4, <1>2
    <3>2. ASSUME NEW j \in DOMAIN todo', j > i - 1 PROVE todo'[j].ie # f
      BY <3>2, <2>1, <2>2, <1>2
    <3>3. Sets(todo', f, v)
      BY <3>1, <3>2, <2>1 DEF Sets
    <3> QED
      BY <3>3 DEF After
  <2> QED
    BY <2>3, <2>4
<1>7. ASSUME NEW f \in Fields, NEW v, Leaves(todo, f), acx[f] = v PROVE After(todo', acx', f, v)
  <2>1. \A i \in DOMAIN todo : todo[i].ie # f
    BY <1>7 DEF Leaves
  <2>2. f # Head(todo).ie
    BY <1>2, <2>1
  <2>3. ASSUME NEW i \in DOMAIN todo' PROVE todo'[i].ie # f
    <3>1. i + 1 \in DOMAIN todo /\ todo'[i] = todo[i + 1]
      BY <1>2
    <3> QED
      BY <2>1, <3>1
  <2>4. acx'[f] = v
    BY <1>4, <1>7, <2>2
  <2> QED
    BY <2>3, <2>4 DEF Leaves, After
<1> QED
  BY <1>2, <1>5, <1>6, <1>7 DEF After

\* The first of a careful list needs reception off, and leaves a careful list.
LEMMA OkIsCareful ==
  ASSUME AcxOK, todo \in Seq(Commands), IssueCmdOk, RxOffBefore
  PROVE  RxOffBefore' /\ (acx'.rxConfig # acx.rxConfig => acx.rx = 0)
<1>1. /\ todo # <<>> /\ todo' = Tail(todo)
      /\ acx' = [acx EXCEPT ![Head(todo).ie] = Head(todo).val]
  BY DEF IssueCmdOk, Idle
<1>2. /\ Len(todo) \in Nat \ {0} /\ DOMAIN todo = 1..Len(todo) /\ todo' \in Seq(Commands)
      /\ DOMAIN todo' = 1 .. Len(todo) - 1 /\ Head(todo) = todo[1] /\ todo[1] \in Commands
      /\ \A i \in 1 .. Len(todo) - 1 : todo'[i] = todo[i + 1]
  BY <1>1
<1>3. Head(todo).ie \in Fields /\ Head(todo).val \in AcxValues[Head(todo).ie]
  BY <1>2, CommandIs
<1>4. /\ acx' = [f \in Fields |-> IF f = Head(todo).ie THEN Head(todo).val ELSE acx[f]]
      /\ "rxConfig" \in Fields /\ "rx" \in Fields
  BY <1>1, <1>3 DEF AcxOK, Fields, AcxValues
<1>5. acx'["rxConfig"] # acx["rxConfig"] => acx["rx"] = 0
  <2>1. acx'["rxConfig"] # acx["rxConfig"] => Head(todo).ie = "rxConfig"
    BY <1>4
  <2>2. 1 \in DOMAIN todo
    BY <1>2
  <2>3. todo[1].ie = "rxConfig" => acx["rx"] = 0
    BY <2>2 DEF RxOffBefore
  <2> QED
    BY <2>1, <2>3, <1>2
<1>6. ASSUME NEW i \in DOMAIN todo', todo'[i].ie = "rxConfig"
      PROVE  IF i = 1 THEN acx'["rx"] = 0 ELSE todo'[i - 1].ie = "rx" /\ todo'[i - 1].val = 0
  <2>1. i + 1 \in DOMAIN todo /\ todo[i + 1].ie = "rxConfig" /\ i \in Nat \ {0}
    BY <1>2, <1>6
  <2>2. todo[i].ie = "rx" /\ todo[i].val = 0
    <3>1. i + 1 # 1 /\ i + 1 - 1 = i
      BY <2>1
    <3> QED
      BY <2>1, <3>1 DEF RxOffBefore
  <2>3. CASE i = 1
    BY <2>2, <2>3, <1>2, <1>4
  <2>4. CASE i # 1
    <3>1. i - 1 \in 1 .. Len(todo) - 1 /\ todo'[i - 1] = todo[i]
      BY <2>1, <2>4, <1>2
    <3> QED
      BY <2>2, <2>4, <3>1
  <2> QED
    BY <2>3, <2>4
<1> QED
  BY <1>5, <1>6 DEF RxOffBefore

-------------------------------------------------------------------------------
(* What the lists say *)

LEMMA FieldsAre ==
  /\ Fields = {"tx", "rx", "rxConfig", "level", "addr", "ed", "joined", "beacon", "probe",
               "tim", "domain", "noTxCrypt", "keys"}
  /\ AcxValues["tx"] = Channels \cup {0} /\ AcxValues["rx"] = Channels \cup {0}
  /\ AcxValues["rxConfig"] = Modes \cup {"off"}
  /\ AcxValues["level"] = 1..5 /\ AcxValues["addr"] = Addrs /\ AcxValues["ed"] = Thresholds
  /\ AcxValues["joined"] = [bssid : Addrs \cup Peers \cup {Zero}, mode : Modes \cup {"off"},
                            channel : Channels \cup {0}]
  /\ AcxValues["beacon"] = 0..2 /\ AcxValues["probe"] = 0..2 /\ AcxValues["tim"] = 0..2
  /\ AcxValues["domain"] = DOMAIN DomainMask /\ AcxValues["noTxCrypt"] = BOOLEAN
  /\ AcxValues["keys"] = SUBSET {"CCMP"}
  BY DEF Fields, AcxValues

LEMMA UpdateTxDoes ==
  ASSUME NEW e \in BOOLEAN, NEW ch \in Channels
  PROVE  List(UpdateTx(e, ch), {"tx"}) /\ Sets(UpdateTx(e, ch), "tx", IF e THEN ch ELSE 0)
  BY OneCommand, FieldsAre DEF UpdateTx

LEMMA UpdateRxDoes ==
  ASSUME NEW e \in BOOLEAN, NEW ch \in Channels
  PROVE  List(UpdateRx(e, ch), {"rx"}) /\ Sets(UpdateRx(e, ch), "rx", IF e THEN ch ELSE 0)
  BY OneCommand, FieldsAre DEF UpdateRx

LEMMA SetChannelDoes ==
  ASSUME NEW ch \in Channels
  PROVE  /\ List(SetChannel(ch), {"tx", "rx"})
         /\ Sets(SetChannel(ch), "tx", ch) /\ Sets(SetChannel(ch), "rx", ch)
<1>1. /\ List(UpdateTx(TRUE, ch), {"tx"}) /\ Sets(UpdateTx(TRUE, ch), "tx", ch)
      /\ List(UpdateRx(TRUE, ch), {"rx"}) /\ Sets(UpdateRx(TRUE, ch), "rx", ch)
  BY UpdateTxDoes, UpdateRxDoes
<1>2. {"tx"} \cup {"rx"} = {"tx", "rx"} /\ "tx" \notin {"rx"}
  OBVIOUS
<1> DEFINE a == UpdateTx(TRUE, ch)
           b == UpdateRx(TRUE, ch)
<1>3. List(a, {"tx"}) /\ List(b, {"rx"}) /\ Sets(a, "tx", ch) /\ Sets(b, "rx", ch)
  BY <1>1
<1> HIDE DEF a, b
<1>4. List(a \o b, {"tx"} \cup {"rx"})
  BY <1>3, Appended
<1>5. Sets(a \o b, "tx", ch)
  BY <1>3, <1>2, Appended
<1>6. Sets(a \o b, "rx", ch)
  BY <1>3, <1>2, Appended
<1>7. List(a \o b, {"tx", "rx"})
  BY <1>4, <1>2
<1> QED
  BY <1>5, <1>6, <1>7 DEF SetChannel, a, b

\* Rx is off before rxConfig is set, and both are on after it.
LEMMA UpdateModeOnDoes ==
  ASSUME NEW m \in Modes, NEW ch \in Channels
  PROVE  /\ List(UpdateMode(m, ch), {"tx", "rx", "rxConfig"})
         /\ Sets(UpdateMode(m, ch), "rxConfig", m)
         /\ Sets(UpdateMode(m, ch), "tx", ch) /\ Sets(UpdateMode(m, ch), "rx", ch)
<1> DEFINE c == Cmd("rx", 0)
           d == Cmd("rxConfig", m)
           two == <<c>> \o <<d>>
           rx == UpdateRx(TRUE, ch)
           tx == UpdateTx(TRUE, ch)
<1>1. UpdateMode(m, ch) = (two \o rx) \o tx
  <2>1. UpdateRx(FALSE, ch) = <<c>>
    BY DEF UpdateRx
  <2> QED
    BY <2>1 DEF UpdateMode
<1>2. c \in Commands /\ d \in Commands
  BY CmdIn, FieldsAre
<1>3. c.ie = "rx" /\ c.val = 0 /\ d.ie = "rxConfig" /\ d.val = m
  BY DEF Cmd
<1>4. List(rx, {"rx"}) /\ Sets(rx, "rx", ch) /\ List(tx, {"tx"}) /\ Sets(tx, "tx", ch)
  BY UpdateTxDoes, UpdateRxDoes
<1> HIDE DEF c, d, rx, tx
<1>5. two \in Seq(Commands) /\ DOMAIN two = {1, 2} /\ two[1] = c /\ two[2] = d
  <2>1. /\ <<c>> \in Seq(Commands) /\ <<d>> \in Seq(Commands)
        /\ Len(<<c>>) = 1 /\ Len(<<d>>) = 1 /\ <<c>>[1] = c /\ <<d>>[1] = d
    BY <1>2
  <2>2. /\ two \in Seq(Commands) /\ Len(two) = 2 /\ two[1] = <<c>>[1] /\ two[2] = <<d>>[1]
    BY <2>1, ConcatProperties
  <2> QED
    BY <2>1, <2>2
<1> HIDE DEF two
<1>6. List(two, {"rx", "rxConfig"}) /\ Sets(two, "rxConfig", m)
  <2>1. Careful(two)
    BY <1>3, <1>5 DEF Careful
  <2>2. Sets(two, "rxConfig", m)
    BY <1>3, <1>5 DEF Sets
  <2> QED
    BY <1>3, <1>5, <2>1, <2>2 DEF List
<1> DEFINE three == two \o rx
<1>7. /\ List(three, {"rx", "rxConfig"} \cup {"rx"}) /\ Sets(three, "rx", ch)
      /\ Sets(three, "rxConfig", m)
  BY <1>4, <1>6, Appended
<1> HIDE DEF three
<1>8. List(three, {"rx", "rxConfig"})
  BY <1>7, ListMonotone
<1>9. /\ List(three \o tx, {"rx", "rxConfig"} \cup {"tx"}) /\ Sets(three \o tx, "tx", ch)
      /\ Sets(three \o tx, "rx", ch) /\ Sets(three \o tx, "rxConfig", m)
  <2>1. "rx" \notin {"tx"} /\ "rxConfig" \notin {"tx"}
    OBVIOUS
  <2> QED
    BY <2>1, <1>4, <1>7, <1>8, Appended
<1>10. List(three \o tx, {"tx", "rx", "rxConfig"})
  BY <1>9, ListMonotone
<1> QED
  BY <1>1, <1>9, <1>10 DEF three

LEMMA UpdateModeOffDoes ==
  ASSUME NEW m, m \notin Modes, NEW ch \in Channels
  PROVE  List(UpdateMode(m, ch), {"tx", "rx"})
<1> DEFINE tx == UpdateTx(FALSE, ch)
           rx == UpdateRx(FALSE, ch)
<1>1. List(tx, {"tx"}) /\ List(rx, {"rx"})
  BY UpdateTxDoes, UpdateRxDoes
<1>2. UpdateMode(m, ch) = tx \o rx
  BY DEF UpdateMode
<1> HIDE DEF tx, rx
<1>3. List(tx \o rx, {"tx"} \cup {"rx"})
  BY <1>1, Appended
<1>4. List(tx \o rx, {"tx", "rx"})
  BY <1>3, ListMonotone
<1> QED
  BY <1>2, <1>4

\* A set of naturals has a least element.
LEMMA Least ==
  ASSUME NEW T, T \subseteq Nat, T # {}
  PROVE  \E x \in T : \A y \in T : x <= y
<1> DEFINE R == {ss \in Nat \X Nat : ss[1] < ss[2]}
<1>1. OpToRel(<, Nat) = R
  BY Zenon DEF OpToRel
<1>2. IsWellFoundedOn(R, Nat)
  BY NatLessThanWellFounded, <1>1
<1>3. \A x, y \in Nat : <<x, y>> \in R <=> x < y
  OBVIOUS
<1> HIDE DEF R
<1>4. PICK x \in T : \A y \in T : ~(<<y, x>> \in R)
  BY <1>2, WFMin
<1>5. ASSUME NEW y \in T PROVE x <= y
  <2>1. ~(y < x) /\ x \in Nat /\ y \in Nat
    BY <1>3, <1>4
  <2> QED
    BY <2>1
<1> QED
  BY <1>5

\* A domain the driver does not know is replaced, and a channel that is not in it.
LEMMA SaneInRange ==
  ASSUME NEW ch, NEW d
  PROVE  SaneDomain(d) \in DOMAIN DomainMask /\ SaneChannel(ch, d) \in Channels
<1>1. SaneDomain(d) \in DOMAIN DomainMask
  BY SettingsAssumption DEF SaneDomain
<1>2. DomainMask[SaneDomain(d)] \subseteq Channels /\ DomainMask[SaneDomain(d)] # {}
  BY <1>1, SettingsAssumption
<1> DEFINE mask == DomainMask[SaneDomain(d)]
<1>3. mask \subseteq Nat /\ mask # {}
  <2>1. Channels \subseteq Nat
    BY SettingsAssumption
  <2> QED
    BY <1>2, <2>1
<1>4. \E c \in mask : \A o \in mask : c <= o
  BY <1>3, Least
<1>5. (CHOOSE c \in mask : \A o \in mask : c <= o) \in mask
  BY <1>4
<1> QED
  BY <1>1, <1>2, <1>5 DEF SaneChannel

LEMMA UpdateRegDomainDoes ==
  ASSUME NEW d
  PROVE  /\ List(UpdateRegDomain(d), {"domain"})
         /\ Sets(UpdateRegDomain(d), "domain", SaneDomain(d))
  BY OneCommand, SaneInRange, FieldsAre DEF UpdateRegDomain

LEMMA UpdateHwEncryptionDoes ==
  ASSUME NEW e \in BOOLEAN
  PROVE  /\ List(UpdateHwEncryption(e), {"noTxCrypt"})
         /\ card # "acx100" => Sets(UpdateHwEncryption(e), "noTxCrypt", ~e)
<1> DEFINE v == ~e
           q == <<Cmd("noTxCrypt", v)>>
<1>1. v \in AcxValues["noTxCrypt"] /\ "noTxCrypt" \in Fields
  <2>1. v \in BOOLEAN
    OBVIOUS
  <2> HIDE DEF v
  <2> QED
    BY <2>1, FieldsAre
<1>2. UpdateHwEncryption(e) = IF card # "acx100" THEN q ELSE <<>>
  BY DEF UpdateHwEncryption, When
<1> HIDE DEF v
<1>3. List(q, {"noTxCrypt"}) /\ Sets(q, "noTxCrypt", v)
  BY <1>1, OneCommand
<1>4. List(<<>>, {"noTxCrypt"})
  BY DEF List, Careful
<1> HIDE DEF q
<1> QED
  BY <1>2, <1>3, <1>4 DEF v

LEMMA UpdateEdThresholdDoes ==
  ASSUME NEW v \in Thresholds PROVE List(UpdateEdThreshold(v), {"ed"})
<1>1. List(<<Cmd("ed", v)>>, {"ed"})
  BY OneCommand, FieldsAre
<1> QED
  BY <1>1 DEF UpdateEdThreshold, When, List, Careful

LEMMA JoinDoes ==
  ASSUME NEW bs \in Addrs \cup Peers \cup {Zero}, NEW m \in Modes, NEW ch \in Channels
  PROVE  /\ List(Join(bs, m, ch), {"joined"})
         /\ bs # Zero =>
              Sets(Join(bs, m, ch), "joined", [bssid |-> bs, mode |-> m, channel |-> ch])
<1> DEFINE bss == [bssid |-> bs, mode |-> m, channel |-> ch]
<1>1. bss \in AcxValues["joined"] /\ "joined" \in Fields
  BY FieldsAre
<1> HIDE DEF bss
<1>2. List(<<Cmd("joined", bss)>>, {"joined"}) /\ Sets(<<Cmd("joined", bss)>>, "joined", bss)
  BY <1>1, OneCommand
<1>3. Join(bs, m, ch) = IF bs # Zero THEN <<Cmd("joined", bss)>> ELSE <<>>
  BY DEF Join, When, bss
<1>4. List(<<>>, {"joined"})
  BY DEF List, Careful
<1> QED
  BY <1>2, <1>3, <1>4 DEF bss

LEMMA SetBeaconDoes ==
  ASSUME NEW b \in 0..2
  PROVE  /\ List(SetBeacon(b), {"beacon", "tim", "probe"})
         /\ Sets(SetBeacon(b), "beacon", b) /\ Sets(SetBeacon(b), "probe", b)
         /\ card # "acx100" => Sets(SetBeacon(b), "tim", b)
<1> DEFINE one == <<Needed("beacon", b)>>
           two == When(card # "acx100", <<Cmd("tim", b)>>)
           three == <<Needed("probe", b)>>
<1>1. List(one, {"beacon"}) /\ Sets(one, "beacon", b)
  BY OneCommand, FieldsAre
<1>2. List(three, {"probe"}) /\ Sets(three, "probe", b)
  BY OneCommand, FieldsAre
<1>3. List(two, {"tim"}) /\ (card # "acx100" => Sets(two, "tim", b))
  <2>1. List(<<Cmd("tim", b)>>, {"tim"}) /\ Sets(<<Cmd("tim", b)>>, "tim", b)
    BY OneCommand, FieldsAre
  <2>2. List(<<>>, {"tim"})
    BY DEF List, Careful
  <2> QED
    BY <2>1, <2>2 DEF When
<1>4. SetBeacon(b) = (one \o two) \o three
  BY DEF SetBeacon
<1> HIDE DEF one, two, three
<1>5. /\ List(one \o two, {"beacon"} \cup {"tim"}) /\ Sets(one \o two, "beacon", b)
      /\ card # "acx100" => Sets(one \o two, "tim", b)
  <2>1. "beacon" \notin {"tim"}
    OBVIOUS
  <2> QED
    BY <1>1, <1>3, <2>1, Appended
<1> DEFINE four == one \o two
<1>6. List(four, {"beacon", "tim"})
  BY <1>5, ListMonotone
<1>7. /\ List(four, {"beacon", "tim"}) /\ Sets(four, "beacon", b)
      /\ card # "acx100" => Sets(four, "tim", b)
  BY <1>5, <1>6
<1> HIDE DEF four
<1>8. /\ List(four \o three, {"beacon", "tim"} \cup {"probe"})
      /\ Sets(four \o three, "probe", b) /\ Sets(four \o three, "beacon", b)
      /\ card # "acx100" => Sets(four \o three, "tim", b)
  <2>1. "beacon" \notin {"probe"} /\ "tim" \notin {"probe"}
    OBVIOUS
  <2> QED
    BY <1>2, <1>7, <2>1, Appended
<1>9. List(four \o three, {"beacon", "tim", "probe"})
  BY <1>8, ListMonotone
<1> QED
  BY <1>4, <1>8, <1>9 DEF four

LEMMA LevelInRange == Levels \in 1..5 /\ Levels \in Nat
  BY DEF Levels

\* acx_update_settings tells all that the driver keeps.
LEMMA UpdateSettingsDoes ==
  ASSUME TypeOK, NEW ed \in Thresholds
  PROVE  /\ List(UpdateSettings(ed), {"addr", "level", "ed", "tx", "rx", "domain", "noTxCrypt",
                                      "rxConfig"})
         /\ Sets(UpdateSettings(ed), "addr", dev_addr)
         /\ Sets(UpdateSettings(ed), "level", tx_level_val)
         /\ Sets(UpdateSettings(ed), "domain", SaneDomain(reg_dom_id))
         /\ card # "acx100" => Sets(UpdateSettings(ed), "noTxCrypt", ~hw_encrypt_enabled)
<1> DEFINE a == UpdateStationId
           b == <<Cmd("level", tx_level_val)>>
           c == UpdateEdThreshold(ed)
           d == UpdateTx(tx_enabled, channel)
           e == UpdateRx(rx_enabled, channel)
           f == UpdateRegDomain(reg_dom_id)
           g == UpdateHwEncryption(hw_encrypt_enabled)
           h == UpdateMode(mode, SaneChannel(channel, reg_dom_id))
<1>1. List(a, {"addr"}) /\ Sets(a, "addr", dev_addr)
  BY OneCommand, FieldsAre DEF UpdateStationId, TypeOK
<1>2. List(b, {"level"}) /\ Sets(b, "level", tx_level_val)
  <2>1. tx_level_val \in 1..5
    BY LevelInRange DEF TypeOK
  <2> QED
    BY <2>1, OneCommand, FieldsAre
<1>3. List(c, {"ed"}) /\ List(d, {"tx"}) /\ List(e, {"rx"})
  BY UpdateEdThresholdDoes, UpdateTxDoes, UpdateRxDoes DEF TypeOK
<1>4. List(f, {"domain"}) /\ Sets(f, "domain", SaneDomain(reg_dom_id))
  BY UpdateRegDomainDoes
<1>5. List(g, {"noTxCrypt"}) /\ (card # "acx100" => Sets(g, "noTxCrypt", ~hw_encrypt_enabled))
  BY UpdateHwEncryptionDoes DEF TypeOK
<1>6. List(h, {"tx", "rx", "rxConfig"})
  BY UpdateModeOnDoes, UpdateModeOffDoes, SaneInRange, ListMonotone DEF TypeOK
<1>7. UpdateSettings(ed) = ((((((a \o b) \o c) \o d) \o e) \o f) \o g) \o h
  BY DEF UpdateSettings
<1> HIDE DEF a, b, c, d, e, f, g, h
<1> DEFINE ab == a \o b
           abc == ab \o c
           abcd == abc \o d
           abcde == abcd \o e
           abcdef == abcde \o f
           abcdefg == abcdef \o g
<1>8. /\ List(ab, {"addr"} \cup {"level"}) /\ Sets(ab, "addr", dev_addr)
      /\ Sets(ab, "level", tx_level_val)
  <2>1. "addr" \notin {"level"}
    OBVIOUS
  <2> QED
    BY <1>1, <1>2, <2>1, Appended
<1> HIDE DEF ab
<1>9. /\ List(abc, ({"addr"} \cup {"level"}) \cup {"ed"}) /\ Sets(abc, "addr", dev_addr)
      /\ Sets(abc, "level", tx_level_val)
  <2>1. "addr" \notin {"ed"} /\ "level" \notin {"ed"}
    OBVIOUS
  <2> QED
    BY <1>3, <1>8, <2>1, Appended
<1> HIDE DEF abc
<1> DEFINE F3 == ({"addr"} \cup {"level"}) \cup {"ed"}
<1>10. /\ List(abcd, F3 \cup {"tx"}) /\ Sets(abcd, "addr", dev_addr)
       /\ Sets(abcd, "level", tx_level_val)
  <2>1. "addr" \notin {"tx"} /\ "level" \notin {"tx"}
    OBVIOUS
  <2> QED
    BY <1>3, <1>9, <2>1, Appended
<1> HIDE DEF abcd
<1> DEFINE F4 == F3 \cup {"tx"}
<1>11. /\ List(abcde, F4 \cup {"rx"}) /\ Sets(abcde, "addr", dev_addr)
       /\ Sets(abcde, "level", tx_level_val)
  <2>1. "addr" \notin {"rx"} /\ "level" \notin {"rx"}
    OBVIOUS
  <2> QED
    BY <1>3, <1>10, <2>1, Appended
<1> HIDE DEF abcde
<1> DEFINE F5 == F4 \cup {"rx"}
<1>12. /\ List(abcdef, F5 \cup {"domain"}) /\ Sets(abcdef, "addr", dev_addr)
       /\ Sets(abcdef, "level", tx_level_val) /\ Sets(abcdef, "domain", SaneDomain(reg_dom_id))
  <2>1. "addr" \notin {"domain"} /\ "level" \notin {"domain"}
    OBVIOUS
  <2> QED
    BY <1>4, <1>11, <2>1, Appended
<1> HIDE DEF abcdef
<1> DEFINE F6 == F5 \cup {"domain"}
<1>13. /\ List(abcdefg, F6 \cup {"noTxCrypt"}) /\ Sets(abcdefg, "addr", dev_addr)
       /\ Sets(abcdefg, "level", tx_level_val)
       /\ Sets(abcdefg, "domain", SaneDomain(reg_dom_id))
       /\ card # "acx100" => Sets(abcdefg, "noTxCrypt", ~hw_encrypt_enabled)
  <2>1. "addr" \notin {"noTxCrypt"} /\ "level" \notin {"noTxCrypt"} /\ "domain" \notin {"noTxCrypt"}
    OBVIOUS
  <2> QED
    BY <1>5, <1>12, <2>1, Appended
<1> HIDE DEF abcdefg
<1> DEFINE F7 == F6 \cup {"noTxCrypt"}
           all == abcdefg \o h
<1>14. /\ List(all, F7 \cup {"tx", "rx", "rxConfig"}) /\ Sets(all, "addr", dev_addr)
       /\ Sets(all, "level", tx_level_val)
       /\ Sets(all, "domain", SaneDomain(reg_dom_id))
       /\ card # "acx100" => Sets(all, "noTxCrypt", ~hw_encrypt_enabled)
  <2>1. \A x \in {"addr", "level", "domain", "noTxCrypt"} : x \notin {"tx", "rx", "rxConfig"}
    OBVIOUS
  <2> QED
    BY <1>6, <1>13, <2>1, Appended
<1>15. F7 \cup {"tx", "rx", "rxConfig"} \subseteq
         {"addr", "level", "ed", "tx", "rx", "domain", "noTxCrypt", "rxConfig"}
  OBVIOUS
<1>16. List(all, {"addr", "level", "ed", "tx", "rx", "domain", "noTxCrypt", "rxConfig"})
  <2> HIDE DEF all, F7
  <2> QED
    BY <1>14, <1>15, ListMonotone
<1> QED
  BY <1>7, <1>14, <1>16 DEF ab, abc, abcd, abcde, abcdef, abcdefg

-------------------------------------------------------------------------------
(* The calls *)

\* With nothing under way the settings are what they will be.
LEMMA IdleIs ==
  ASSUME NEW a, NEW f, NEW v
  PROVE  After(<<>>, a, f, v) <=> a[f] = v
  BY DEF After, Sets, Leaves

\* A list decides about the settings it is for, and leaves the others.
LEMMA ListDecides ==
  ASSUME NEW F, NEW q, List(q, F), NEW a
  PROVE  /\ q \in Seq(Commands) /\ Careful(q)
         /\ \A f, v : Sets(q, f, v) => After(q, a, f, v)
         /\ \A f, v : After(<<>>, a, f, v) /\ f \notin F => After(q, a, f, v)
<1>1. ASSUME NEW f, f \notin F PROVE Leaves(q, f)
  BY <1>1 DEF List, Leaves
<1> QED
  BY <1>1, IdleIs DEF List, After

\* What a careful list under way asks for.
LEMMA CarefulIsRxOff == ASSUME Careful(todo) PROVE RxOffBefore
  BY DEF Careful, RxOffBefore

\* The settings after a reset.
LEMMA ResetIsOK ==
  ASSUME ed_threshold \in Thresholds
  PROVE  /\ AcxReset = [f \in Fields |-> AcxReset[f]]
         /\ \A f \in Fields : AcxReset[f] \in AcxValues[f]
<1>1. AcxReset = [f \in Fields |-> AcxReset[f]]
  BY FieldsAre DEF AcxReset
<1>2. NoBss \in AcxValues["joined"]
  BY FieldsAre DEF NoBss
<1>3. /\ AcxReset["tx"] = 0 /\ AcxReset["rx"] = 0 /\ AcxReset["rxConfig"] = "off"
      /\ AcxReset["level"] = 1 /\ AcxReset["addr"] = OwnAddr /\ AcxReset["ed"] = ed_threshold
      /\ AcxReset["joined"] = NoBss /\ AcxReset["beacon"] = 0 /\ AcxReset["probe"] = 0
      /\ AcxReset["tim"] = 0 /\ AcxReset["domain"] = FCC /\ AcxReset["noTxCrypt"] = FALSE
      /\ AcxReset["keys"] = {}
  BY DEF AcxReset
<1>4. OwnAddr \in Addrs /\ FCC \in DOMAIN DomainMask
  BY SettingsAssumption
<1>5. /\ 0 \in Channels \cup {0} /\ "off" \in Modes \cup {"off"} /\ 1 \in 1..5 /\ 0 \in 0..2
      /\ {} \in SUBSET {"CCMP"}
  OBVIOUS
<1>6. AcxReset["noTxCrypt"] \in AcxValues["noTxCrypt"]
  BY <1>3, FieldsAre, Zenon
<1>7. ASSUME NEW f \in Fields, f # "noTxCrypt" PROVE AcxReset[f] \in AcxValues[f]
  <2> HIDE DEF NoBss
  <2>1. f \in {"tx", "rx", "rxConfig", "level"} => AcxReset[f] \in AcxValues[f]
    BY <1>3, <1>5, FieldsAre
  <2>3. f \in {"addr", "ed", "joined"} => AcxReset[f] \in AcxValues[f]
    <3>1. AcxReset["joined"] \in AcxValues["joined"]
      BY <1>2, <1>3, Zenon
    <3> QED
      BY <3>1, <1>3, <1>4, FieldsAre
  <2>2. f \in {"beacon", "probe", "tim", "domain", "keys"} => AcxReset[f] \in AcxValues[f]
    BY <1>3, <1>4, <1>5, FieldsAre
  <2> QED
    BY <1>7, <2>1, <2>2, <2>3, FieldsAre
<1> QED
  BY <1>1, <1>6, <1>7

LEMMA InitIInv == Init => SettingsIInv
<1> SUFFICES ASSUME Init PROVE SettingsIInv
  OBVIOUS
<1>1. AcxOK
  BY ResetIsOK DEF Init, AcxOK
<1>2. TypeOK
  <2>1. mac \in MacType
    BY SettingsAssumption DEF Init, MacType, TX_CFG_MAX_DBM_POWER
  <2>2. tx_level_val \in 1..Levels
    BY LevelInRange DEF Init
  <2>3. /\ bssid \in Addrs \cup Peers \cup {Zero} /\ dev_addr \in Addrs /\ channel \in Channels
        /\ mode \in Modes \cup {"off"} /\ reg_dom_id \in DOMAIN DomainMask
        /\ tx_level_dbm \in 0..TX_CFG_MAX_DBM_POWER
    BY SettingsAssumption DEF Init, Modes, TX_CFG_MAX_DBM_POWER
  <2>4. /\ hw_encrypt_enabled \in BOOLEAN /\ HW_UP \in BOOLEAN /\ tx_enabled \in BOOLEAN
        /\ rx_enabled \in BOOLEAN /\ clean \in BOOLEAN /\ moved \in BOOLEAN /\ mixed \in BOOLEAN
    BY Zenon DEF Init
  <2>5. /\ card \in Cards /\ vif \in Modes \cup {"none"} /\ ed_threshold \in Thresholds
        /\ todo \in Seq(Commands)
        /\ phase \in {"down", "started", "added", "configured", "keys", "up", "removed"}
    BY DEF Init
  <2> QED
    BY <1>1, <2>1, <2>2, <2>3, <2>4, <2>5 DEF TypeOK, AcxOK
<1>3. DriverAsTold
  BY SettingsAssumption DEF Init, DriverAsTold, Added, Configured, Told
<1>4. KeysAreHardware
  BY DEF Init, KeysAreHardware
<1>5. RxOffBefore
  BY DEF Init, RxOffBefore
<1> QED
  BY <1>2, <1>3, <1>4, <1>5 DEF Init, SettingsIInv, Told

\* A command that is carried out.
LEMMA IssueCmdOkIInv == ASSUME SettingsIInv, IssueCmdOk PROVE SettingsIInv'
<1>1. TypeOK /\ AcxOK /\ todo \in Seq(Commands) /\ DriverAsTold /\ KeysAreHardware
  BY DEF SettingsIInv, TypeOK, AcxOK
<1>2. /\ AcxOK' /\ todo' \in Seq(Commands)
      /\ \A f \in Fields : \A v : After(todo, acx, f, v) => After(todo', acx', f, v)
  BY <1>1, OkKeepsWillBe
<1>3. UNCHANGED <<card, driver, clean, history, mac, phase>>
  BY DEF IssueCmdOk
<1>4. TypeOK'
  BY <1>1, <1>2, <1>3 DEF TypeOK, AcxOK, driver, history, Levels
<1>5. DriverAsTold' /\ KeysAreHardware'
  BY <1>1, <1>3 DEF DriverAsTold, OnAir, KeysAreHardware, Added, Configured, Told, driver, history,
                    Levels, Level, Closest, Dpl
<1>6. clean' => RxOffBefore'
  BY <1>1, <1>3, OkIsCareful DEF SettingsIInv
<1>7. clean' /\ phase' # "down" => AcxWillBe'
  BY <1>2, <1>3, FieldsAre
     DEF SettingsIInv, AcxWillBe, WillBe, driver, history, Added, Configured, Told
<1>8. clean' /\ Told' => NetworkWillBe'
  BY <1>2, <1>3, FieldsAre
     DEF SettingsIInv, NetworkWillBe, WillBe, driver, history, Told, OnAir
<1> QED
  BY <1>4, <1>5, <1>6, <1>7, <1>8 DEF SettingsIInv

\* A command that fails ends what is promised until the next start.
LEMMA IssueCmdFailsIInv == ASSUME SettingsIInv, IssueCmdFails PROVE SettingsIInv'
<1>1. TypeOK /\ todo \in Seq(Commands) /\ DriverAsTold /\ KeysAreHardware
  BY DEF SettingsIInv, TypeOK
<1>2. /\ UNCHANGED <<card, driver, acx, history, mac, phase>> /\ clean' = FALSE
      /\ todo # <<>> /\ todo' = IF Head(todo).needed THEN <<>> ELSE Tail(todo)
  BY DEF IssueCmdFails, Idle
<1>3. todo' \in Seq(Commands)
  <2>1. Tail(todo) \in Seq(Commands) /\ <<>> \in Seq(Commands)
    BY <1>1, <1>2
  <2> QED
    BY <1>2, <2>1
<1>4. TypeOK'
  <2>1. clean' \in BOOLEAN
    BY <1>2, Zenon
  <2> QED
    BY <1>1, <1>2, <1>3, <2>1 DEF TypeOK, driver, history, Levels
<1>5. DriverAsTold' /\ KeysAreHardware'
  BY <1>1, <1>2 DEF DriverAsTold, OnAir, KeysAreHardware, Added, Configured, Told, driver, history,
                    Levels, Level, Closest, Dpl
<1> QED
  BY <1>2, <1>4, <1>5 DEF SettingsIInv

\* What the invariant says while nothing is under way.
LEMMA IdleMeans ==
  ASSUME SettingsIInv, Idle
  PROVE  /\ TypeOK /\ DriverAsTold /\ KeysAreHardware /\ todo = <<>>
         /\ clean => RxOffBefore
         /\ clean /\ phase # "down" => AcxWillBe
         /\ clean /\ Told => NetworkWillBe
  BY DEF SettingsIInv, Idle

LEMMA OpStopIInv == ASSUME SettingsIInv, OpStop PROVE SettingsIInv'
<1>1. /\ TypeOK /\ DriverAsTold /\ KeysAreHardware /\ todo = <<>> /\ phase = "removed"
      /\ HW_UP' = FALSE /\ channel' = 1 /\ phase' = "down"
      /\ UNCHANGED <<card, vif, mode, tx_enabled, rx_enabled, bssid, dev_addr, tx_level_val,
                     tx_level_dbm, ed_threshold, reg_dom_id, hw_encrypt_enabled, acx, todo, clean,
                     history, mac>>
  BY IdleMeans DEF OpStop
<1>2. TypeOK'
  <2>1. HW_UP' \in BOOLEAN
    BY <1>1, Zenon
  <2>2. channel' \in Channels
    BY <1>1, SettingsAssumption
  <2> QED
    BY <1>1, <2>1, <2>2 DEF TypeOK, history, Levels
<1>3. DriverAsTold' /\ KeysAreHardware'
  BY <1>1 DEF DriverAsTold, OnAir, KeysAreHardware, Added, Configured, Told, history
<1>4. RxOffBefore'
  BY <1>1 DEF RxOffBefore
<1> QED
  BY <1>1, <1>2, <1>3, <1>4 DEF SettingsIInv, Told

\* acx_remove_interface, and all that follows it.
LEMMA RemoveInterfaceDoes ==
  ASSUME SettingsIInv, Idle, RemoveInterface
  PROVE  /\ List(todo', {"tx", "rx"}) /\ RxOffBefore'
         /\ \A f, v : After(todo, acx, f, v) /\ f \notin {"tx", "rx"} => After(todo', acx', f, v)
<1>1. TypeOK /\ todo = <<>> /\ todo' = UpdateMode("off", channel) /\ acx' = acx
  BY IdleMeans DEF RemoveInterface
<1>2. List(todo', {"tx", "rx"})
  BY <1>1, UpdateModeOffDoes DEF TypeOK, Modes
<1>3. RxOffBefore'
  BY <1>2 DEF List, Careful, RxOffBefore
<1> QED
  BY <1>1, <1>2, <1>3, ListDecides

LEMMA OpRemoveInterfaceIInv == ASSUME SettingsIInv, OpRemoveInterface PROVE SettingsIInv'
<1>1. /\ TypeOK /\ DriverAsTold /\ KeysAreHardware
      /\ clean /\ phase # "down" => AcxWillBe
  BY DEF SettingsIInv
<1>2. /\ Idle /\ phase = "up" /\ (mac.type = "sta" => mac.bssid = Zero) /\ mac.keys = {}
      /\ vif' = "none" /\ mode' = "off" /\ tx_enabled' = FALSE /\ rx_enabled' = FALSE
      /\ phase' = "removed"
      /\ UNCHANGED <<card, bssid, dev_addr, tx_level_val, tx_level_dbm, ed_threshold, reg_dom_id,
                     hw_encrypt_enabled, acx, clean, history, HW_UP, channel, mac>>
  BY DEF OpRemoveInterface, RemoveInterface
<1>3. /\ List(todo', {"tx", "rx"}) /\ RxOffBefore'
      /\ \A f, v : After(todo, acx, f, v) /\ f \notin {"tx", "rx"} => After(todo', acx', f, v)
  BY <1>2, RemoveInterfaceDoes DEF OpRemoveInterface
<1>4. TypeOK'
  <2>1. tx_enabled' \in BOOLEAN /\ rx_enabled' \in BOOLEAN
    BY <1>2, Zenon
  <2>2. todo' \in Seq(Commands)
    BY <1>3 DEF List
  <2> QED
    BY <1>1, <1>2, <2>1, <2>2 DEF TypeOK, history, Levels
<1>5. DriverAsTold' /\ KeysAreHardware'
  BY <1>1, <1>2, SettingsAssumption
     DEF DriverAsTold, OnAir, KeysAreHardware, Added, Configured, Told, history, TypeOK
<1>6. clean' => AcxWillBe'
  <2>1. \A f \in {"domain", "level", "addr", "noTxCrypt", "keys"} : f \notin {"tx", "rx"}
    OBVIOUS
  <2> QED
    BY <1>1, <1>2, <1>3, <2>1 DEF AcxWillBe, WillBe, Added, Configured, Told, history
<1> QED
  BY <1>2, <1>3, <1>4, <1>5, <1>6 DEF SettingsIInv, Told

LEMMA RecoverIInv == ASSUME SettingsIInv, Recover PROVE SettingsIInv'
<1>1. TypeOK /\ DriverAsTold /\ KeysAreHardware
  BY DEF SettingsIInv
<1>2. /\ Idle /\ phase = "up" /\ vif' = "none" /\ mode' = "off"
      /\ tx_enabled' = FALSE /\ rx_enabled' = FALSE /\ HW_UP' = FALSE /\ channel' = 1
      /\ phase' = "down"
      /\ mac' = [mac EXCEPT !.restart = TRUE, !.keys = {}, !.again = mac.keys]
      /\ UNCHANGED <<card, bssid, dev_addr, tx_level_val, tx_level_dbm, ed_threshold, reg_dom_id,
                     hw_encrypt_enabled, acx, clean, history>>
  BY DEF Recover, RemoveInterface
<1>3. List(todo', {"tx", "rx"}) /\ RxOffBefore'
  BY <1>2, RemoveInterfaceDoes DEF Recover
<1>4. /\ mac' \in MacType /\ mac'.restart /\ mac'.keys = {} /\ mac'.type = mac.type
      /\ mac'.addr = mac.addr /\ mac'.bssid = mac.bssid /\ mac'.beacon = mac.beacon
  BY <1>1, <1>2 DEF TypeOK, MacType
<1>5. TypeOK'
  <2>1. tx_enabled' \in BOOLEAN /\ rx_enabled' \in BOOLEAN /\ HW_UP' \in BOOLEAN
    BY <1>2, Zenon
  <2>2. todo' \in Seq(Commands)
    BY <1>3 DEF List
  <2>3. channel' \in Channels
    BY <1>2, SettingsAssumption
  <2> QED
    BY <1>1, <1>2, <1>4, <2>1, <2>2, <2>3 DEF TypeOK, history, Levels
<1>6. DriverAsTold' /\ KeysAreHardware'
  BY <1>1, <1>2, <1>4 DEF DriverAsTold, OnAir, KeysAreHardware, Added, Configured, Told
<1> QED
  BY <1>2, <1>3, <1>5, <1>6 DEF SettingsIInv, Told

LEMMA WriteRegDomainIInv ==
  ASSUME SettingsIInv, NEW d \in Domains, WriteRegDomain(d) PROVE SettingsIInv'
<1>1. /\ TypeOK /\ DriverAsTold /\ KeysAreHardware /\ todo = <<>> /\ phase = "up" /\ clean
      /\ AcxWillBe /\ NetworkWillBe
  BY IdleMeans DEF WriteRegDomain, Told
<1>2. /\ reg_dom_id' = SaneDomain(d) /\ channel' = SaneChannel(channel, d)
      /\ moved' = (moved \/ channel' # channel) /\ todo' = UpdateRegDomain(d)
      /\ UNCHANGED <<card, HW_UP, vif, mode, tx_enabled, rx_enabled, bssid, dev_addr,
                     tx_level_val, tx_level_dbm, ed_threshold, hw_encrypt_enabled, acx, clean,
                     mixed, mac, phase>>
  BY DEF WriteRegDomain
<1>3. List(todo', {"domain"}) /\ Sets(todo', "domain", reg_dom_id')
  BY <1>2, UpdateRegDomainDoes
<1>4. /\ todo' \in Seq(Commands) /\ Careful(todo') /\ After(todo', acx', "domain", reg_dom_id')
      /\ \A f, v : After(todo, acx, f, v) /\ f # "domain" => After(todo', acx', f, v)
  BY <1>1, <1>2, <1>3, ListDecides
<1>5. TypeOK'
  <2>1. moved' \in BOOLEAN
    BY <1>2, Zenon
  <2>2. channel' \in Channels /\ reg_dom_id' \in DOMAIN DomainMask
    BY <1>2, SaneInRange
  <2> QED
    BY <1>1, <1>2, <1>4, <2>1, <2>2 DEF TypeOK, Levels
<1>6. DriverAsTold' /\ KeysAreHardware'
  BY <1>1, <1>2 DEF DriverAsTold, OnAir, KeysAreHardware, Added, Configured, Told, Levels, Level, Closest,
                    Dpl
<1>7. RxOffBefore'
  <2>1. Careful(todo')
    BY <1>4
  <2> QED
    BY <2>1 DEF Careful, RxOffBefore
<1>8. AcxWillBe'
  BY <1>1, <1>2, <1>4 DEF AcxWillBe, WillBe, Added, Configured, Told
<1>9. NetworkWillBe'
  BY <1>1, <1>2, <1>4 DEF NetworkWillBe, WillBe, OnAir
<1> QED
  BY <1>5, <1>6, <1>7, <1>8, <1>9 DEF SettingsIInv

LEMMA RecalibIInv == ASSUME SettingsIInv, Recalib PROVE SettingsIInv'
<1>1. /\ TypeOK /\ DriverAsTold /\ KeysAreHardware /\ todo = <<>> /\ clean
      /\ phase # "down" => AcxWillBe
      /\ Told => NetworkWillBe
  BY IdleMeans DEF Recalib
<1>2. /\ todo' = <<Needed("tx", channel), Needed("rx", channel)>>
      /\ UNCHANGED <<card, driver, acx, clean, history, mac, phase>>
  BY DEF Recalib
<1> DEFINE a == <<Needed("tx", channel)>>
           b == <<Needed("rx", channel)>>
<1>3. List(a, {"tx"}) /\ Sets(a, "tx", channel) /\ List(b, {"rx"}) /\ Sets(b, "rx", channel)
  BY <1>1, OneCommand, FieldsAre DEF TypeOK
<1>4. todo' = a \o b
  BY <1>2
<1> HIDE DEF a, b
<1>5. /\ List(todo', {"tx"} \cup {"rx"}) /\ Sets(todo', "tx", channel)
      /\ Sets(todo', "rx", channel)
  <2>1. "tx" \notin {"rx"}
    OBVIOUS
  <2> QED
    BY <1>3, <1>4, <2>1, Appended
<1>6. /\ todo' \in Seq(Commands) /\ Careful(todo')
      /\ After(todo', acx', "tx", channel) /\ After(todo', acx', "rx", channel)
      /\ \A f, v : After(todo, acx, f, v) /\ f \notin {"tx"} \cup {"rx"} => After(todo', acx', f, v)
  BY <1>1, <1>2, <1>5, ListDecides
<1>7. TypeOK'
  BY <1>1, <1>2, <1>6 DEF TypeOK, driver, history, Levels
<1>8. DriverAsTold' /\ KeysAreHardware'
  BY <1>1, <1>2 DEF DriverAsTold, OnAir, KeysAreHardware, Added, Configured, Told, driver, history,
                    Levels, Level, Closest, Dpl
<1>9. RxOffBefore'
  <2>1. Careful(todo')
    BY <1>6
  <2> QED
    BY <2>1 DEF Careful, RxOffBefore
<1>10. phase' # "down" => AcxWillBe'
  BY <1>1, <1>2, <1>6 DEF DriverAsTold, OnAir, AcxWillBe, WillBe, driver, history, Added, Configured, Told
<1>11. Told' => NetworkWillBe'
  BY <1>1, <1>2, <1>6 DEF NetworkWillBe, WillBe, OnAir, driver, history, Told
<1> QED
  BY <1>7, <1>8, <1>9, <1>10, <1>11 DEF SettingsIInv

\* acx_op_start: what a reset takes away is told again.
LEMMA OpStartIInv == ASSUME SettingsIInv, OpStart PROVE SettingsIInv'
<1>1. TypeOK /\ DriverAsTold /\ KeysAreHardware
  BY DEF SettingsIInv
<1>2. PICK v \in Thresholds : todo' = UpdateSettings(v)
  BY DEF OpStart
<1>3. /\ phase = "down" /\ phase' = "started" /\ HW_UP' = TRUE /\ clean' = TRUE
      /\ moved' = FALSE /\ mixed' = FALSE
      /\ acx' = IF card = "vlynq" THEN acx ELSE AcxReset
      /\ channel' = SaneChannel(channel, reg_dom_id) /\ reg_dom_id' = SaneDomain(reg_dom_id)
      /\ UNCHANGED <<card, vif, mode, bssid, dev_addr, tx_level_val, tx_level_dbm,
                     ed_threshold, hw_encrypt_enabled, mac>>
  BY DEF OpStart
<1> DEFINE F == {"addr", "level", "ed", "tx", "rx", "domain", "noTxCrypt", "rxConfig"}
<1>4. /\ List(todo', F) /\ Sets(todo', "addr", dev_addr) /\ Sets(todo', "level", tx_level_val)
      /\ Sets(todo', "domain", SaneDomain(reg_dom_id))
      /\ card # "acx100" => Sets(todo', "noTxCrypt", ~hw_encrypt_enabled)
  BY <1>1, <1>2, UpdateSettingsDoes
<1>5. "keys" \notin F
  OBVIOUS
<1> HIDE DEF F
<1>6. /\ todo' \in Seq(Commands) /\ Careful(todo')
      /\ \A f, v_1 : Sets(todo', f, v_1) => After(todo', acx', f, v_1)
      /\ \A f, v_1 : acx'[f] = v_1 /\ f \notin F => After(todo', acx', f, v_1)
  BY <1>4, ListDecides, IdleIs
<1>7. AcxOK'
  BY <1>1, <1>3, ResetIsOK DEF AcxOK, TypeOK
<1>8. TypeOK'
  <2>1. /\ HW_UP' \in BOOLEAN /\ clean' \in BOOLEAN /\ moved' \in BOOLEAN /\ mixed' \in BOOLEAN
    BY <1>3, Zenon
  <2>2. tx_enabled' \in BOOLEAN /\ rx_enabled' \in BOOLEAN
    BY Zenon DEF OpStart
  <2>3. channel' \in Channels /\ reg_dom_id' \in DOMAIN DomainMask
    BY <1>3, SaneInRange
  <2> QED
    BY <1>1, <1>3, <1>6, <1>7, <2>1, <2>2, <2>3 DEF TypeOK, AcxOK, Levels
<1>9. DriverAsTold' /\ KeysAreHardware'
  <2>1. DriverAsTold'
    BY <1>1, <1>3 DEF DriverAsTold, OnAir, Added, Configured, Told
  <2>2. mac'.keys = {}
    BY <1>1, <1>3 DEF KeysAreHardware, Told
  <2>3. hw_encrypt_enabled' => card' # "acx100"
    BY <1>1, <1>3 DEF KeysAreHardware
  <2>4. mac'.keys \subseteq {"CCMP"} /\ ~(mac'.keys # {})
    BY <2>2
  <2>5. KeysAreHardware'
    BY <2>2, <2>3, <2>4, Zenon DEF KeysAreHardware
  <2> QED
    BY <2>1, <2>5
<1>10. RxOffBefore'
  <2>1. Careful(todo')
    BY <1>6
  <2> QED
    BY <2>1 DEF Careful, RxOffBefore
<1>11. ASSUME hw_encrypt_enabled
       PROVE  \E K \in SUBSET {"CCMP"} : /\ After(todo', acx', "keys", K)
                                         /\ {} \subseteq K /\ (card # "vlynq" => K = {})
  <2>1. "keys" \in Fields /\ acx'["keys"] \in SUBSET {"CCMP"}
    BY <1>7, FieldsAre DEF AcxOK
  <2>2. card # "vlynq" => acx'["keys"] = {}
    BY <1>3 DEF AcxReset
  <2>3. After(todo', acx', "keys", acx'["keys"])
    BY <1>5, <1>6
  <2> QED
    BY <2>1, <2>2, <2>3
<1>12. AcxWillBe'
  <2>1. mac.keys = {}
    BY <1>1, <1>3 DEF KeysAreHardware, Told
  <2> QED
    BY <1>3, <1>4, <1>6, <1>11, <2>1 DEF AcxWillBe, WillBe, Added, Configured, Told
<1> QED
  BY <1>3, <1>8, <1>9, <1>10, <1>12 DEF SettingsIInv, Told

\* The list of acx_op_add_interface.
LEMMA AddInterfaceDoes ==
  ASSUME SettingsIInv, Idle, NEW type \in Modes, NEW addr \in Addrs, AddInterface(type, addr)
  PROVE  /\ todo' \in Seq(Commands) /\ Careful(todo')
         /\ After(todo', acx', "rxConfig", type)
         /\ phase # "down" /\ clean => After(todo', acx', "addr", addr)
         /\ \A f, v : After(todo, acx, f, v) /\ f \in {"domain", "level", "noTxCrypt", "keys"}
                     => After(todo', acx', f, v)
<1>1. TypeOK /\ todo = <<>> /\ (clean /\ phase # "down" => AcxWillBe)
  BY IdleMeans
<1> DEFINE a == When(addr # dev_addr, <<Cmd("addr", addr)>>)
           b == UpdateMode(type, channel)
           c == Join(BssidFor(addr), type, channel)
           F == {"tx", "rx", "rxConfig"}
<1>2. List(b, F) /\ Sets(b, "rxConfig", type)
  BY <1>1, UpdateModeOnDoes DEF TypeOK
<1>3. List(c, {"joined"})
  <2>1. BssidFor(addr) \in Addrs \cup Peers \cup {Zero}
    BY <1>1 DEF BssidFor, TypeOK
  <2> QED
    BY <1>1, <2>1, JoinDoes DEF TypeOK
<1>4. todo' = (a \o b) \o c /\ acx' = acx
  BY DEF AddInterface
<1>5. addr # dev_addr => List(a, {"addr"}) /\ Sets(a, "addr", addr)
  BY OneCommand, FieldsAre DEF When
<1>6. addr = dev_addr => List(a, {})
  BY NoCommands DEF When
<1> HIDE DEF a, b, c, F
<1>7. ASSUME NEW G, List(a, G)
      PROVE  /\ List(todo', (G \cup F) \cup {"joined"})
             /\ Sets(todo', "rxConfig", type)
             /\ "addr" \notin F /\ Sets(a, "addr", addr) => Sets(todo', "addr", addr)
  <2>1. /\ List(a \o b, G \cup F) /\ Sets(a \o b, "rxConfig", type)
        /\ "addr" \notin F /\ Sets(a, "addr", addr) => Sets(a \o b, "addr", addr)
    BY <1>2, <1>7, Appended
  <2>2. "rxConfig" \notin {"joined"} /\ "addr" \notin {"joined"}
    OBVIOUS
  <2> QED
    BY <1>3, <1>4, <2>1, <2>2, Appended
<1>8. "addr" \notin F /\ \A f \in {"domain", "level", "noTxCrypt", "keys"} : f \notin F
  BY DEF F
<1>9. CASE addr # dev_addr
  <2>1. /\ List(todo', ({"addr"} \cup F) \cup {"joined"}) /\ Sets(todo', "rxConfig", type)
        /\ Sets(todo', "addr", addr)
    BY <1>5, <1>7, <1>8, <1>9
  <2>2. /\ todo' \in Seq(Commands) /\ Careful(todo')
        /\ After(todo', acx', "rxConfig", type) /\ After(todo', acx', "addr", addr)
        /\ \A f, v : After(<<>>, acx', f, v) /\ f \notin ({"addr"} \cup F) \cup {"joined"}
                    => After(todo', acx', f, v)
    BY <2>1, ListDecides
  <2>3. \A f \in {"domain", "level", "noTxCrypt", "keys"} : f \notin ({"addr"} \cup F) \cup {"joined"}
    BY <1>8
  <2> QED
    BY <1>1, <1>4, <2>2, <2>3
<1>10. CASE addr = dev_addr
  <2>1. List(todo', ({} \cup F) \cup {"joined"}) /\ Sets(todo', "rxConfig", type)
    BY <1>6, <1>7, <1>10
  <2>2. /\ todo' \in Seq(Commands) /\ Careful(todo')
        /\ After(todo', acx', "rxConfig", type)
        /\ \A f, v : After(<<>>, acx', f, v) /\ f \notin ({} \cup F) \cup {"joined"}
                    => After(todo', acx', f, v)
    BY <2>1, ListDecides
  <2>3. \A f \in {"domain", "level", "noTxCrypt", "keys", "addr"} : f \notin ({} \cup F) \cup {"joined"}
    BY <1>8
  <2>4. phase # "down" /\ clean => After(todo, acx, "addr", addr)
    BY <1>1, <1>10 DEF AcxWillBe, WillBe
  <2> QED
    BY <1>1, <1>4, <2>2, <2>3, <2>4
<1> QED
  BY <1>9, <1>10

LEMMA OpAddInterfaceIInv == ASSUME SettingsIInv, OpAddInterface PROVE SettingsIInv'
<1>1. /\ TypeOK /\ DriverAsTold /\ KeysAreHardware /\ Idle /\ todo = <<>> /\ phase = "started"
      /\ clean => AcxWillBe
  BY IdleMeans DEF OpAddInterface
<1>2. PICK type \in Modes, addr \in Addrs :
        /\ AddInterface(type, addr)
        /\ \/ mac.restart /\ type = mac.type /\ addr = mac.addr /\ mac' = mac
           \/ ~mac.restart /\ mac' = [mac EXCEPT !.type = type, !.addr = addr,
                                        !.bssid = IF type = "ap" THEN addr ELSE Zero, !.beacon = 0]
  <2>1. mac.restart => mac.type \in Modes /\ mac.addr \in Addrs
    BY <1>1 DEF DriverAsTold, TypeOK, MacType
  <2> QED
    BY <2>1 DEF OpAddInterface
<1>3. /\ mac' \in MacType /\ mac'.type = type /\ mac'.addr = addr /\ mac'.keys = mac.keys
      /\ mac'.restart = mac.restart
      /\ mac.restart => mac' = mac
      /\ ~mac.restart => mac'.beacon = 0 /\ mac'.bssid = IF type = "ap" THEN addr ELSE Zero
  <2>1. mac \in MacType
    BY <1>1 DEF TypeOK
  <2>2. CASE mac.restart /\ type = mac.type /\ addr = mac.addr /\ mac' = mac
    BY <2>1, <2>2
  <2>3. CASE /\ ~mac.restart
             /\ mac' = [mac EXCEPT !.type = type, !.addr = addr,
                                   !.bssid = IF type = "ap" THEN addr ELSE Zero, !.beacon = 0]
    <3>1. (IF type = "ap" THEN addr ELSE Zero) \in Addrs \cup Peers \cup {Zero}
      OBVIOUS
    <3>2. 0 \in 0..2 /\ type \in Modes \cup {"none"}
      OBVIOUS
    <3>3. /\ mac'.type = type /\ mac'.addr = addr /\ mac'.beacon = 0
          /\ mac'.bssid = IF type = "ap" THEN addr ELSE Zero
          /\ mac'.channel = mac.channel /\ mac'.power = mac.power /\ mac'.keys = mac.keys
          /\ mac'.again = mac.again /\ mac'.restart = mac.restart
      BY <2>1, <2>3 DEF MacType
    <3>4. mac' \in MacType
      BY <2>1, <2>3, <3>1, <3>2 DEF MacType
    <3> QED
      BY <2>3, <3>3, <3>4
  <2> QED
    BY <1>2, <2>2, <2>3
<1>4. /\ vif' = type /\ mode' = type /\ bssid' = BssidFor(addr) /\ dev_addr' = addr
      /\ rx_enabled' = TRUE /\ tx_enabled' = TRUE /\ phase' = "added"
      /\ UNCHANGED <<card, HW_UP, channel, tx_level_val, tx_level_dbm, ed_threshold, reg_dom_id,
                     hw_encrypt_enabled, acx, clean, history>>
  BY <1>2 DEF AddInterface
<1>5. /\ todo' \in Seq(Commands) /\ Careful(todo')
      /\ After(todo', acx', "rxConfig", type)
      /\ clean => After(todo', acx', "addr", addr)
      /\ \A f, v : After(todo, acx, f, v) /\ f \in {"domain", "level", "noTxCrypt", "keys"}
                  => After(todo', acx', f, v)
  BY <1>1, <1>2, AddInterfaceDoes
<1>6. TypeOK'
  <2>1. rx_enabled' \in BOOLEAN /\ tx_enabled' \in BOOLEAN
    BY <1>4, Zenon
  <2>2. bssid' \in Addrs \cup Peers \cup {Zero}
    BY <1>1, <1>4 DEF BssidFor, TypeOK
  <2> QED
    BY <1>1, <1>3, <1>4, <1>5, <2>1, <2>2 DEF TypeOK, history, Levels
<1>7. bssid' \in Peers => mac'.type = "sta" /\ bssid' = mac'.bssid
  BY <1>1, <1>2, <1>3, <1>4, SettingsAssumption DEF DriverAsTold, BssidFor
<1>8. DriverAsTold'
  <2>1. CASE mac.restart
    BY <1>1, <1>3, <1>4, <1>7, <2>1 DEF DriverAsTold, OnAir, Added, Configured, Told
  <2>2. CASE ~mac.restart
    BY <1>1, <1>3, <1>4, <1>7, <2>2 DEF DriverAsTold, OnAir, Added, Configured, Told, Modes
  <2> QED
    BY <2>1, <2>2
<1>9. KeysAreHardware'
  <2>1. mac'.keys = {}
    BY <1>1, <1>3 DEF KeysAreHardware, Told
  <2>2. hw_encrypt_enabled' => card' # "acx100"
    BY <1>1, <1>4 DEF KeysAreHardware
  <2>3. mac'.keys \subseteq {"CCMP"} /\ ~(mac'.keys # {})
    BY <2>1
  <2> QED
    BY <2>1, <2>2, <2>3, Zenon DEF KeysAreHardware
<1>10. RxOffBefore'
  <2>1. Careful(todo')
    BY <1>5
  <2> QED
    BY <2>1 DEF Careful, RxOffBefore
<1>11. clean' => AcxWillBe'
  BY <1>1, <1>3, <1>4, <1>5 DEF AcxWillBe, WillBe, Added, Configured, Told, history
<1> QED
  BY <1>4, <1>6, <1>8, <1>9, <1>10, <1>11 DEF SettingsIInv, Told

\* The level of a power is one that there is, and none is closer.
LEMMA LevelDoes ==
  ASSUME card \in Cards, NEW p \in 0..TX_CFG_MAX_DBM_POWER
  PROVE  /\ Level(p) \in 1..Levels /\ Level(p) * Dpl \in 0..TX_CFG_MAX_DBM_POWER
         /\ \A l \in 1..Levels :
              IF Level(p) * Dpl >= p
              THEN Level(p) * Dpl - p <= (IF l * Dpl >= p THEN l * Dpl - p ELSE p - l * Dpl)
              ELSE p - Level(p) * Dpl <= (IF l * Dpl >= p THEN l * Dpl - p ELSE p - l * Dpl)
<1>1. CASE card = "acx100"
  <2>1. Levels = 2 /\ Dpl = 10
    BY <1>1 DEF Levels, Dpl, TX_CFG_MAX_DBM_POWER
  <2> DEFINE q == p \div 10
             r == p % 10
  <2>2. q \in 0..2 /\ r \in 0..9 /\ p = 10 * q + r /\ p \in 0..20
    BY DEF TX_CFG_MAX_DBM_POWER
  <2>3. Closest(p) = q + (IF r > 10 - r THEN 1 ELSE 0)
    BY <2>1 DEF Closest
  <2> HIDE DEF q, r
  <2>4. Closest(p) \in 0..3 /\ Level(p) = IF Closest(p) < 1 THEN 1 ELSE IF Closest(p) > 2 THEN 2 ELSE Closest(p)
    BY <2>1, <2>2, <2>3 DEF Level
  <2> QED
    BY <2>1, <2>2, <2>3, <2>4 DEF TX_CFG_MAX_DBM_POWER
<1>2. CASE card # "acx100"
  <2>1. Levels = 5 /\ Dpl = 4
    BY <1>2 DEF Levels, Dpl, TX_CFG_MAX_DBM_POWER
  <2> DEFINE q == p \div 4
             r == p % 4
  <2>2. q \in 0..5 /\ r \in 0..3 /\ p = 4 * q + r /\ p \in 0..20
    BY DEF TX_CFG_MAX_DBM_POWER
  <2>3. Closest(p) = q + (IF r > 4 - r THEN 1 ELSE 0)
    BY <2>1 DEF Closest
  <2> HIDE DEF q, r
  <2>4. Closest(p) \in 0..6 /\ Level(p) = IF Closest(p) < 1 THEN 1 ELSE IF Closest(p) > 5 THEN 5 ELSE Closest(p)
    BY <2>1, <2>2, <2>3 DEF Level
  <2> QED
    BY <2>1, <2>2, <2>3, <2>4 DEF TX_CFG_MAX_DBM_POWER
<1> QED
  BY <1>1, <1>2

\* The list of acx_op_config sets what has changed, and nothing else.
LEMMA ConfigDoes ==
  ASSUME SettingsIInv, Idle, NEW ch \in Channels, NEW p \in 0..TX_CFG_MAX_DBM_POWER,
         NEW changed, Config(ch, p, changed)
  PROVE  /\ todo' \in Seq(Commands) /\ Careful(todo')
         /\ "power" \in changed => After(todo', acx', "level", tx_level_val')
         /\ "power" \notin changed =>
              \A v : After(todo, acx, "level", v) => After(todo', acx', "level", v)
         /\ "channel" \in changed =>
              After(todo', acx', "tx", ch) /\ After(todo', acx', "rx", ch)
         /\ "channel" \notin changed =>
              \A f \in {"tx", "rx"} : \A v : After(todo, acx, f, v) => After(todo', acx', f, v)
         /\ \A f, v : After(todo, acx, f, v) /\ f \notin {"level", "tx", "rx"}
                     => After(todo', acx', f, v)
<1> DEFINE l == Levels - Level(p) + 1
           one == <<Cmd("level", l)>>
           a == When("power" \in changed, one)
           b == When("channel" \in changed, SetChannel(ch))
           F == IF "power" \in changed THEN {"level"} ELSE {}
           G == IF "channel" \in changed THEN {"tx", "rx"} ELSE {}
<1>1. /\ todo = <<>> /\ todo' = a \o b /\ acx' = acx
      /\ "power" \in changed => tx_level_val' = l
  BY IdleMeans DEF Config
<1>2. l \in 1..5
  <2>1. Level(p) \in 1..Levels
    BY LevelDoes DEF SettingsIInv, TypeOK
  <2> QED
    BY <2>1, LevelInRange
<1> HIDE DEF l
<1>3. List(a, F) /\ ("power" \in changed => Sets(a, "level", l))
  <2>1. List(one, {"level"}) /\ Sets(one, "level", l)
    BY <1>2, OneCommand, FieldsAre
  <2> HIDE DEF one
  <2> QED
    BY <2>1, NoCommands DEF When
<1>4. List(b, G) /\ ("channel" \in changed => Sets(b, "tx", ch) /\ Sets(b, "rx", ch))
  BY SetChannelDoes, NoCommands DEF When
<1>5. "level" \notin G /\ F \cup G \subseteq {"level", "tx", "rx"}
  OBVIOUS
<1>6. /\ "power" \notin changed => "level" \notin F \cup G
      /\ "channel" \notin changed => "tx" \notin F \cup G /\ "rx" \notin F \cup G
  OBVIOUS
<1> HIDE DEF a, b, F, G
<1>7. /\ List(todo', F \cup G)
      /\ "power" \in changed => Sets(todo', "level", l)
      /\ "channel" \in changed => Sets(todo', "tx", ch) /\ Sets(todo', "rx", ch)
  BY <1>1, <1>3, <1>4, <1>5, Appended
<1>8. \A f, v : /\ Sets(todo', f, v) => After(todo', acx', f, v)
                /\ After(todo, acx, f, v) /\ f \notin F \cup G => After(todo', acx', f, v)
  BY <1>1, <1>7, ListDecides
<1>9. todo' \in Seq(Commands) /\ Careful(todo')
  BY <1>7 DEF List
<1> QED
  BY <1>1, <1>5, <1>6, <1>7, <1>8, <1>9

LEMMA OpConfigIInv == ASSUME SettingsIInv, OpConfig PROVE SettingsIInv'
<1>1. /\ TypeOK /\ DriverAsTold /\ KeysAreHardware /\ todo = <<>> /\ phase \in {"added", "up"}
      /\ clean => AcxWillBe
      /\ clean /\ Told => NetworkWillBe
  BY IdleMeans DEF OpConfig
<1>2. PICK ch \in Channels, p \in 0..TX_CFG_MAX_DBM_POWER, changed \in SUBSET Conf :
        /\ Config(ch, p, changed) /\ (OnAir => ch = mac.channel)
        /\ phase' = IF mac.restart THEN "configured" ELSE "up"
        /\ "channel" \notin changed => phase = "up" /\ ch = mac.channel
        /\ "power" \notin changed => phase = "up" /\ p = mac.power
  <2>1. mac.channel \in Channels /\ mac.power \in 0..TX_CFG_MAX_DBM_POWER
    BY <1>1 DEF TypeOK, MacType
  <2>2. \A r \in Requests : r[1] \in Channels /\ r[2] \in 0..TX_CFG_MAX_DBM_POWER
    BY SettingsAssumption
  <2>3. CASE mac.restart
    BY <2>1, <2>3 DEF OpConfig, Conf
  <2>4. CASE ~mac.restart
    <3>1. PICK r \in Requests :
            /\ OnAir => r[1] = mac.channel
            /\ Config(r[1], r[2], IF phase = "added" THEN Conf ELSE Differs(r))
            /\ phase' = "up"
      BY <2>4 DEF OpConfig
    <3>2. CASE phase = "added"
      BY <2>2, <2>4, <3>1, <3>2 DEF Conf
    <3>3. CASE phase # "added"
      <4>1. Config(r[1], r[2], Differs(r)) /\ phase = "up" /\ Differs(r) \in SUBSET Conf
        BY <1>1, <3>1, <3>3 DEF Differs
      <4>2. /\ "channel" \notin Differs(r) => r[1] = mac.channel
            /\ "power" \notin Differs(r) => r[2] = mac.power
        BY DEF Differs, Conf
      <4> QED
        BY <2>2, <2>4, <3>1, <4>1, <4>2
    <3> QED
      BY <3>2, <3>3
  <2> QED
    BY <2>3, <2>4
<1>3. /\ IF "power" \in changed
         THEN tx_level_val' = Levels - Level(p) + 1 /\ tx_level_dbm' = Level(p) * Dpl
         ELSE tx_level_val' = tx_level_val /\ tx_level_dbm' = tx_level_dbm
      /\ IF "channel" \in changed
         THEN channel' = ch /\ tx_enabled' = TRUE /\ rx_enabled' = TRUE
         ELSE channel' = channel /\ tx_enabled' = tx_enabled /\ rx_enabled' = rx_enabled
      /\ mac' = [mac EXCEPT !.channel = ch, !.power = p]
      /\ UNCHANGED <<card, HW_UP, vif, mode, bssid, dev_addr, ed_threshold, reg_dom_id,
                     hw_encrypt_enabled, acx, clean, history>>
  BY <1>2 DEF Config
<1>4. /\ mac' \in MacType /\ mac'.channel = ch /\ mac'.power = p
      /\ mac'.type = mac.type /\ mac'.addr = mac.addr /\ mac'.bssid = mac.bssid
      /\ mac'.beacon = mac.beacon /\ mac'.keys = mac.keys /\ mac'.again = mac.again
      /\ mac'.restart = mac.restart
  BY <1>1, <1>3 DEF TypeOK, MacType
<1>5. /\ todo' \in Seq(Commands) /\ Careful(todo')
      /\ "power" \in changed => After(todo', acx', "level", tx_level_val')
      /\ "power" \notin changed =>
           \A v : After(todo, acx, "level", v) => After(todo', acx', "level", v)
      /\ "channel" \in changed => After(todo', acx', "tx", ch) /\ After(todo', acx', "rx", ch)
      /\ "channel" \notin changed =>
           \A f \in {"tx", "rx"} : \A v : After(todo, acx, f, v) => After(todo', acx', f, v)
      /\ \A f, v : After(todo, acx, f, v) /\ f \notin {"level", "tx", "rx"}
                  => After(todo', acx', f, v)
  BY <1>2, ConfigDoes DEF OpConfig
<1>6. TypeOK'
  <2>1. tx_enabled' \in BOOLEAN /\ rx_enabled' \in BOOLEAN
    BY <1>1, <1>3, Zenon DEF TypeOK
  <2>2. /\ tx_level_val' \in 1..Levels /\ tx_level_dbm' \in 0..TX_CFG_MAX_DBM_POWER
        /\ Levels' = Levels
    <3>1. Level(p) \in 1..Levels /\ Level(p) * Dpl \in 0..TX_CFG_MAX_DBM_POWER
      BY <1>1, LevelDoes DEF TypeOK
    <3>2. Levels' = Levels
      BY <1>3 DEF Levels
    <3> QED
      BY <1>1, <1>3, <3>1, <3>2, LevelInRange DEF TypeOK
  <2>3. phase' \in {"configured", "up"} /\ channel' \in Channels
    BY <1>1, <1>2, <1>3 DEF TypeOK
  <2> QED
    BY <1>1, <1>3, <1>4, <1>5, <2>1, <2>2, <2>3 DEF TypeOK, history
<1>7. ~mac.restart <=> phase' = "up"
  BY <1>2
<1>8. phase = "up" => ~mac.restart
  BY <1>1 DEF DriverAsTold, Told
<1>9. DriverAsTold'
  <2>1. tx_level_val' = Levels' - Level(mac.power)' + 1
    <3>1. tx_level_val' = Levels - Level(p) + 1
      BY <1>1, <1>2, <1>3 DEF DriverAsTold, Configured, Told
    <3> QED
      BY <1>3, <1>4, <3>1 DEF Levels, Level, Closest, Dpl
  <2>2. phase' \in {"configured", "up"} /\ (phase' = "configured" => mac'.restart)
    BY <1>2, <1>4
  <2>3. /\ vif = mac.type /\ mode = mac.type /\ mac.type \in Modes /\ dev_addr = mac.addr
        /\ IF mac.type = "ap" THEN mac.bssid = mac.addr
           ELSE mac.bssid \in Peers \cup {Zero} /\ mac.beacon = 0
        /\ bssid \in Peers => mac.type = "sta" /\ bssid = mac.bssid
    BY <1>1 DEF DriverAsTold, Added, Configured, Told
  <2>4. ~moved => channel' = ch
    BY <1>1, <1>2, <1>3 DEF DriverAsTold, Configured, Told
  <2> QED
    BY <1>3, <1>4, <1>7, <2>1, <2>2, <2>3, <2>4
    DEF DriverAsTold, Added, Configured, Told, history
<1>10. KeysAreHardware'
  <2>1. phase' = "configured" => mac'.keys = {}
    BY <1>1, <1>4, <1>7, <1>8 DEF KeysAreHardware, Told
  <2>2. hw_encrypt_enabled' => card' # "acx100" /\ mac'.keys \subseteq {"CCMP"}
    BY <1>1, <1>3, <1>4 DEF KeysAreHardware
  <2>3. mac'.keys # {} /\ ~mixed' => hw_encrypt_enabled'
    BY <1>1, <1>3, <1>4 DEF KeysAreHardware, history
  <2>4. phase' \in {"configured", "up"}
    BY <1>2
  <2> QED
    BY <2>1, <2>2, <2>3, <2>4, Zenon DEF KeysAreHardware, Told
<1>11. RxOffBefore'
  <2>1. Careful(todo')
    BY <1>5
  <2> QED
    BY <2>1 DEF Careful, RxOffBefore
<1>12. clean' => AcxWillBe'
  <2>1. \A f \in {"domain", "addr", "noTxCrypt", "keys", "rxConfig"} : f \notin {"level", "tx", "rx"}
    OBVIOUS
  <2>2. AcxWillBe => After(todo', acx', "level", tx_level_val')
    BY <1>3, <1>5 DEF AcxWillBe, WillBe
  <2>3. AcxWillBe /\ ~moved => After(todo', acx', "tx", ch) /\ After(todo', acx', "rx", ch)
    BY <1>2, <1>5 DEF AcxWillBe, WillBe, Configured, Told
  <2> QED
    BY <1>1, <1>3, <1>4, <1>5, <2>1, <2>2, <2>3
    DEF AcxWillBe, WillBe, Added, Configured, Told, history
<1>13. clean' /\ Told' => NetworkWillBe'
  <2>1. OnAir' <=> OnAir
    BY <1>4 DEF OnAir
  <2>2. CASE phase = "added" /\ ~mac.restart
    <3>1. ~OnAir /\ mac.beacon = 0
      BY <1>1, <2>2 DEF DriverAsTold
    <3> QED
      BY <1>4, <2>1, <3>1 DEF NetworkWillBe
  <2>3. CASE phase = "up"
    <3>1. \A f \in {"joined", "beacon", "probe", "tim"} : f \notin {"level", "tx", "rx"}
      OBVIOUS
    <3>2. OnAir => mac'.channel = mac.channel
      BY <1>2, <1>4
    <3> QED
      BY <1>1, <1>3, <1>4, <1>5, <2>1, <2>3, <3>1, <3>2 DEF NetworkWillBe, WillBe, Told, history
  <2>4. CASE phase = "added" /\ mac.restart
    BY <1>2, <2>4 DEF Told
  <2> QED
    BY <1>1, <2>2, <2>3, <2>4
<1>14. phase' # "down"
  BY <1>2
<1> QED
  BY <1>6, <1>9, <1>10, <1>11, <1>12, <1>13 DEF SettingsIInv

\* The list of acx_op_bss_info_changed.
LEMMA BssInfoDoes ==
  ASSUME SettingsIInv, Idle, mode \in Modes,
         NEW bs \in Addrs \cup Peers \cup {Zero}, NEW b \in 0..2, BssInfoChanged(bs, b)
  PROVE  LET joins == bs # bssid \/ mac.restart
             sets == b # mac.beacon \/ (mac.restart /\ b # 0)
         IN  /\ todo' \in Seq(Commands) /\ Careful(todo')
             /\ \A f, v : After(todo, acx, f, v) /\ f \notin {"joined", "beacon", "tim", "probe"}
                         => After(todo', acx', f, v)
             /\ ~sets => \A f, v : After(todo, acx, f, v) /\ f # "joined" => After(todo', acx', f, v)
             /\ ~joins /\ ~sets => \A f, v : After(todo, acx, f, v) => After(todo', acx', f, v)
             /\ (joins \/ sets) /\ bs # Zero =>
                  After(todo', acx', "joined", [bssid |-> bs, mode |-> mode, channel |-> channel])
             /\ sets => After(todo', acx', "beacon", b) /\ After(todo', acx', "probe", b)
             /\ sets /\ card # "acx100" => After(todo', acx', "tim", b)
<1> DEFINE joins == bs # bssid \/ mac.restart
           sets == b # mac.beacon \/ (mac.restart /\ b # 0)
           bss == [bssid |-> bs, mode |-> mode, channel |-> channel]
           j == Join(bs, mode, channel)
           t == SetBeacon(b)
           T == {"beacon", "tim", "probe"}
<1>1. TypeOK /\ todo = <<>> /\ acx' = acx /\ todo' = When(joins, j) \o When(sets, t \o j)
  BY IdleMeans DEF BssInfoChanged
<1>2. joins \in BOOLEAN /\ sets \in BOOLEAN
  BY Zenon
<1>3. List(j, {"joined"}) /\ (bs # Zero => Sets(j, "joined", bss))
  BY <1>1, JoinDoes DEF TypeOK
<1>4. /\ List(t, T) /\ Sets(t, "beacon", b) /\ Sets(t, "probe", b)
      /\ card # "acx100" => Sets(t, "tim", b)
  BY SetBeaconDoes
<1>5. \A x \in T : x # "joined"
  OBVIOUS
<1> HIDE DEF j, t, T, bss, joins, sets
<1>6. /\ List(t \o j, T \cup {"joined"}) /\ Sets(t \o j, "beacon", b)
      /\ Sets(t \o j, "probe", b) /\ (card # "acx100" => Sets(t \o j, "tim", b))
      /\ bs # Zero => Sets(t \o j, "joined", bss)
  <2>1. \A x \in {"beacon", "tim", "probe"} : x \notin {"joined"}
    OBVIOUS
  <2> QED
    BY <1>3, <1>4, <2>1, Appended
<1> DEFINE one == When(joins, j)
           tj == t \o j
           two == When(sets, tj)
<1>7. tj = t \o j
  OBVIOUS
<1> HIDE DEF tj
<1>8. List(one, {"joined"}) /\ (joins => one = j) /\ (~joins => one = <<>>)
  BY <1>2, <1>3, WhenList DEF When
<1>9. /\ List(two, T \cup {"joined"}) /\ (sets => two = tj) /\ (~sets => two = <<>>)
  BY <1>2, <1>6, <1>7, WhenList DEF When
<1>10. todo' = one \o two
  BY <1>1, <1>7
<1> HIDE DEF one, two
<1>11. List(todo', {"joined"} \cup (T \cup {"joined"}))
  BY <1>8, <1>9, <1>10, Appended
<1>12. /\ todo' \in Seq(Commands) /\ Careful(todo')
       /\ \A f, v : After(todo, acx, f, v) /\ f \notin {"joined"} \cup (T \cup {"joined"})
                   => After(todo', acx', f, v)
       /\ \A f, v : Sets(todo', f, v) => After(todo', acx', f, v)
  BY <1>1, <1>11, ListDecides
<1>13. \A f, v : After(todo, acx, f, v) /\ f \notin {"joined", "beacon", "tim", "probe"}
                => After(todo', acx', f, v)
  <2>1. {"joined"} \cup (T \cup {"joined"}) = {"joined", "beacon", "tim", "probe"}
    BY DEF T
  <2> QED
    BY <1>12, <2>1
<1>14. ASSUME ~sets PROVE todo' = one /\ (~joins => todo' = <<>>)
  <2>1. one \in Seq(Commands) /\ two = <<>>
    BY <1>8, <1>9, <1>14 DEF List
  <2>2. todo' = one
    BY <1>10, <2>1
  <2> QED
    BY <1>8, <2>2
<1>15. ~sets => \A f, v : After(todo, acx, f, v) /\ f # "joined" => After(todo', acx', f, v)
  <2>1. \A f, v : After(<<>>, acx, f, v) /\ f \notin {"joined"} => After(one, acx, f, v)
    BY <1>8, ListDecides
  <2> QED
    BY <1>1, <1>14, <2>1
<1>16. ~joins /\ ~sets => \A f, v : After(todo, acx, f, v) => After(todo', acx', f, v)
  BY <1>1, <1>14
<1>17. sets => /\ After(todo', acx', "beacon", b) /\ After(todo', acx', "probe", b)
               /\ card # "acx100" => After(todo', acx', "tim", b)
               /\ bs # Zero => After(todo', acx', "joined", bss)
  <2> SUFFICES ASSUME sets
               PROVE  /\ Sets(todo', "beacon", b) /\ Sets(todo', "probe", b)
                      /\ card # "acx100" => Sets(todo', "tim", b)
                      /\ bs # Zero => Sets(todo', "joined", bss)
    BY <1>12
  <2>1. \A f, v : Sets(two, f, v) => Sets(todo', f, v)
    BY <1>8, <1>9, <1>10, Appended
  <2>2. two = t \o j
    BY <1>7, <1>9
  <2> QED
    BY <1>6, <2>1, <2>2
<1>18. joins /\ ~sets /\ bs # Zero => After(todo', acx', "joined", bss)
  BY <1>3, <1>8, <1>12, <1>14
<1>19. (joins \/ sets) /\ bs # Zero => After(todo', acx', "joined", bss)
  BY <1>17, <1>18
<1> QED
  BY <1>12, <1>13, <1>15, <1>16, <1>17, <1>19 DEF joins, sets, bss

LEMMA OpBssInfoChangedIInv == ASSUME SettingsIInv, OpBssInfoChanged PROVE SettingsIInv'
<1>1. /\ TypeOK /\ DriverAsTold /\ KeysAreHardware /\ todo = <<>>
      /\ phase \in {"configured", "up"}
      /\ clean => AcxWillBe
      /\ clean /\ Told => NetworkWillBe
  BY IdleMeans DEF OpBssInfoChanged
<1>2. /\ vif = mac.type /\ mode = mac.type /\ mac.type \in Modes /\ dev_addr = mac.addr
      /\ ~moved => channel = mac.channel
      /\ tx_level_val = Levels - Level(mac.power) + 1
      /\ phase = "configured" <=> mac.restart
      /\ mac.type = "ap" => mac.bssid = mac.addr
      /\ mac.type # "ap" => mac.bssid \in Peers \cup {Zero} /\ mac.beacon = 0
      /\ bssid \in Peers => mac.type = "sta" /\ bssid = mac.bssid
  BY <1>1 DEF DriverAsTold, Added, Configured, Told
<1>3. /\ mac \in MacType /\ mac.addr \in Addrs /\ mac.bssid \in Addrs \cup Peers \cup {Zero}
      /\ mac.beacon \in 0..2 /\ bssid \in Addrs \cup Peers \cup {Zero}
  BY <1>1 DEF TypeOK, MacType
<1>4. PICK bs \in Addrs \cup Peers \cup {Zero}, b \in 0..2 :
        /\ BssInfoChanged(bs, b)
        /\ mac.type = "sta" => bs \in Peers \cup {Zero} /\ b = 0
        /\ mac.type = "ap" => /\ bs \notin Peers
                              /\ ApBssidTold => bs = mac.bssid
  <2>1. CASE phase = "configured" /\ BssInfoChanged(mac.bssid, mac.beacon)
    <3>1. mac.type = "ap" => mac.bssid \notin Peers
      BY <1>2, <1>3, SettingsAssumption
    <3> QED
      BY <1>2, <1>3, <2>1, <3>1
  <2>2. CASE mac.type = "sta" /\ \E bs \in Peers \cup {Zero} : BssInfoChanged(bs, 0)
    <3>1. 0 \in 0..2
      OBVIOUS
    <3> QED
      BY <2>2, <3>1
  <2>3. CASE /\ mac.type = "ap"
             /\ \E b \in 1..2 : BssInfoChanged(IF ApBssidTold THEN mac.bssid ELSE bssid, b)
    <3> DEFINE bs == IF ApBssidTold THEN mac.bssid ELSE bssid
    <3>1. bs \notin Peers /\ bs \in Addrs \cup Peers \cup {Zero} /\ (ApBssidTold => bs = mac.bssid)
      BY <1>2, <1>3, <2>3, SettingsAssumption
    <3>2. PICK b \in 1..2 : BssInfoChanged(bs, b)
      BY <2>3
    <3>3. b \in 0..2
      OBVIOUS
    <3> QED
      BY <2>3, <3>1, <3>2, <3>3
  <2> QED
    BY <2>1, <2>2, <2>3 DEF OpBssInfoChanged
<1>5. /\ bssid' = bs /\ phase' = IF mac.again = {} THEN "up" ELSE "keys"
      /\ mac' = [mac EXCEPT !.bssid = IF mac.type = "ap" THEN @ ELSE bs,
                            !.beacon = b, !.restart = FALSE]
      /\ UNCHANGED <<card, HW_UP, vif, mode, channel, tx_enabled, rx_enabled, dev_addr,
                     tx_level_val, tx_level_dbm, ed_threshold, reg_dom_id, hw_encrypt_enabled,
                     acx, clean, history>>
  BY <1>4 DEF BssInfoChanged
<1>6. /\ mac' \in MacType /\ mac'.type = mac.type /\ mac'.addr = mac.addr
      /\ mac'.bssid = IF mac.type = "ap" THEN mac.bssid ELSE bs
      /\ mac'.channel = mac.channel /\ mac'.power = mac.power
      /\ mac'.beacon = b /\ mac'.keys = mac.keys /\ mac'.again = mac.again
      /\ ~mac'.restart
  <2>1. (IF mac.type = "ap" THEN mac.bssid ELSE bs) \in Addrs \cup Peers \cup {Zero}
    BY <1>3
  <2>2. FALSE \in BOOLEAN
    OBVIOUS
  <2>3. mac' \in MacType
    BY <1>3, <1>5, <2>1, <2>2 DEF MacType
  <2> QED
    BY <1>3, <1>5, <2>3 DEF MacType
<1>7. Told' /\ phase' \in {"keys", "up"}
  BY <1>5 DEF Told
<1> DEFINE joins == bs # bssid \/ mac.restart
           sets == b # mac.beacon \/ (mac.restart /\ b # 0)
<1>8. /\ todo' \in Seq(Commands) /\ Careful(todo')
      /\ \A f, v : After(todo, acx, f, v) /\ f \notin {"joined", "beacon", "tim", "probe"}
                  => After(todo', acx', f, v)
      /\ ~sets => \A f, v : After(todo, acx, f, v) /\ f # "joined" => After(todo', acx', f, v)
      /\ ~joins /\ ~sets => \A f, v : After(todo, acx, f, v) => After(todo', acx', f, v)
      /\ (joins \/ sets) /\ bs # Zero =>
           After(todo', acx', "joined", [bssid |-> bs, mode |-> mode, channel |-> channel])
      /\ sets => After(todo', acx', "beacon", b) /\ After(todo', acx', "probe", b)
      /\ sets /\ card # "acx100" => After(todo', acx', "tim", b)
  <2>1. mode \in Modes /\ Idle
    BY <1>2 DEF OpBssInfoChanged
  <2> QED
    BY <1>4, <2>1, BssInfoDoes
<1>9. TypeOK'
  BY <1>1, <1>5, <1>6, <1>7, <1>8 DEF TypeOK, history, Levels
<1>10. DriverAsTold'
  <2>1. tx_level_val' = Levels' - Level(mac.power)' + 1
    BY <1>2, <1>5, <1>6 DEF Levels, Level, Closest, Dpl
  <2>2. IF mac'.type = "ap" THEN mac'.bssid = mac'.addr
        ELSE mac'.bssid \in Peers \cup {Zero} /\ mac'.beacon = 0
    BY <1>2, <1>4, <1>6 DEF Modes
  <2>3. bssid' \in Peers => mac'.type = "sta" /\ bssid' = mac'.bssid
    BY <1>2, <1>4, <1>5, <1>6 DEF Modes
  <2> QED
    BY <1>2, <1>5, <1>6, <1>7, <2>1, <2>2, <2>3 DEF DriverAsTold, Added, Configured, Told, history
<1>11. KeysAreHardware'
  BY <1>1, <1>5, <1>6, <1>7 DEF KeysAreHardware, history
<1>12. RxOffBefore'
  <2>1. Careful(todo')
    BY <1>8
  <2> QED
    BY <2>1 DEF Careful, RxOffBefore
<1>13. clean' => AcxWillBe'
  <2>1. \A f \in {"domain", "level", "addr", "noTxCrypt", "keys", "rxConfig", "tx", "rx"} :
          f \notin {"joined", "beacon", "tim", "probe"}
    OBVIOUS
  <2> QED
    BY <1>1, <1>5, <1>6, <1>7, <1>8, <2>1
       DEF AcxWillBe, WillBe, Added, Configured, Told, history
<1>14. ASSUME clean, OnAir', ~moved, mac.type = "ap" => ApBssidTold
       PROVE  After(todo', acx', "joined",
                    [bssid |-> mac'.bssid, mode |-> mac.type, channel |-> mac.channel])
  <2>1. mac'.bssid = bs /\ bs # Zero
    <3>1. mac.type = "ap" => bs = mac.bssid /\ mac.bssid # Zero
      BY <1>2, <1>3, <1>4, <1>14, SettingsAssumption
    <3> QED
      BY <1>6, <1>14, <3>1 DEF OnAir
  <2>2. CASE joins \/ sets
    BY <1>2, <1>8, <1>14, <2>1, <2>2
  <2>3. CASE ~joins /\ ~sets
    <3>1. phase = "up" /\ bssid = bs /\ b = mac.beacon
      BY <1>1, <1>2, <2>3
    <3>2. OnAir
      <4>1. mac.type = "ap" => mac.beacon # 0
        BY <1>6, <1>14, <3>1 DEF OnAir
      <4>2. mac.type = "sta" => bs = mac.bssid
        BY <1>2, <1>4, <2>1, <3>1
      <4> QED
        BY <1>2, <2>1, <4>1, <4>2 DEF OnAir, Modes
    <3>3. bs = mac.bssid
      BY <1>2, <1>4, <1>14, <2>1, <3>1 DEF Modes
    <3>4. After(todo, acx, "joined",
                [bssid |-> mac.bssid, mode |-> mac.type, channel |-> mac.channel])
      BY <1>1, <1>14, <3>1, <3>2 DEF NetworkWillBe, WillBe, Told
    <3> QED
      BY <1>8, <2>1, <2>3, <3>3, <3>4
  <2> QED
    BY <2>2, <2>3
<1>15. ASSUME clean, b # 0
       PROVE  /\ After(todo', acx', "beacon", b) /\ After(todo', acx', "probe", b)
              /\ card # "acx100" => After(todo', acx', "tim", b)
  <2>1. CASE sets
    BY <1>8, <2>1
  <2>2. CASE ~sets
    <3>1. phase = "up" /\ mac.beacon = b
      BY <1>1, <1>2, <1>15, <2>2
    <3>2. /\ After(todo, acx, "beacon", b) /\ After(todo, acx, "probe", b)
          /\ card # "acx100" => After(todo, acx, "tim", b)
      BY <1>1, <1>15, <3>1 DEF NetworkWillBe, WillBe, Told
    <3> QED
      BY <1>8, <2>2, <3>2
  <2> QED
    BY <2>1, <2>2
<1>16. clean' => NetworkWillBe'
  BY <1>5, <1>6, <1>14, <1>15 DEF NetworkWillBe, WillBe, history
<1>17. phase' # "down"
  BY <1>7
<1> QED
  BY <1>9, <1>10, <1>11, <1>12, <1>13, <1>16 DEF SettingsIInv

LEMMA OpSetKeyIInv == ASSUME SettingsIInv, OpSetKey PROVE SettingsIInv'
<1>1. /\ TypeOK /\ DriverAsTold /\ KeysAreHardware /\ todo = <<>> /\ Told
      /\ clean => AcxWillBe
      /\ clean => NetworkWillBe
  BY IdleMeans DEF OpSetKey, Told
<1>2. /\ mac \in MacType /\ mac.keys \subseteq Keys /\ mac.again \subseteq Keys
      /\ acx["keys"] \subseteq {"CCMP"}
  BY <1>1, FieldsAre DEF TypeOK, MacType
<1>3. PICK k \in Keys, add \in BOOLEAN : SetKey(k, add)
  BY <1>2 DEF OpSetKey
<1> DEFINE taken == (k = "CCMP" /\ hw_encrypt_enabled) \/ k = "CMAC"
           K == IF add THEN acx["keys"] \cup {k} ELSE acx["keys"] \ {k}
           q == <<Cmd("keys", K)>>
<1>4. /\ hw_encrypt_enabled' = (hw_encrypt_enabled /\ k = "CCMP")
      /\ todo' = IF k # "CCMP" THEN UpdateHwEncryption(FALSE) ELSE When(hw_encrypt_enabled, q)
      /\ mac' = [mac EXCEPT !.keys = IF add /\ taken THEN @ \cup {k} ELSE @ \ {k},
                            !.again = @ \ {k}]
      /\ mixed' = (mixed \/ k = "CMAC" \/ (k = "TKIP" /\ mac.keys # {}))
      /\ phase' = IF mac.again \subseteq {k} THEN "up" ELSE "keys"
      /\ UNCHANGED <<card, HW_UP, vif, mode, channel, tx_enabled, rx_enabled, bssid, dev_addr,
                     tx_level_val, tx_level_dbm, ed_threshold, reg_dom_id, acx, clean, moved>>
  BY <1>3 DEF SetKey
<1> HIDE DEF q
<1>5. /\ mac' \in MacType /\ mac'.type = mac.type /\ mac'.addr = mac.addr
      /\ mac'.bssid = mac.bssid /\ mac'.channel = mac.channel /\ mac'.power = mac.power
      /\ mac'.beacon = mac.beacon /\ mac'.restart = mac.restart
      /\ mac'.keys = IF add /\ taken THEN mac.keys \cup {k} ELSE mac.keys \ {k}
  <2> HIDE DEF taken
  <2>1. /\ (IF add /\ taken THEN mac.keys \cup {k} ELSE mac.keys \ {k}) \in SUBSET Keys
        /\ mac.again \ {k} \in SUBSET Keys
    BY <1>2
  <2> QED
    BY <1>2, <1>4, <2>1 DEF MacType
<1>6. Told' /\ phase' \in {"keys", "up"}
  BY <1>4 DEF Told
<1>7. hw_encrypt_enabled' \in BOOLEAN /\ mixed' \in BOOLEAN
  BY <1>4, Zenon
<1>8. /\ hw_encrypt_enabled' <=> hw_encrypt_enabled /\ k = "CCMP"
      /\ mixed' <=> mixed \/ k = "CMAC" \/ (k = "TKIP" /\ mac.keys # {})
  BY <1>4, Zenon
<1>9. k # "CCMP" => /\ List(todo', {"noTxCrypt"})
                    /\ card # "acx100" => Sets(todo', "noTxCrypt", TRUE)
  BY <1>4, UpdateHwEncryptionDoes
<1>10. k = "CCMP" => /\ List(todo', {"keys"})
                     /\ hw_encrypt_enabled => Sets(todo', "keys", K)
                     /\ ~hw_encrypt_enabled => todo' = <<>>
  <2> SUFFICES ASSUME k = "CCMP" PROVE /\ List(todo', {"keys"})
                                       /\ hw_encrypt_enabled => Sets(todo', "keys", K)
                                       /\ ~hw_encrypt_enabled => todo' = <<>>
    OBVIOUS
  <2>1. K \in AcxValues["keys"] /\ "keys" \in Fields
    BY <1>2, FieldsAre
  <2> HIDE DEF K
  <2>2. List(q, {"keys"}) /\ Sets(q, "keys", K)
    BY <2>1, OneCommand DEF q
  <2>3. hw_encrypt_enabled \in BOOLEAN
    BY <1>1 DEF TypeOK
  <2> QED
    BY <1>4, <2>2, <2>3, WhenList DEF When
<1> HIDE DEF K
<1>11. /\ todo' \in Seq(Commands) /\ Careful(todo')
       /\ \A f, v : After(todo, acx, f, v) /\ f \notin {"noTxCrypt", "keys"}
                   => After(todo', acx', f, v)
  <2>1. acx' = acx
    BY <1>4
  <2>2. List(todo', {"keys"}) \/ List(todo', {"noTxCrypt"})
    BY <1>9, <1>10
  <2> DEFINE F == {"noTxCrypt", "keys"}
  <2>3. {"keys"} \subseteq F /\ {"noTxCrypt"} \subseteq F
    OBVIOUS
  <2> HIDE DEF F
  <2>4. List(todo', F)
    BY <2>2, <2>3, ListMonotone
  <2>5. /\ todo' \in Seq(Commands) /\ Careful(todo')
        /\ \A f, v : After(<<>>, acx, f, v) /\ f \notin F => After(todo', acx, f, v)
    BY <2>4, ListDecides
  <2> QED
    BY <1>1, <2>1, <2>5 DEF F
<1>12. TypeOK'
  BY <1>1, <1>4, <1>5, <1>6, <1>7, <1>11 DEF TypeOK, Levels
<1>13. DriverAsTold'
  <2>1. tx_level_val' = Levels' - Level(mac.power)' + 1
    BY <1>1, <1>4, <1>5 DEF DriverAsTold, Configured, Levels, Level, Closest, Dpl
  <2>2. /\ vif = mac.type /\ mode = mac.type /\ mac.type \in Modes /\ dev_addr = mac.addr
        /\ ~moved => channel = mac.channel
        /\ ~mac.restart
        /\ IF mac.type = "ap" THEN mac.bssid = mac.addr
           ELSE mac.bssid \in Peers \cup {Zero} /\ mac.beacon = 0
        /\ bssid \in Peers => mac.type = "sta" /\ bssid = mac.bssid
    BY <1>1 DEF DriverAsTold, Added, Configured, Told
  <2> QED
    BY <1>4, <1>5, <1>6, <2>1, <2>2 DEF DriverAsTold, Added, Configured, Told
<1>14. KeysAreHardware'
  <2>1. ~Told' => mac'.keys = {}
    BY <1>6
  <2>2. /\ hw_encrypt_enabled => card # "acx100" /\ mac.keys \subseteq {"CCMP"}
        /\ mac.keys # {} /\ ~mixed => hw_encrypt_enabled
    BY <1>1 DEF KeysAreHardware
  <2>3. hw_encrypt_enabled' => card' # "acx100" /\ mac'.keys \subseteq {"CCMP"}
    BY <1>4, <1>5, <1>8, <2>2
  <2>4. mac'.keys # {} /\ ~mixed' => hw_encrypt_enabled'
    <3> SUFFICES ASSUME mac'.keys # {}, ~mixed' PROVE hw_encrypt_enabled'
      OBVIOUS
    <3>1. k = "CCMP"
      <4>1. k # "CMAC" /\ (k = "TKIP" => mac.keys = {})
        BY <1>8
      <4>2. k # "TKIP"
        BY <1>5, <4>1
      <4> QED
        BY <4>1, <4>2, SettingsAssumption
    <3>2. CASE hw_encrypt_enabled
      BY <1>8, <3>1, <3>2
    <3>3. CASE ~hw_encrypt_enabled
      <4>1. mac.keys = {}
        BY <1>8, <2>2, <3>3
      <4> QED
        BY <1>5, <3>1, <3>3, <4>1
    <3> QED
      BY <3>2, <3>3
  <2> QED
    BY <2>1, <2>3, <2>4 DEF KeysAreHardware
<1>15. RxOffBefore'
  <2>1. Careful(todo')
    BY <1>11
  <2> QED
    BY <2>1 DEF Careful, RxOffBefore
<1>16. ASSUME clean, card # "acx100" PROVE After(todo', acx', "noTxCrypt", ~hw_encrypt_enabled')
  <2>1. After(todo, acx, "noTxCrypt", ~hw_encrypt_enabled)
    BY <1>1, <1>16 DEF AcxWillBe, WillBe, Told
  <2>2. CASE k = "CCMP"
    <3>1. hw_encrypt_enabled' = hw_encrypt_enabled
      BY <1>1, <1>4, <2>2, Zenon DEF TypeOK
    <3>2. After(todo', acx', "noTxCrypt", ~hw_encrypt_enabled)
      <4>1. "noTxCrypt" \notin {"keys"}
        OBVIOUS
      <4> QED
        BY <1>1, <1>4, <1>10, <2>1, <2>2, <4>1, ListDecides
    <3> QED
      BY <3>1, <3>2
  <2>3. CASE k # "CCMP"
    <3>1. (~hw_encrypt_enabled') = TRUE
      BY <1>8, <2>3
    <3>2. After(todo', acx', "noTxCrypt", TRUE)
      BY <1>9, <1>16, <2>3, ListDecides
    <3> QED
      BY <3>1, <3>2
  <2> QED
    BY <2>2, <2>3
<1>17. ASSUME clean, hw_encrypt_enabled'
       PROVE  \E L \in SUBSET {"CCMP"} :
                /\ After(todo', acx', "keys", L)
                /\ mac'.keys \subseteq L /\ (card # "vlynq" => L = mac'.keys)
  <2>1. k = "CCMP" /\ hw_encrypt_enabled
    BY <1>8, <1>17
  <2>2. mac.keys \subseteq acx["keys"] /\ (card # "vlynq" => acx["keys"] = mac.keys)
    BY <1>1, <1>17, <2>1, IdleIs DEF AcxWillBe, WillBe
  <2>3. After(todo', acx', "keys", K)
    BY <1>10, <2>1, ListDecides
  <2>4. /\ K \in SUBSET {"CCMP"} /\ mac'.keys \subseteq K
        /\ card # "vlynq" => K = mac'.keys
    BY <1>2, <1>5, <2>1, <2>2 DEF K
  <2> QED
    BY <2>3, <2>4
<1>18. clean' => AcxWillBe'
  <2>1. \A f \in {"domain", "level", "addr", "rxConfig", "tx", "rx"} : f \notin {"noTxCrypt", "keys"}
    OBVIOUS
  <2> QED
    BY <1>1, <1>4, <1>5, <1>6, <1>11, <1>16, <1>17, <2>1
       DEF AcxWillBe, WillBe, Added, Configured, Told
<1>19. clean' => NetworkWillBe'
  <2>1. \A f \in {"joined", "beacon", "tim", "probe"} : f \notin {"noTxCrypt", "keys"}
    OBVIOUS
  <2> QED
    BY <1>1, <1>4, <1>5, <1>11, <2>1 DEF NetworkWillBe, WillBe, OnAir
<1> QED
  BY <1>12, <1>13, <1>14, <1>15, <1>18, <1>19 DEF SettingsIInv

LEMMA StutterIInv == ASSUME SettingsIInv, UNCHANGED vars PROVE SettingsIInv'
<1>1. UNCHANGED <<card, driver, acx, todo, clean, history, mac, phase>>
  BY DEF vars
<1>2. TypeOK'
  BY <1>1 DEF SettingsIInv, TypeOK, driver, history, Levels
<1>3. DriverAsTold' /\ KeysAreHardware'
  BY <1>1 DEF SettingsIInv, DriverAsTold, OnAir, KeysAreHardware, Added, Configured, Told,
              driver, history, Levels, Level, Closest, Dpl
<1>4. clean' => RxOffBefore'
  BY <1>1 DEF SettingsIInv, RxOffBefore
<1>5. clean' /\ phase' # "down" => AcxWillBe'
  BY <1>1 DEF SettingsIInv, AcxWillBe, WillBe, driver, history, Added, Configured, Told
<1>6. clean' /\ Told' => NetworkWillBe'
  BY <1>1 DEF SettingsIInv, NetworkWillBe, WillBe, driver, history, OnAir, Told
<1> QED
  BY <1>2, <1>3, <1>4, <1>5, <1>6 DEF SettingsIInv

-------------------------------------------------------------------------------
(* The theorems *)

\* The invariant that the properties follow from: what every setting of the adapter will
\* be when the commands under way are carried out.
THEOREM SettingsInvariance == Spec => []SettingsIInv
<1>1. Init => SettingsIInv
  BY InitIInv
<1>2. SettingsIInv /\ [Next]_vars => SettingsIInv'
  <2> SUFFICES ASSUME SettingsIInv, [Next]_vars PROVE SettingsIInv'
    OBVIOUS
  <2>1. CASE IssueCmdOk
    BY <2>1, IssueCmdOkIInv
  <2>2. CASE IssueCmdFails
    BY <2>2, IssueCmdFailsIInv
  <2>3. CASE OpStart
    BY <2>3, OpStartIInv
  <2>4. CASE OpAddInterface
    BY <2>4, OpAddInterfaceIInv
  <2>5. CASE OpConfig
    BY <2>5, OpConfigIInv
  <2>6. CASE OpBssInfoChanged
    BY <2>6, OpBssInfoChangedIInv
  <2>7. CASE OpSetKey
    BY <2>7, OpSetKeyIInv
  <2>8. CASE \E d \in Domains : WriteRegDomain(d)
    BY <2>8, WriteRegDomainIInv
  <2>9. CASE OpRemoveInterface
    BY <2>9, OpRemoveInterfaceIInv
  <2>10. CASE OpStop
    BY <2>10, OpStopIInv
  <2>11. CASE Recover
    BY <2>11, RecoverIInv
  <2>12. CASE Recalib
    BY <2>12, RecalibIInv
  <2>13. CASE UNCHANGED vars
    BY <2>13, StutterIInv
  <2> QED
    BY <2>1, <2>2, <2>3, <2>4, <2>5, <2>6, <2>7, <2>8, <2>9, <2>10, <2>11, <2>12, <2>13 DEF Next
<1> QED
  BY <1>1, <1>2, PTL DEF Spec

\* Where the BSSID of an access point is announced before its beacon, the adapter is set
\* as told whenever mac80211 has told all and nothing has failed.
THEOREM SettingsFollow == ApBssidTold => (Spec => []SetAsTold)
<1>1. ASSUME ApBssidTold, SettingsIInv PROVE SetAsTold
  <2>1. TypeOK
    BY <1>1 DEF SettingsIInv
  <2>2. ASSUME Settled PROVE /\ AcxWillBe /\ NetworkWillBe /\ Told /\ DriverAsTold /\ todo = <<>>
    BY <1>1, <2>2 DEF SettingsIInv, Settled, Idle, Told
  <2>3. ASSUME Settled, NEW f, NEW v, WillBe(f, v) PROVE acx[f] = v
    BY <2>2, <2>3, IdleIs DEF WillBe
  <2>4. RadioAsTold
    BY <2>2, <2>3 DEF RadioAsTold, AcxWillBe, Added, Configured
  <2>5. AddressAsTold /\ DomainAsTold
    BY <2>2, <2>3 DEF AddressAsTold, DomainAsTold, AcxWillBe, DriverAsTold, Added, Configured
  <2>6. JoinedAsTold
    BY <1>1, <2>2, <2>3 DEF JoinedAsTold, NetworkWillBe
  <2>7. BeaconAsTold
    BY <2>2, <2>3 DEF BeaconAsTold, NetworkWillBe
  <2> QED
    BY <2>1, <2>4, <2>5, <2>6, <2>7 DEF SetAsTold
<1> QED
  <2> SUFFICES ASSUME ApBssidTold PROVE Spec => []SetAsTold
    OBVIOUS
  <2>1. SettingsIInv => SetAsTold
    BY <1>1
  <2> QED
    BY <2>1, SettingsInvariance, PTL

\* The adapter encrypts as the driver believes, with the keys that mac80211 counts on.
THEOREM KeysFollow == Spec => []KeysAsTold
<1>1. ASSUME SettingsIInv PROVE KeysAsTold
  <2> SUFFICES ASSUME Settled
               PROVE  /\ card # "acx100" => acx.noTxCrypt = ~hw_encrypt_enabled
                      /\ hw_encrypt_enabled =>
                           /\ mac.keys \subseteq acx.keys
                           /\ card # "vlynq" => acx.keys = mac.keys
                      /\ mac.keys # {} /\ ~mixed => hw_encrypt_enabled
    BY DEF KeysAsTold
  <2>1. AcxWillBe /\ KeysAreHardware /\ todo = <<>>
    BY <1>1 DEF SettingsIInv, Settled, Idle
  <2>2. ASSUME NEW f, NEW v, WillBe(f, v) PROVE acx[f] = v
    BY <2>1, <2>2, IdleIs DEF WillBe
  <2>3. card # "acx100" => acx.noTxCrypt = ~hw_encrypt_enabled
    BY <2>1, <2>2 DEF AcxWillBe
  <2>4. hw_encrypt_enabled => /\ mac.keys \subseteq acx.keys
                              /\ card # "vlynq" => acx.keys = mac.keys
    BY <2>1, <2>2 DEF AcxWillBe
  <2>5. mac.keys # {} /\ ~mixed => hw_encrypt_enabled
    BY <2>1 DEF KeysAreHardware
  <2> QED
    BY <2>3, <2>4, <2>5
<1> QED
  BY <1>1, SettingsInvariance, PTL

\* acx1xx_update_tx_level_dbm takes the level closest to the power asked for, and the
\* adapter has it.
THEOREM LevelFollows == Spec => []LevelIsClosest
<1>1. ASSUME SettingsIInv PROVE LevelIsClosest
  <2> SUFFICES ASSUME Settled
               PROVE  LET Dist(l) == IF l * Dpl >= mac.power THEN l * Dpl - mac.power
                                     ELSE mac.power - l * Dpl
                      IN  /\ acx.level = tx_level_val
                          /\ \A l \in 1..Levels : Dist(Levels - tx_level_val + 1) <= Dist(l)
    BY DEF LevelIsClosest
  <2>1. AcxWillBe /\ DriverAsTold /\ TypeOK /\ todo = <<>> /\ Configured
    BY <1>1 DEF SettingsIInv, Settled, Idle, Configured, Told
  <2>2. acx.level = tx_level_val
    BY <2>1, IdleIs DEF AcxWillBe, WillBe
  <2>3. tx_level_val = Levels - Level(mac.power) + 1
    BY <2>1 DEF DriverAsTold
  <2>4. mac.power \in 0..TX_CFG_MAX_DBM_POWER
    BY <2>1 DEF TypeOK, MacType
  <2>5. Level(mac.power) \in 1..Levels /\ card \in Cards
    BY <2>1, <2>4, LevelDoes DEF TypeOK
  <2>6. Levels - tx_level_val + 1 = Level(mac.power)
    BY <2>3, <2>5, LevelInRange
  <2> QED
    BY <2>2, <2>4, <2>5, <2>6, LevelDoes
<1> QED
  BY <1>1, SettingsInvariance, PTL

\* "Rx should be disabled before changing rx_config": while no command fails, rxConfig
\* changes only with reception off, or by a reset.
THEOREM RxOffAtConfig == Spec => RxOffForConfig
<1>1. SettingsIInv /\ [Next]_vars =>
        [clean /\ acx'.rxConfig # acx.rxConfig => acx.rx = 0 \/ acx' = AcxReset]_vars
  <2> SUFFICES ASSUME SettingsIInv, Next, clean, acx'.rxConfig # acx.rxConfig
               PROVE  acx.rx = 0 \/ acx' = AcxReset
    OBVIOUS
  <2>1. CASE IssueCmdOk
    BY <2>1, OkIsCareful DEF SettingsIInv, TypeOK, AcxOK
  <2>2. CASE OpStart
    BY <2>2 DEF OpStart
  <2>3. CASE \/ IssueCmdFails \/ OpAddInterface \/ OpConfig \/ OpBssInfoChanged \/ OpSetKey
             \/ \E d \in Domains : WriteRegDomain(d)
             \/ OpRemoveInterface \/ OpStop \/ Recover \/ Recalib
    <3>1. acx' = acx
      BY <2>3 DEF IssueCmdFails, OpAddInterface, AddInterface, OpConfig, Config,
                  OpBssInfoChanged, BssInfoChanged, OpSetKey, SetKey, WriteRegDomain,
                  OpRemoveInterface, RemoveInterface, OpStop, Recover, Recalib
    <3> QED
      BY <3>1
  <2> QED
    BY <2>1, <2>2, <2>3 DEF Next
<1> QED
  BY <1>1, SettingsInvariance, PTL DEF RxOffForConfig, Spec
===============================================================================
