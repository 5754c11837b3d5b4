------------------------------- MODULE Settings -------------------------------
(***************************************************************************)
(* What mac80211 tells the driver (main.c), what the driver keeps of it    *)
(* (acx_device_t), and what the adapter has been told by commands          *)
(* (cardsetting.c, cmd.c), which a reset takes away.  Every operation runs *)
(* with acx_sem held and is a list of commands; each may fail, and most    *)
(* failures are passed over.                                               *)
(***************************************************************************)
EXTENDS Integers, Sequences

CONSTANTS
  Cards,       \* the kinds of adapters looked at
  Channels,    \* of the band
  Domains,     \* regulatory domains; FCC is one, the others may be unknown to the driver
  FCC,
  DomainMask,  \* reg_domain_channel_masks: the channels of the domains the driver knows
  Addrs,       \* MAC addresses an interface can be given
  OwnAddr,     \* the one in the adapter's EEPROM
  Peers,       \* BSSIDs of networks
  Requests,    \* the channels and transmit powers (in dBm) mac80211 asks for, in pairs
  Keys,        \* the keys it has, one of a cipher
  Thresholds,  \* energy detect thresholds
  Faults,      \* the adapter's settings that a command may fail to set
  ApBssidTold  \* mac80211 announces the BSSID of an access point before its beacon

TX_CFG_MAX_DBM_POWER == 20

\* Neither a number nor an address.
Zero == "zero"

ASSUME SettingsAssumption ==
  /\ Cards \subseteq {"acx100", "acx111", "vlynq"}
  /\ Channels \subseteq 1..14
  /\ FCC \in DOMAIN DomainMask /\ DOMAIN DomainMask \subseteq Domains /\ 1 \in Channels
  /\ \A d \in DOMAIN DomainMask : DomainMask[d] \subseteq Channels /\ DomainMask[d] # {}
  /\ OwnAddr \in Addrs /\ Addrs \cap Peers = {} /\ Zero \notin Addrs \cup Peers
  /\ Requests \subseteq Channels \X (0..TX_CFG_MAX_DBM_POWER)
  /\ Keys \subseteq {"CCMP", "TKIP", "CMAC"}
  /\ ApBssidTold \in BOOLEAN

VARIABLES
  card,                                     \* which adapter: acx111 on VLYNQ is "vlynq"
  HW_UP, vif, mode, channel, tx_enabled, rx_enabled, bssid, dev_addr,
  tx_level_val, tx_level_dbm, ed_threshold,
  reg_dom_id, hw_encrypt_enabled,           \* of acx_device_t
  acx,                                      \* the adapter's settings
  todo,                                     \* the commands of the running operation
  clean,                                    \* no command has failed since acx_op_start
  moved,                                    \* the driver has changed the channel by itself
  mixed,                                    \* keys of several ciphers were used together
  mac,                                      \* mac80211's settings
  phase                                     \* the last of its calls

driver == <<HW_UP, vif, mode, channel, tx_enabled, rx_enabled, bssid, dev_addr,
            tx_level_val, tx_level_dbm, ed_threshold, reg_dom_id, hw_encrypt_enabled>>
history == <<moved, mixed>>
vars == <<card, driver, acx, todo, clean, history, mac, phase>>

NoBss == [bssid |-> Zero, mode |-> "off", channel |-> 0]
Modes == {"sta", "ap"}

\* The adapter after a reset: tx and rx are the channel, or 0.
AcxReset ==
  [tx |-> 0, rx |-> 0, rxConfig |-> "off", level |-> 1, addr |-> OwnAddr,
   ed |-> ed_threshold, joined |-> NoBss, beacon |-> 0, probe |-> 0, tim |-> 0,
   domain |-> FCC, noTxCrypt |-> FALSE, keys |-> {}]

Init ==
  /\ card \in Cards
  /\ HW_UP = FALSE /\ vif = "none" /\ mode = "sta" /\ channel = 1
  /\ tx_enabled = FALSE /\ rx_enabled = FALSE
  /\ dev_addr = OwnAddr /\ bssid = OwnAddr
  /\ tx_level_val = 1 /\ tx_level_dbm = 0
  /\ ed_threshold \in Thresholds
  /\ reg_dom_id = FCC /\ hw_encrypt_enabled = (card # "acx100")
  /\ acx = AcxReset
  /\ todo = <<>> /\ clean = TRUE
  /\ moved = FALSE /\ mixed = FALSE
  /\ mac = [type |-> "none", addr |-> OwnAddr, channel |-> 1, power |-> 0,
            bssid |-> Zero, beacon |-> 0, keys |-> {}, again |-> {}, restart |-> FALSE]
  /\ phase = "down"
-------------------------------------------------------------------------------
(* Commands: each sets one of the adapter's settings *)

Cmd(ie, v) == [ie |-> ie, val |-> v, needed |-> FALSE]

\* A command without which the operation ends.
Needed(ie, v) == [ie |-> ie, val |-> v, needed |-> TRUE]

When(cond, cmds) == IF cond THEN cmds ELSE <<>>

Idle == todo = <<>>

IssueCmdOk ==
  /\ ~Idle
  /\ acx' = [acx EXCEPT ![Head(todo).ie] = Head(todo).val]
  /\ todo' = Tail(todo)
  /\ UNCHANGED <<card, driver, clean, history, mac, phase>>

\* Bound: one failure between two starts, after which nothing is promised anyway, and
\* nothing new is asked for.
IssueCmdFails ==
  /\ ~Idle /\ Head(todo).ie \in Faults /\ clean
  /\ todo' = IF Head(todo).needed THEN <<>> ELSE Tail(todo)
  /\ clean' = FALSE
  /\ UNCHANGED <<card, driver, acx, history, mac, phase>>

\* acx1xx_update_tx and acx1xx_update_rx
UpdateTx(enabled, ch) == <<Cmd("tx", IF enabled THEN ch ELSE 0)>>
UpdateRx(enabled, ch) == <<Cmd("rx", IF enabled THEN ch ELSE 0)>>

\* Mutant: reception goes on while it is configured.
ModeWithRxOn(m, ch) ==
  IF m \in Modes THEN <<Cmd("rxConfig", m)>> \o UpdateRx(TRUE, ch) \o UpdateTx(TRUE, ch)
  ELSE UpdateTx(FALSE, ch) \o UpdateRx(FALSE, ch)

\* "Rx should be disabled before changing rx_config."
UpdateMode(m, ch) ==
  IF m \in Modes
  THEN UpdateRx(FALSE, ch) \o <<Cmd("rxConfig", m)>> \o UpdateRx(TRUE, ch) \o UpdateTx(TRUE, ch)
  ELSE UpdateTx(FALSE, ch) \o UpdateRx(FALSE, ch)

\* acx_set_sane_reg_domain: "falling back to FCC (USA)!"
SaneDomain(d) == IF d \in DOMAIN DomainMask THEN d ELSE FCC

\* "hmm, need to adjust our channel to reside within domain"
SaneChannel(ch, d) ==
  LET mask == DomainMask[SaneDomain(d)]
  IN  IF ch \in mask THEN ch ELSE CHOOSE c \in mask : \A o \in mask : c <= o

UpdateRegDomain(d) == <<Cmd("domain", SaneDomain(d))>>

\* Mutant: the features are taken for what they were.
HwEncryptionAsBefore(enabled) == <<>>

\* acx111_feature_on and acx111_feature_off: the ACX100 has no such features.
UpdateHwEncryption(enabled) == When(card # "acx100", <<Cmd("noTxCrypt", ~enabled)>>)

UpdateStationId == <<Cmd("addr", dev_addr)>>

\* acx100_update_ed_threshold sends what is behind the address of its pointer.
UpdateEdThreshold(v) == When(card = "acx100", <<Cmd("ed", v)>>)

\* acx_update_settings, without the settings that no operation changes.
UpdateSettings(ed) ==
  UpdateStationId \o <<Cmd("level", tx_level_val)>> \o UpdateEdThreshold(ed)
  \o UpdateTx(tx_enabled, channel) \o UpdateRx(rx_enabled, channel)
  \o UpdateRegDomain(reg_dom_id) \o UpdateHwEncryption(hw_encrypt_enabled)
  \o UpdateMode(mode, SaneChannel(channel, reg_dom_id))

\* acx_cmd_join_bssid
Join(bs, m, ch) ==
  When(bs # Zero, <<Cmd("joined", [bssid |-> bs, mode |-> m, channel |-> ch])>>)

\* acx_set_beacon: the templates, then "Redoing cmd_join_bssid()".
SetBeacon(b) ==
  <<Needed("beacon", b)>> \o When(card # "acx100", <<Cmd("tim", b)>>)
  \o <<Needed("probe", b)>>

\* acx1xx_update_tx_level_dbm: the number of power levels, and the one that is taken.
Levels == IF card = "acx100" THEN 2 ELSE 5
Dpl == TX_CFG_MAX_DBM_POWER \div Levels

\* Mutant: rounded down.
RoundedDown(dbm) == dbm \div Dpl

Closest(dbm) ==
  dbm \div Dpl + (IF dbm % Dpl > Dpl - (dbm % Dpl) THEN 1 ELSE 0)

\* "Adjust to boundaries (level zero doesn't exists, adjust to 1)"
Level(dbm) ==
  CASE Closest(dbm) < 1 -> 1
    [] Closest(dbm) > Levels -> Levels
    [] OTHER -> Closest(dbm)
-------------------------------------------------------------------------------
(* mac80211's calls *)

\* acx_op_start; "With vlynq a full reset doesn't work yet".
OpStart ==
  /\ Idle /\ phase = "down"
  /\ acx' = IF card = "vlynq" THEN acx ELSE AcxReset
  /\ \E v \in Thresholds : todo' = UpdateSettings(v)
  /\ channel' = SaneChannel(channel, reg_dom_id)
  /\ reg_dom_id' = SaneDomain(reg_dom_id)
  /\ IF mode \in Modes
     THEN rx_enabled' = TRUE /\ tx_enabled' = TRUE
     ELSE rx_enabled' = FALSE /\ tx_enabled' = FALSE
  /\ HW_UP' = TRUE /\ clean' = TRUE
  /\ moved' = FALSE /\ mixed' = FALSE
  /\ phase' = "started"
  /\ UNCHANGED <<card, vif, mode, bssid, dev_addr, tx_level_val, tx_level_dbm,
                 ed_threshold, hw_encrypt_enabled, mac>>

\* "Reconfigure mac-address globally, affecting all vifs"
BssidFor(addr) == IF addr # dev_addr THEN addr ELSE bssid

\* acx_op_add_interface, without monitors: mac80211 keeps those to itself.
AddInterface(type, addr) ==
  /\ vif' = type /\ mode' = type
  /\ bssid' = BssidFor(addr) /\ dev_addr' = addr
  /\ rx_enabled' = TRUE /\ tx_enabled' = TRUE
  /\ todo' = When(addr # dev_addr, <<Cmd("addr", addr)>>)
             \o UpdateMode(type, channel) \o Join(BssidFor(addr), type, channel)
  /\ phase' = "added"
  /\ UNCHANGED <<card, HW_UP, channel, tx_level_val, tx_level_dbm, ed_threshold, reg_dom_id,
                 hw_encrypt_enabled, acx, clean, history>>

OpAddInterface ==
  /\ Idle /\ phase = "started"
  /\ IF mac.restart
     THEN AddInterface(mac.type, mac.addr) /\ UNCHANGED mac
     ELSE \E t \in Modes, a \in Addrs :
            /\ AddInterface(t, a)
            /\ mac' = [mac EXCEPT !.type = t, !.addr = a,
                                  !.bssid = IF t = "ap" THEN a ELSE Zero, !.beacon = 0]

\* Mutant: only transmission follows.
SetTxChannel(ch) == UpdateTx(TRUE, ch)

\* acx_set_channel
SetChannel(ch) == UpdateTx(TRUE, ch) \o UpdateRx(TRUE, ch)

\* What mac80211 says has changed: IEEE80211_CONF_CHANGE_POWER and _CHANNEL.
Conf == {"power", "channel"}

\* acx_op_config
Config(ch, power, changed) ==
  /\ IF "power" \in changed
     THEN tx_level_val' = Levels - Level(power) + 1 /\ tx_level_dbm' = Level(power) * Dpl
     ELSE UNCHANGED <<tx_level_val, tx_level_dbm>>
  /\ IF "channel" \in changed
     THEN channel' = ch /\ tx_enabled' = TRUE /\ rx_enabled' = TRUE
     ELSE UNCHANGED <<channel, tx_enabled, rx_enabled>>
  /\ todo' = When("power" \in changed, <<Cmd("level", Levels - Level(power) + 1)>>)
             \o When("channel" \in changed, SetChannel(ch))
  /\ mac' = [mac EXCEPT !.channel = ch, !.power = power]
  /\ UNCHANGED <<card, HW_UP, vif, mode, bssid, dev_addr, ed_threshold, reg_dom_id,
                 hw_encrypt_enabled, acx, clean, history>>

\* The channel of a network in use is not changed.
OnAir == IF mac.type = "ap" THEN mac.beacon # 0 ELSE mac.bssid # Zero

\* After a start all is told, and later what differs.
Differs(r) ==
  {c \in Conf : IF c = "channel" THEN r[1] # mac.channel ELSE r[2] # mac.power}

OpConfig ==
  /\ Idle /\ phase \in {"added", "up"} /\ HW_UP
  /\ IF mac.restart
     THEN Config(mac.channel, mac.power, Conf) /\ phase' = "configured"
     ELSE /\ phase = "added" \/ clean
          /\ \E r \in Requests :
               /\ OnAir => r[1] = mac.channel
               /\ Config(r[1], r[2], IF phase = "added" THEN Conf ELSE Differs(r))
          /\ phase' = "up"

\* acx_op_bss_info_changed: the BSSID, the beacon, or both.
BssInfoChanged(bs, b) ==
  /\ vif # "none"
  /\ bssid' = bs
  /\ todo' = When(bs # bssid \/ mac.restart, Join(bs, mode, channel))
             \o When(b # mac.beacon \/ (mac.restart /\ b # 0),
                     SetBeacon(b) \o Join(bs, mode, channel))
  /\ mac' = [mac EXCEPT !.bssid = IF mac.type = "ap" THEN @ ELSE bs,
                        !.beacon = b, !.restart = FALSE]
  /\ phase' = IF mac.again = {} THEN "up" ELSE "keys"
  /\ UNCHANGED <<card, HW_UP, vif, mode, channel, tx_enabled, rx_enabled, dev_addr,
                 tx_level_val, tx_level_dbm, ed_threshold, reg_dom_id, hw_encrypt_enabled,
                 acx, clean, history>>

\* The keys go before the network they are for.
OpBssInfoChanged ==
  /\ Idle
  /\ \/ phase = "configured" /\ BssInfoChanged(mac.bssid, mac.beacon)
     \/ /\ phase = "up" /\ mac.type = "sta"
        /\ \E bs \in Peers \cup {Zero} :
             /\ clean \/ bs = Zero
             /\ bs # mac.bssid => mac.keys = {}
             /\ BssInfoChanged(bs, 0)
     \/ phase = "up" /\ mac.type = "ap" /\ clean /\
        \E b \in 1..2 : BssInfoChanged(IF ApBssidTold THEN mac.bssid ELSE bssid, b)

\* acx_op_set_key: only CCMP is left to the adapter, and no other cipher may be used
\* with it; what is no key that the driver knows is said to be set.
SetKey(k, add) ==
  /\ hw_encrypt_enabled' = (hw_encrypt_enabled /\ k = "CCMP")
  /\ todo' = IF k # "CCMP" THEN UpdateHwEncryption(FALSE)
             ELSE When(hw_encrypt_enabled,
                       <<Cmd("keys", IF add THEN acx.keys \cup {k} ELSE acx.keys \ {k})>>)
  /\ LET taken == (k = "CCMP" /\ hw_encrypt_enabled) \/ k = "CMAC"
     IN  mac' = [mac EXCEPT !.keys = IF add /\ taken THEN @ \cup {k} ELSE @ \ {k},
                            !.again = @ \ {k}]
  /\ mixed' = (mixed \/ k = "CMAC" \/ (k = "TKIP" /\ mac.keys # {}))
  /\ phase' = IF mac.again \subseteq {k} THEN "up" ELSE "keys"
  /\ UNCHANGED <<card, HW_UP, vif, mode, channel, tx_enabled, rx_enabled, bssid, dev_addr,
                 tx_level_val, tx_level_dbm, ed_threshold, reg_dom_id, acx, clean, moved>>

\* What the driver refuses mac80211 encrypts itself, and does not take back.
OpSetKey ==
  /\ Idle
  /\ \/ phase = "up" /\ OnAir /\ clean /\ \E k \in Keys \ mac.keys : SetKey(k, TRUE)
     \/ phase = "up" /\ \E k \in mac.keys : SetKey(k, FALSE)
     \/ phase = "keys" /\ \E k \in mac.again : SetKey(k, TRUE)

\* acx_dbgfs_write_reg_domain; the adapter is not told of another channel.
WriteRegDomain(d) ==
  /\ Idle /\ phase = "up" /\ clean
  /\ reg_dom_id' = SaneDomain(d)
  /\ channel' = SaneChannel(channel, d)
  /\ moved' = (moved \/ channel' # channel)
  /\ todo' = UpdateRegDomain(d)
  /\ UNCHANGED <<card, HW_UP, vif, mode, tx_enabled, rx_enabled, bssid, dev_addr,
                 tx_level_val, tx_level_dbm, ed_threshold, hw_encrypt_enabled, acx, clean,
                 mixed, mac, phase>>

\* acx_remove_interface
RemoveInterface ==
  /\ vif' = "none" /\ mode' = "off"
  /\ tx_enabled' = FALSE /\ rx_enabled' = FALSE
  /\ todo' = UpdateMode("off", channel)
  /\ UNCHANGED <<card, bssid, dev_addr, tx_level_val, tx_level_dbm, ed_threshold, reg_dom_id,
                 hw_encrypt_enabled, acx, clean, history>>

\* A station leaves its network before its interface goes, and its keys go before.
OpRemoveInterface ==
  /\ Idle /\ phase = "up" /\ (mac.type = "sta" => mac.bssid = Zero) /\ mac.keys = {}
  /\ RemoveInterface
  /\ phase' = "removed"
  /\ UNCHANGED <<HW_UP, channel, mac>>

\* acx_op_stop: with channel 1 the driver starts again.
OpStop ==
  /\ Idle /\ phase = "removed"
  /\ HW_UP' = FALSE /\ channel' = 1
  /\ phase' = "down"
  /\ UNCHANGED <<card, vif, mode, tx_enabled, rx_enabled, bssid, dev_addr, tx_level_val,
                 tx_level_dbm, ed_threshold, reg_dom_id, hw_encrypt_enabled, acx, todo, clean,
                 history, mac>>

\* acx_recover_hw, of the watchdog: mac80211 restarts with what it has.
Recover ==
  /\ Idle /\ phase = "up" /\ vif # "none"
  /\ RemoveInterface
  /\ HW_UP' = FALSE /\ channel' = 1
  /\ mac' = [mac EXCEPT !.restart = TRUE, !.keys = {}, !.again = mac.keys]
  /\ phase' = "down"

\* acx_recalib_radio
Recalib ==
  /\ Idle /\ HW_UP /\ clean /\ card = "acx100"
  /\ todo' = <<Needed("tx", channel), Needed("rx", channel)>>
  /\ UNCHANGED <<card, driver, acx, clean, history, mac, phase>>

Next ==
  \/ IssueCmdOk \/ IssueCmdFails
  \/ OpStart \/ OpAddInterface \/ OpConfig \/ OpBssInfoChanged \/ OpSetKey
  \/ \E d \in Domains : WriteRegDomain(d)
  \/ OpRemoveInterface \/ OpStop
  \/ Recover \/ Recalib

Spec == Init /\ [][Next]_vars
-------------------------------------------------------------------------------
\* The adapter's settings and their values.
AcxValues ==
  [tx |-> Channels \cup {0}, rx |-> Channels \cup {0}, rxConfig |-> Modes \cup {"off"},
   level |-> 1..5, addr |-> Addrs, ed |-> Thresholds,
   joined |-> [bssid : Addrs \cup Peers \cup {Zero}, mode : Modes \cup {"off"},
               channel : Channels \cup {0}],
   beacon |-> 0..2, probe |-> 0..2, tim |-> 0..2,
   domain |-> DOMAIN DomainMask, noTxCrypt |-> BOOLEAN, keys |-> SUBSET {"CCMP"}]

Fields == DOMAIN AcxValues

Commands == UNION {[ie : {f}, val : AcxValues[f], needed : BOOLEAN] : f \in Fields}

MacType ==
  [type : Modes \cup {"none"}, addr : Addrs, channel : Channels,
   power : 0..TX_CFG_MAX_DBM_POWER, bssid : Addrs \cup Peers \cup {Zero}, beacon : 0..2,
   keys : SUBSET Keys, again : SUBSET Keys, restart : BOOLEAN]

TypeOK ==
  /\ card \in Cards /\ HW_UP \in BOOLEAN
  /\ vif \in Modes \cup {"none"} /\ mode \in Modes \cup {"off"} /\ channel \in Channels
  /\ tx_enabled \in BOOLEAN /\ rx_enabled \in BOOLEAN
  /\ bssid \in Addrs \cup Peers \cup {Zero} /\ dev_addr \in Addrs
  /\ tx_level_val \in 1..Levels /\ tx_level_dbm \in 0..TX_CFG_MAX_DBM_POWER
  /\ ed_threshold \in Thresholds
  /\ acx = [f \in Fields |-> acx[f]] /\ \A f \in Fields : acx[f] \in AcxValues[f]
  /\ todo \in Seq(Commands)
  /\ reg_dom_id \in DOMAIN DomainMask /\ hw_encrypt_enabled \in BOOLEAN
  /\ clean \in BOOLEAN /\ moved \in BOOLEAN /\ mixed \in BOOLEAN
  /\ mac \in MacType
  /\ phase \in {"down", "started", "added", "configured", "keys", "up", "removed"}

\* mac80211 has told all, and every command since the start was carried out.
Settled == Idle /\ phase = "up" /\ clean

\* The adapter sends and receives on mac80211's channel, with the receiver set up
\* for the type of its interface, whatever was there before and however often it
\* was reset; unless the driver has left the channel for a new domain.
RadioAsTold ==
  Settled => /\ ~moved => acx.tx = mac.channel /\ acx.rx = mac.channel
             /\ acx.rxConfig = mac.type

\* It answers to the address of the interface, also when the interface is added
\* again with an address the driver knows already.
AddressAsTold == Settled => acx.addr = mac.addr

\* It is in the network that mac80211 has named, in its mode and on its channel.
JoinedAsTold ==
  Settled /\ OnAir /\ ~moved =>
    acx.joined = [bssid |-> mac.bssid, mode |-> mac.type, channel |-> mac.channel]

\* It sends the current beacon and a probe response of the same contents.
BeaconAsTold ==
  Settled /\ mac.beacon # 0 =>
    /\ acx.beacon = mac.beacon /\ acx.probe = mac.beacon
    /\ card # "acx100" => acx.tim = mac.beacon

\* It is in the domain that was written last, also when nobody has written since.
DomainAsTold == Settled => acx.domain = reg_dom_id

\* When mac80211 has told all and nothing has failed, the adapter is set as told, in
\* whatever order it was told, however often the adapter was reset and forgot, and
\* however little the driver believed changed.
SetAsTold ==
  /\ TypeOK /\ RadioAsTold /\ AddressAsTold
  /\ JoinedAsTold /\ BeaconAsTold /\ DomainAsTold

\* The adapter encrypts or does not as the driver believes, by which it chooses queues
\* and marks received frames; while it does, it has the keys that mac80211 leaves to
\* it, and, where a reset makes it forget, no others; and unless ciphers were mixed it
\* does when mac80211 counts on it.
KeysAsTold ==
  Settled => /\ card # "acx100" => acx.noTxCrypt = ~hw_encrypt_enabled
             /\ hw_encrypt_enabled =>
                  mac.keys \subseteq acx.keys /\ (card # "vlynq" => acx.keys = mac.keys)
             /\ mac.keys # {} /\ ~mixed => hw_encrypt_enabled

\* "Find closest match": no power level is nearer to what was asked for.
LevelIsClosest ==
  Settled =>
    LET Dist(l) == IF l * Dpl >= mac.power THEN l * Dpl - mac.power ELSE mac.power - l * Dpl
    IN  /\ acx.level = tx_level_val
        /\ \A l \in 1..Levels : Dist(Levels - tx_level_val + 1) <= Dist(l)

\* "Rx should be disabled before changing rx_config."
RxOffForConfig == [][clean /\ acx'.rxConfig # acx.rxConfig => acx.rx = 0 \/ acx' = AcxReset]_vars
-------------------------------------------------------------------------------
(* The inductive invariant of the four properties above *)

\* The last command of q for the setting f sets it to v; q has none for f.
Sets(q, f, v) ==
  \E i \in DOMAIN q : /\ q[i].ie = f /\ q[i].val = v
                      /\ \A j \in DOMAIN q : j > i => q[j].ie # f
Leaves(q, f) == \A i \in DOMAIN q : q[i].ie # f

\* The setting f is v once the commands under way are carried out.
After(q, a, f, v) == Sets(q, f, v) \/ (Leaves(q, f) /\ a[f] = v)
WillBe(f, v) == After(todo, acx, f, v)

\* A command that sets rxConfig comes right after one that switches reception off.
Careful(q) ==
  \A i \in DOMAIN q : q[i].ie = "rxConfig" => i > 1 /\ q[i - 1].ie = "rx" /\ q[i - 1].val = 0

RxOffBefore ==
  \A i \in DOMAIN todo :
    todo[i].ie = "rxConfig" =>
      IF i = 1 THEN acx.rx = 0 ELSE todo[i - 1].ie = "rx" /\ todo[i - 1].val = 0

Told == phase \in {"keys", "up"}
Configured == Told \/ phase = "configured"
Added == Configured \/ phase = "added"

\* What the driver keeps agrees with what mac80211 has.
DriverAsTold ==
  /\ Added => vif = mac.type /\ mode = mac.type /\ mac.type \in Modes
  /\ Added \/ mac.restart => dev_addr = mac.addr /\ mac.type \in Modes
  /\ Configured => /\ ~moved => channel = mac.channel
                   /\ tx_level_val = Levels - Level(mac.power) + 1
  /\ Told \/ phase = "removed" => ~mac.restart
  /\ phase = "configured" => mac.restart
  /\ phase = "added" /\ ~mac.restart => ~OnAir /\ mac.beacon = 0
  /\ IF mac.type = "ap" THEN mac.bssid = mac.addr
     ELSE mac.bssid \in Peers \cup {Zero} /\ mac.beacon = 0
  /\ bssid \in Peers => mac.type = "sta" /\ bssid = mac.bssid
  /\ phase \in {"down", "started", "removed"} /\ ~mac.restart => bssid \notin Peers

\* The adapter has keys only while it encrypts.
KeysAreHardware ==
  /\ ~Told => mac.keys = {}
  /\ hw_encrypt_enabled => card # "acx100" /\ mac.keys \subseteq {"CCMP"}
  /\ mac.keys # {} /\ ~mixed => hw_encrypt_enabled

\* What a start tells the adapter, and every later call corrects.
AcxWillBe ==
  /\ WillBe("domain", reg_dom_id)
  /\ WillBe("level", tx_level_val)
  /\ WillBe("addr", dev_addr)
  /\ card # "acx100" => WillBe("noTxCrypt", ~hw_encrypt_enabled)
  /\ hw_encrypt_enabled =>
       \E K \in SUBSET {"CCMP"} :
         WillBe("keys", K) /\ mac.keys \subseteq K /\ (card # "vlynq" => K = mac.keys)
  /\ Added => WillBe("rxConfig", mac.type)
  /\ Configured /\ ~moved => WillBe("tx", mac.channel) /\ WillBe("rx", mac.channel)

NetworkWillBe ==
  /\ OnAir /\ ~moved /\ (mac.type = "ap" => ApBssidTold) =>
       WillBe("joined", [bssid |-> mac.bssid, mode |-> mac.type, channel |-> mac.channel])
  /\ mac.beacon # 0 =>
       /\ WillBe("beacon", mac.beacon) /\ WillBe("probe", mac.beacon)
       /\ card # "acx100" => WillBe("tim", mac.beacon)

SettingsIInv ==
  /\ TypeOK /\ DriverAsTold /\ KeysAreHardware
  /\ clean => RxOffBefore
  /\ clean /\ phase # "down" => AcxWillBe
  /\ clean /\ Told => NetworkWillBe
-------------------------------------------------------------------------------
(* Sentences of the source that do not hold; no run checks them. *)

\* "Rx should be disabled before changing rx_config", whatever failed before.
RxAlwaysOffForConfig ==
  [][acx'.rxConfig # acx.rxConfig => acx.rx = 0 \/ acx' = AcxReset]_vars

\* Keys that mac80211 was told are in hardware are used there: a second cipher ends the
\* adapter's encryption for the first one too.
KeysAreUsed == Settled /\ mac.keys # {} => hw_encrypt_enabled

\* The adapter is on mac80211's channel, also after a domain was written without it.
ChannelAsTold == Settled => acx.tx = mac.channel

\* "for some settings, e.g. CCA and ED (ACX100!), an initial query is REQUIRED": the
\* energy detect threshold is the one that was queried.
EdAsQueried == Idle /\ clean => acx.ed = ed_threshold
===============================================================================
