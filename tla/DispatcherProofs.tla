-------------------------- MODULE DispatcherProofs --------------------------
(***************************************************************************)
(* Proofs about Dispatcher, for every set of interfaces and gadgets and    *)
(* every number of subnets.                                                *)
(***************************************************************************)
EXTENDS Dispatcher, TLAPS

Rule == [on : Interfaces, kind : Kinds, handle : Nat]

(* The kernel gives every handle once.                                     *)
HandlesDiffer ==
  /\ \A r \in rules : r.handle < handle
  /\ \A q, r \in rules : q.handle = r.handle => q = r

RuleTypes == /\ rules \subseteq Rule
             /\ handle \in Nat
             /\ files \in [Interfaces -> [Kinds -> SUBSET Nat]]

RuleInv == RuleTypes /\ HandlesDiffer /\ RulesOnFile

Filed(i, k) == {r.handle : r \in {q \in rules : q.on = i /\ q.kind = k}}

LEMMA InitRules == Init => RuleInv
  BY DEF Init, RuleInv, RuleTypes, HandlesDiffer, RulesOnFile, Rule

LEMMA NftKeeps ==
  ASSUME RuleInv, NEW i \in Interfaces, NEW k \in Kinds, NftHandleToFile(i, k)
  PROVE  RuleInv'
<1> DEFINE new == [on |-> i, kind |-> k, handle |-> handle]
<1>1. CASE device[i] = "none"
  BY <1>1 DEF NftHandleToFile, firewall, RuleInv, RuleTypes, HandlesDiffer,
              RulesOnFile
<1>2. CASE device[i] # "none"
  <2>1. /\ rules' = rules \cup {new}
        /\ files' = [files EXCEPT ![i][k] = @ \cup {handle}]
        /\ handle' = handle + 1
    BY <1>2 DEF NftHandleToFile
  <2>2. new \in Rule /\ new.handle = handle /\ new.on = i /\ new.kind = k
    BY DEF Rule, RuleInv, RuleTypes
  <2>3. RuleTypes'
    BY <2>1, <2>2 DEF RuleInv, RuleTypes
  <2>4. HandlesDiffer'
    <3>1. \A r \in rules : r.handle \in Nat /\ r.handle < handle
      BY DEF RuleInv, RuleTypes, HandlesDiffer, Rule
    <3> QED
      BY <2>1, <2>2, <3>1 DEF RuleInv, RuleTypes, HandlesDiffer
  <2>5. ASSUME NEW j \in Interfaces, NEW l \in Kinds
        PROVE  files'[j][l] = Filed(j, l)'
    <3>1. files[j][l] = Filed(j, l)
      BY DEF RuleInv, RulesOnFile, Filed
    <3>2. CASE j = i /\ l = k
      <4>1. files'[j][l] = files[j][l] \cup {handle}
        BY <2>1, <3>2 DEF RuleInv, RuleTypes
      <4>2. Filed(j, l)' = Filed(j, l) \cup {handle}
        BY <2>1, <2>2, <3>2 DEF Filed
      <4> QED BY <3>1, <4>1, <4>2
    <3>3. CASE ~(j = i /\ l = k)
      <4>1. files'[j][l] = files[j][l]
        BY <2>1, <3>3 DEF RuleInv, RuleTypes
      <4>2. Filed(j, l)' = Filed(j, l)
        BY <2>1, <2>2, <3>3 DEF Filed
      <4> QED BY <3>1, <4>1, <4>2
    <3> QED BY <3>2, <3>3
  <2> QED BY <2>3, <2>4, <2>5 DEF RuleInv, RulesOnFile, Filed
<1> QED BY <1>1, <1>2

LEMMA RevokeKeeps ==
  ASSUME RuleInv, NEW i \in Interfaces, NEW k \in Kinds, Revoke(i, k)
  PROVE  RuleInv'
<1>1. /\ rules' = {r \in rules : r.handle \notin files[i][k]}
      /\ files' = [files EXCEPT ![i][k] = {}]
      /\ handle' = handle
  BY DEF Revoke
<1>2. rules' = {r \in rules : ~(r.on = i /\ r.kind = k)}
  <2>1. ASSUME NEW r \in rules
        PROVE  r.handle \in files[i][k] <=> r.on = i /\ r.kind = k
    BY DEF RuleInv, RulesOnFile, HandlesDiffer
  <2> QED BY <1>1, <2>1
<1>3. RuleTypes' /\ HandlesDiffer'
  BY <1>1 DEF RuleInv, RuleTypes, HandlesDiffer
<1>4. ASSUME NEW j \in Interfaces, NEW l \in Kinds
      PROVE  files'[j][l] = Filed(j, l)'
  <2>1. files[j][l] = Filed(j, l)
    BY DEF RuleInv, RulesOnFile, Filed
  <2>2. CASE j = i /\ l = k
    BY <1>1, <1>2, <2>2 DEF Filed, RuleInv, RuleTypes
  <2>3. CASE ~(j = i /\ l = k)
    <3>1. files'[j][l] = files[j][l]
      BY <1>1, <2>3 DEF RuleInv, RuleTypes
    <3>2. Filed(j, l)' = Filed(j, l)
      BY <1>2, <2>3 DEF Filed
    <3> QED BY <2>1, <3>1, <3>2
  <2> QED BY <2>2, <2>3
<1> QED BY <1>3, <1>4 DEF RuleInv, RulesOnFile, Filed

LEMMA RulesUntouched == RuleInv /\ UNCHANGED firewall => RuleInv'
  BY DEF RuleInv, RuleTypes, HandlesDiffer, RulesOnFile, firewall

LEMMA NextRules == RuleInv /\ [Next]_vars => RuleInv'
<1> SUFFICES ASSUME RuleInv, [Next]_vars PROVE RuleInv'
  OBVIOUS
<1>1. ASSUME NEW i \in Interfaces, NEW k \in Kinds, Add(i, k)
      PROVE  RuleInv'
  BY <1>1, NftKeeps DEF Add
<1>2. ASSUME NEW i \in Interfaces, AddProxy(i)
      PROVE  RuleInv'
  BY <1>2, NftKeeps DEF AddProxy, Kinds
<1>3. ASSUME NEW i \in Interfaces, NEW k \in Kinds, Revoke(i, k)
      PROVE  RuleInv'
  BY <1>3, RevokeKeeps
<1>4. ASSUME NEW i \in Interfaces, NEW e \in {"pre-up", "up", "down"},
             Begin(i, e)
      PROVE  RuleInv'
  BY <1>4, RulesUntouched DEF Begin
<1>5. ASSUME NEW i \in Interfaces, NEW w \in {"dhcp", "internet"},
             WaitOver(i, w) \/ Killed(i, w)
      PROVE  RuleInv'
  BY <1>5, RulesUntouched DEF WaitOver, Killed
<1>6. ASSUME NEW i \in Interfaces, Tether(i)
      PROVE  RuleInv'
  BY <1>6, RulesUntouched DEF Tether
<1>7. CASE Manager
  BY <1>7, RulesUntouched DEF Manager, StartScript, Plug, Unplug, Connect,
                              Prepared, Disconnect, inside
<1>8. CASE UNCHANGED vars
  BY <1>8, RulesUntouched DEF vars
<1> QED BY <1>1, <1>2, <1>3, <1>4, <1>5, <1>6, <1>7, <1>8 DEF Next, Script

(* What is in the kernel can always be removed: the files of handles and   *)
(* the rules agree (nft_handle_to_file and the revoke functions).          *)
THEOREM FilesNameTheRules == Spec => []RulesOnFile
<1>1. RuleInv => RulesOnFile
  BY DEF RuleInv
<1> QED BY InitRules, NextRules, <1>1, PTL DEF Spec

-----------------------------------------------------------------------------
(* Networks *)

Addresses == 2..(Subnets + 1)

LEMMA NextCounterSteps ==
  ASSUME NEW c \in Addresses
  PROVE  NextCounter(c) = IF c = Subnets + 1 THEN 2 ELSE c + 1
<1> USE DispatcherAssumption DEF Addresses, NextCounter
<1>1. CASE c = Subnets + 1
  BY <1>1
<1>2. CASE c # Subnets + 1
  <2>1. c - 1 \in 0..(Subnets - 1)
    BY <1>2
  <2>2. (c - 1) % Subnets = c - 1
    BY <2>1
  <2> QED BY <1>2, <2>2
<1> QED BY <1>1, <1>2

(* One network has been given since the counter c told how many were.      *)
NetworkTypes == /\ counter \in Addresses \cup {0}
                /\ given \in Nat
                /\ network \in [Interfaces -> Addresses \cup {0}]
                /\ since \in [Interfaces -> Nat]
                /\ \A i \in Interfaces : since[i] <= given
                /\ counter = 0 => \A i \in Interfaces : network[i] = 0

(* How far the counter has gone since i was given its network tells how    *)
(* many networks have been given, as long as it has not gone round.        *)
CounterTells ==
  \A i \in Interfaces :
    network[i] # 0 /\ given - since[i] < Subnets =>
      \/ counter - network[i] = given - since[i]
      \/ counter - network[i] = given - since[i] - Subnets

NetworkInv == NetworkTypes /\ CounterTells /\ NetworksApart

LEMMA InitNetworks == Init => NetworkInv
  BY DispatcherAssumption
     DEF Init, NetworkInv, NetworkTypes, CounterTells, NetworksApart

LEMMA AddProxyKeeps ==
  ASSUME NetworkInv, NEW i \in Interfaces, AddProxy(i)
  PROVE  NetworkInv'
<1> USE DispatcherAssumption
<1>1. /\ given' = given + 1
      /\ network' = [network EXCEPT ![i] = counter']
      /\ since' = [since EXCEPT ![i] = given']
  BY DEF AddProxy
<1>2. PICK c \in IF counter = 0 THEN 2..Subnets ELSE {counter} :
        counter' = NextCounter(c)
  BY DEF AddProxy
<1>3. c \in Addresses
  BY <1>2 DEF Addresses, NetworkInv, NetworkTypes
<1>4. counter' = IF c = Subnets + 1 THEN 2 ELSE c + 1
  BY <1>2, <1>3, NextCounterSteps
<1>5. counter' \in Addresses /\ counter' # 0
  BY <1>3, <1>4 DEF Addresses
<1>6. NetworkTypes'
  BY <1>1, <1>5 DEF NetworkInv, NetworkTypes
<1>7. network'[i] = counter' /\ since'[i] = given'
  BY <1>1 DEF NetworkInv, NetworkTypes
<1>8. ASSUME NEW j \in Interfaces, j # i
      PROVE  network'[j] = network[j] /\ since'[j] = since[j]
  BY <1>1, <1>8 DEF NetworkInv, NetworkTypes
<1>9. ASSUME NEW j \in Interfaces, network[j] # 0
      PROVE  /\ counter # 0 /\ c = counter
             /\ network[j] \in Addresses /\ since[j] \in Nat
             /\ since[j] <= given /\ given \in Nat
  BY <1>2, <1>9 DEF NetworkInv, NetworkTypes
<1>10. ASSUME NEW j \in Interfaces, j # i, network[j] # 0,
              given + 1 - since[j] < Subnets + 1
       PROVE  \/ counter' - network[j] = given + 1 - since[j]
              \/ counter' - network[j] = given + 1 - since[j] - Subnets
  <2>1. given - since[j] < Subnets
    BY <1>9, <1>10
  <2>2. \/ counter - network[j] = given - since[j]
        \/ counter - network[j] = given - since[j] - Subnets
    BY <1>10, <2>1 DEF NetworkInv, CounterTells
  <2>3. /\ c = counter /\ network[j] \in Addresses /\ since[j] \in Nat
        /\ given \in Nat /\ since[j] <= given
    BY <1>9, <1>10
  <2>4. /\ counter \in Int /\ network[j] \in Int /\ Subnets \in Int
        /\ since[j] \in Int /\ given \in Int /\ network[j] <= Subnets + 1
    BY <1>3, <2>3 DEF Addresses
  <2>5. CASE counter = Subnets + 1
    <3>1. counter' = 2
      BY <1>4, <2>3, <2>5
    <3>2. counter - network[j] = given - since[j]
      BY ONLY <2>1, <2>2, <2>4, <2>5
    <3> QED BY ONLY <2>4, <2>5, <3>1, <3>2
  <2>6. CASE counter # Subnets + 1
    <3>1. counter' = counter + 1
      BY <1>4, <2>3, <2>6
    <3> QED BY ONLY <2>2, <2>4, <3>1
  <2> QED BY <2>5, <2>6
<1>11. CounterTells'
  <2> SUFFICES ASSUME NEW j \in Interfaces, network'[j] # 0,
                      given' - since'[j] < Subnets
               PROVE  \/ counter' - network'[j] = given' - since'[j]
                      \/ counter' - network'[j] = given' - since'[j] - Subnets
    BY DEF CounterTells
  <2>1. CASE j = i
    <3>1. counter' \in Int /\ given' \in Int
      BY <1>1, <1>5 DEF Addresses, NetworkInv, NetworkTypes
    <3>2. counter' - network'[j] = 0 /\ given' - since'[j] = 0
      BY <1>7, <2>1, <3>1
    <3> QED BY <3>2
  <2>2. CASE j # i
    <3>1. network[j] # 0 /\ network'[j] = network[j] /\ since'[j] = since[j]
      BY <2>2, <1>8
    <3>2. since[j] \in Nat /\ given \in Nat
      BY <1>9, <3>1
    <3>3. given + 1 - since[j] < Subnets + 1
      BY <1>1, <3>1, <3>2
    <3>4. given' = given + 1
      BY ONLY <1>1
    <3>5. \/ counter' - network[j] = given + 1 - since[j]
          \/ counter' - network[j] = given + 1 - since[j] - Subnets
      BY <2>2, <1>10, <3>1, <3>3
    <3>6. counter' \in Int /\ network[j] \in Int /\ Subnets \in Int
      BY <1>5, <1>9, <3>1 DEF Addresses
    <3> QED BY ONLY <3>1, <3>2, <3>4, <3>5, <3>6
  <2> QED BY <2>1, <2>2
<1>12. ASSUME NEW j \in Interfaces, j # i, network[j] = counter'
       PROVE  given' >= since[j] + Subnets
  <2>1. network[j] # 0
    BY <1>5, <1>12
  <2>2. CASE given + 1 - since[j] < Subnets + 1
    <3>1. /\ since[j] \in Int /\ given \in Int /\ counter' \in Int
          /\ since[j] <= given
      BY <1>5, <1>9, <2>1 DEF Addresses
    <3>2. \/ counter' - network[j] = given + 1 - since[j]
          \/ counter' - network[j] = given + 1 - since[j] - Subnets
      BY <1>10, <1>12, <2>1, <2>2
    <3>3. \A m \in Int : m - m = 0
      OBVIOUS
    <3>4. counter' - network[j] = 0
      BY <1>12, <3>1, <3>3
    <3> QED BY <1>1, <3>1, <3>2, <3>4
  <2>3. CASE ~(given + 1 - since[j] < Subnets + 1)
    BY <1>1, <1>9, <2>1, <2>3
  <2> QED BY <2>2, <2>3
<1>13. NetworksApart'
  <2> SUFFICES ASSUME NEW j \in Interfaces, NEW k \in Interfaces, j # k,
                      network'[j] # 0, network'[j] = network'[k]
               PROVE  \/ since'[j] >= since'[k] + Subnets
                      \/ since'[k] >= since'[j] + Subnets
    BY DEF NetworksApart
  <2>1. CASE j = i
    BY <2>1, <1>7, <1>8, <1>12
  <2>2. CASE k = i
    BY <2>2, <1>7, <1>8, <1>12
  <2>3. CASE j # i /\ k # i
    BY <2>3, <1>8 DEF NetworkInv, NetworksApart
  <2> QED BY <2>1, <2>2, <2>3
<1> QED BY <1>6, <1>11, <1>13 DEF NetworkInv

LEMMA NetworksUntouched ==
  NetworkInv /\ UNCHANGED <<counter, network, given, since>> => NetworkInv'
  BY DEF NetworkInv, NetworkTypes, CounterTells, NetworksApart

LEMMA NextNetworks == NetworkInv /\ [Next]_vars => NetworkInv'
<1> SUFFICES ASSUME NetworkInv, [Next]_vars PROVE NetworkInv'
  OBVIOUS
<1>1. ASSUME NEW i \in Interfaces, AddProxy(i)
      PROVE  NetworkInv'
  BY <1>1, AddProxyKeeps
<1>2. ASSUME NEW i \in Interfaces, NEW k \in Kinds, Add(i, k) \/ Revoke(i, k)
      PROVE  NetworkInv'
  BY <1>2, NetworksUntouched DEF Add, Revoke, networks
<1>3. ASSUME NEW i \in Interfaces, NEW e \in {"pre-up", "up", "down"},
             Begin(i, e)
      PROVE  NetworkInv'
  BY <1>3, NetworksUntouched DEF Begin, networks
<1>4. ASSUME NEW i \in Interfaces, NEW w \in {"dhcp", "internet"},
             WaitOver(i, w) \/ Killed(i, w)
      PROVE  NetworkInv'
  BY <1>4, NetworksUntouched DEF WaitOver, Killed, networks
<1>5. ASSUME NEW i \in Interfaces, Tether(i)
      PROVE  NetworkInv'
  BY <1>5, NetworksUntouched DEF Tether, networks
<1>6. CASE Manager
  BY <1>6, NetworksUntouched DEF Manager, StartScript, Plug, Unplug, Connect,
                                 Prepared, Disconnect, inside, networks
<1>7. CASE UNCHANGED vars
  BY <1>7, NetworksUntouched DEF vars, networks
<1> QED BY <1>1, <1>2, <1>3, <1>4, <1>5, <1>6, <1>7 DEF Next, Script

(* No two interfaces get one network (proxy_access_on) before all networks *)
(* have been given out.                                                    *)
THEOREM NetworksStayApart == Spec => []NetworksApart
<1>1. NetworkInv => NetworksApart
  BY DEF NetworkInv
<1> QED BY InitNetworks, NextNetworks, <1>1, PTL DEF Spec

-----------------------------------------------------------------------------
(* "down"                                                                  *)

Agenda == [do   : {"begin", "add", "revoke", "wait", "tether"},
           on   : Interfaces,
           what : Kinds \cup {"pre-up", "up", "down", "gadgets"}]

Events == {s \in Agenda : s.do = "begin" /\ s.what \in {"pre-up", "up", "down"}}

DownTypes ==
  /\ todo \in Seq(Agenda) /\ events \in Seq(Events)
  /\ device \in [Interfaces -> {"wan", "lan", "none"}]
  /\ ports \in [Interfaces -> SUBSET {"wan", "lan"}]
  /\ marked \subseteq Interfaces
  /\ roles \in [Interfaces -> SUBSET {"wan", "lan"}]
  /\ dnsmasq \in [Interfaces -> SUBSET Nat] /\ pidfile \in [Interfaces -> Nat]
  /\ given \in Nat

(* What is behind a name has been behind it, and so has what made its      *)
(* mark; a gadget's name never had a WAN port.                             *)
PortsKnown ==
  \A i \in Interfaces : /\ device[i] # "none" => device[i] \in ports[i]
                        /\ i \in marked => "wan" \in ports[i]
                        /\ i \notin Plugged => ports[i] \subseteq {"lan"}

(* The names that were those of WAN ports, or of LAN ports, or were taken  *)
(* for such.                                                               *)
WanNames == {i \in Interfaces : IF Guessing THEN "wan" \in roles[i]
                                ELSE i \in marked}

LanNames == {i \in Interfaces : IF Guessing THEN "lan" \in roles[i]
                                ELSE "lan" \in ports[i]}

(* What a WAN port is given is on names of WAN ports only, what a LAN port *)
(* is given on those of LAN ports; the file names the only dnsmasq.        *)
RulesTell ==
  \A r \in rules : /\ r.kind \in {"dhcp", "internet"} => r.on \in WanNames
                   /\ r.kind = "proxy" => r.on \in LanNames

ServersTell == \A i \in Interfaces :
                 /\ dnsmasq[i] # {} => i \in LanNames
                 /\ i \in doubled \/ dnsmasq[i] \subseteq {pidfile[i]}

(* A step is about to give a name only what its port may have; nothing is  *)
(* left to do behind a step that starts something new.                     *)
Fits(s) ==
  /\ s.do = "add" /\ s.what \in {"dhcp", "internet"} => s.on \in WanNames
  /\ s.do = "add" /\ s.what = "proxy" =>
       s.on \in LanNames \/ device[s.on] = "none"

StepsFit == \A k \in DOMAIN todo : Fits(todo[k])

Mild(s) == s.do # "begin" /\ s.what # "proxy"

StepsInOrder ==
  \A k \in DOMAIN todo :
    /\ todo[k].do = "tether" => k = Len(todo)
    /\ todo[k].do = "begin" /\ todo[k].what # "pre-up" => Len(todo) = 1
    /\ todo[k].do = "wait" => \A m \in DOMAIN todo : Mild(todo[m])

Goes(what) == \E k \in DOMAIN todo : todo[k].what = what

(* What is left of "down" revokes all that i still has.                    *)
Cleaning(i) ==
  /\ \A k \in DOMAIN todo : todo[k].do = "revoke" /\ todo[k].on = i
  /\ Mixed(i) \/ \A r \in rules : r.on = i => Goes(r.kind)
  /\ Mixed(i) \/ i \in doubled \/ dnsmasq[i] = {} \/ Goes("proxy")

DownOrdered ==
  \A i \in Interfaces :
    running = Step("begin", "down", i) /\ todo # <<>> =>
      todo = <<running>> \/ Cleaning(i)

DownInv == /\ RuleInv /\ DownTypes
           /\ PortsKnown /\ RulesTell /\ ServersTell
           /\ StepsFit /\ StepsInOrder /\ DownOrdered

(* What WanNames, LanNames and Mixed read.                                  *)
LEMMA SameKinds ==
  ASSUME UNCHANGED <<marks, ports>>
  PROVE  /\ UNCHANGED <<marked, roles>> /\ Guessing' = Guessing
         /\ WanNames' = WanNames /\ LanNames' = LanNames
         /\ \A i : Mixed(i)' = Mixed(i)
  BY DEF marks, Guessing, WanNames, LanNames, Mixed

(* What was told of rules and of dnsmasq is told as long as both stay and  *)
(* the names keep what they were.                                          *)
LEMMA StillTell ==
  ASSUME DownInv, rules' = rules, UNCHANGED <<dnsmasq, pidfile, doubled>>,
         WanNames \subseteq WanNames', LanNames \subseteq LanNames'
  PROVE  RulesTell' /\ ServersTell'
  BY DEF DownInv, RulesTell, ServersTell

LEMMA InitDown == Init => DownInv
<1> SUFFICES ASSUME Init PROVE DownInv
  OBVIOUS
<1>1. RuleInv
  BY InitRules
<1>2. DownTypes
  BY DEF Init, DownTypes
<1>3. PortsKnown /\ RulesTell /\ ServersTell
  BY DEF Init, PortsKnown, RulesTell, ServersTell
<1>4. StepsFit /\ StepsInOrder /\ DownOrdered
  BY DEF Init, StepsFit, StepsInOrder, DownOrdered
<1> QED BY <1>1, <1>2, <1>3, <1>4 DEF DownInv

(* The steps of a script                                                   *)

LEMMA TailSteps ==
  ASSUME NEW s \in Seq(Agenda), s # <<>>
  PROVE  /\ Tail(s) \in Seq(Agenda) /\ Len(Tail(s)) = Len(s) - 1
         /\ \A k \in DOMAIN Tail(s) : k + 1 \in DOMAIN s /\ Tail(s)[k] = s[k + 1]
         /\ \A k \in DOMAIN s : k # 1 => /\ k - 1 \in DOMAIN Tail(s)
                                         /\ s[k] = Tail(s)[k - 1]
         /\ 1 \in DOMAIN s /\ Head(s) = s[1] /\ Head(s) \in Agenda
  OBVIOUS

LEMMA StepsOfOne ==
  ASSUME NEW s \in Agenda
  PROVE  /\ <<s>> \in Seq(Agenda) /\ Len(<<s>>) = 1
         /\ DOMAIN <<s>> = {1} /\ <<s>>[1] = s /\ Tail(<<s>>) = <<>>
  OBVIOUS

(* A step of the script that leaves it the rest.                           *)
LEMMA FitShorter ==
  ASSUME DownTypes, StepsFit, StepsInOrder, todo # <<>>, todo' = Tail(todo),
         UNCHANGED <<marks, ports>>, device' = device
  PROVE  StepsFit' /\ StepsInOrder'
<1>1. \A k \in DOMAIN todo' : k + 1 \in DOMAIN todo /\ todo'[k] = todo[k + 1]
  BY TailSteps DEF DownTypes
<1>2. Len(todo') = Len(todo) - 1 /\ Len(todo) \in Nat
  BY TailSteps DEF DownTypes
<1>3. StepsFit'
  BY <1>1, SameKinds DEF StepsFit, Fits
<1>4. DOMAIN todo' = 1..Len(todo') /\ DOMAIN todo = 1..Len(todo)
  BY TailSteps DEF DownTypes
<1>5. ASSUME NEW k \in DOMAIN todo'
      PROVE  /\ todo'[k].do = "tether" => k = Len(todo')
             /\ todo'[k].do = "begin" /\ todo'[k].what # "pre-up" =>
                  Len(todo') = 1
             /\ todo'[k].do = "wait" =>
                  \A m \in DOMAIN todo' : Mild(todo'[m])
  <2>1. k + 1 \in DOMAIN todo /\ todo'[k] = todo[k + 1] /\ k \in Nat /\ k >= 1
    BY <1>1, <1>4
  <2>2. todo'[k].do = "tether" => k = Len(todo')
    BY <2>1, <1>2 DEF StepsInOrder
  <2>3. ~(todo'[k].do = "begin" /\ todo'[k].what # "pre-up")
    <3>1. Len(todo) # 1
      BY <1>4, <2>1
    <3> QED BY <2>1, <3>1 DEF StepsInOrder
  <2>4. todo'[k].do = "wait" => \A m \in DOMAIN todo' : Mild(todo'[m])
    BY <1>1, <2>1 DEF StepsInOrder
  <2> QED BY <2>2, <2>3, <2>4
<1>6. StepsInOrder'
  BY <1>5 DEF StepsInOrder, Mild
<1> QED BY <1>3, <1>6


(* What a call plans.                                                      *)
Planned(s, e, role, i) ==
  /\ s.on = i /\ s.do # "begin"
  /\ e = "pre-up" => /\ s.do = "add"
                     /\ s.what = "dhcp" => role = "wan"
                     /\ s.what = "proxy" => role = "lan"
                     /\ s.what # "internet"
  /\ e = "down" => s.do = "revoke"
  /\ e = "up" => /\ role = "wan" /\ Mild(s)
                 /\ s.do = "add" => s.what = "internet"

LEMMA StepIs ==
  ASSUME NEW do \in {"begin", "add", "revoke", "wait", "tether"},
         NEW what \in Kinds \cup {"pre-up", "up", "down", "gadgets"},
         NEW i \in Interfaces
  PROVE  /\ Step(do, what, i) \in Agenda
         /\ Step(do, what, i).do = do /\ Step(do, what, i).on = i
         /\ Step(do, what, i).what = what
  BY DEF Step, Agenda

LEMMA PlanSteps ==
  ASSUME NEW e \in {"pre-up", "up", "down"}, NEW role \in {"wan", "lan"},
         NEW i \in Interfaces
  PROVE  /\ Plan(e, role, i) \in Seq(Agenda)
         /\ \A k \in DOMAIN Plan(e, role, i) :
              /\ Planned(Plan(e, role, i)[k], e, role, i)
              /\ Plan(e, role, i)[k].do = "tether" => k = Len(Plan(e, role, i))
<1> DEFINE p == Plan(e, role, i)
<1>1. CASE e = "pre-up" /\ role = "wan"
  <2>1. p = [k \in {1, 2} |-> Step("add", <<"dhcp", "arp">>[k], i)]
    BY <1>1 DEF Plan, Each, Granted
  <2>2. /\ p[1] = Step("add", "dhcp", i)
        /\ p[2] = Step("add", "arp", i)
    BY <2>1
  <2>3. DOMAIN p = {1, 2} /\ p = [k \in 1..2 |-> p[k]]
    BY <2>1
  <2> HIDE DEF p
  <2>4. \A k \in {1, 2} :
          /\ p[k] \in Agenda
          /\ Planned(p[k], e, role, i)
          /\ p[k].do # "tether"
    BY <1>1, <2>2, StepIs DEF Kinds, Planned, Mild
  <2>5. p \in Seq(Agenda)
    BY <2>3, <2>4
  <2> QED BY <2>3, <2>4, <2>5 DEF p
<1>2. CASE e = "pre-up" /\ role = "lan"
  <2>1. p = [k \in {1, 2} |-> Step("add", <<"proxy", "arp">>[k], i)]
    BY <1>2 DEF Plan, Each, Granted
  <2>2. /\ p[1] = Step("add", "proxy", i)
        /\ p[2] = Step("add", "arp", i)
    BY <2>1
  <2>3. DOMAIN p = {1, 2} /\ p = [k \in 1..2 |-> p[k]]
    BY <2>1
  <2> HIDE DEF p
  <2>4. \A k \in {1, 2} :
          /\ p[k] \in Agenda
          /\ Planned(p[k], e, role, i)
          /\ p[k].do # "tether"
    BY <1>2, <2>2, StepIs DEF Kinds, Planned, Mild
  <2>5. p \in Seq(Agenda)
    BY <2>3, <2>4
  <2> QED BY <2>3, <2>4, <2>5 DEF p
<1>3. CASE e = "down" /\ role = "wan"
  <2>1. p = [k \in {1, 2, 3} |->
               Step("revoke", <<"dhcp", "arp", "internet">>[k], i)]
    BY <1>3 DEF Plan, Each, Revoked
  <2>2. /\ p[1] = Step("revoke", "dhcp", i)
        /\ p[2] = Step("revoke", "arp", i)
        /\ p[3] = Step("revoke", "internet", i)
    BY <2>1
  <2>3. DOMAIN p = {1, 2, 3} /\ p = [k \in 1..3 |-> p[k]]
    BY <2>1
  <2> HIDE DEF p
  <2>4. \A k \in {1, 2, 3} :
          /\ p[k] \in Agenda
          /\ Planned(p[k], e, role, i)
          /\ p[k].do # "tether"
    BY <1>3, <2>2, StepIs DEF Kinds, Planned, Mild
  <2>5. p \in Seq(Agenda)
    BY <2>3, <2>4
  <2> QED BY <2>3, <2>4, <2>5 DEF p
<1>4. CASE e = "down" /\ role = "lan"
  <2>1. p = [k \in {1, 2} |-> Step("revoke", <<"proxy", "arp">>[k], i)]
    BY <1>4 DEF Plan, Each, Revoked
  <2>2. /\ p[1] = Step("revoke", "proxy", i)
        /\ p[2] = Step("revoke", "arp", i)
    BY <2>1
  <2>3. DOMAIN p = {1, 2} /\ p = [k \in 1..2 |-> p[k]]
    BY <2>1
  <2> HIDE DEF p
  <2>4. \A k \in {1, 2} :
          /\ p[k] \in Agenda
          /\ Planned(p[k], e, role, i)
          /\ p[k].do # "tether"
    BY <1>4, <2>2, StepIs DEF Kinds, Planned, Mild
  <2>5. p \in Seq(Agenda)
    BY <2>3, <2>4
  <2> QED BY <2>3, <2>4, <2>5 DEF p
<1>5. CASE e = "up" /\ role = "wan"
  <2>1. p = <<Step("wait", "dhcp", i), Step("revoke", "dhcp", i),
              Step("add", "internet", i), Step("wait", "internet", i),
              Step("tether", "gadgets", i)>>
    BY <1>5 DEF Plan
  <2> HIDE DEF p
  <2>2. /\ p[1] = Step("wait", "dhcp", i) /\ p[2] = Step("revoke", "dhcp", i)
        /\ p[3] = Step("add", "internet", i) /\ p[4] = Step("wait", "internet", i)
        /\ p[5] = Step("tether", "gadgets", i)
    BY <2>1
  <2>3. DOMAIN p = 1..5 /\ Len(p) = 5
    BY <2>1
  <2>4. p[1] \in Agenda /\ Planned(p[1], e, role, i) /\ p[1].do # "tether"
    BY <1>5, <2>2, StepIs DEF Kinds, Planned, Mild
  <2>5. p[2] \in Agenda /\ Planned(p[2], e, role, i) /\ p[2].do # "tether"
    BY <1>5, <2>2, StepIs DEF Kinds, Planned, Mild
  <2>6. p[3] \in Agenda /\ Planned(p[3], e, role, i) /\ p[3].do # "tether"
    BY <1>5, <2>2, StepIs DEF Kinds, Planned, Mild
  <2>7. p[4] \in Agenda /\ Planned(p[4], e, role, i) /\ p[4].do # "tether"
    BY <1>5, <2>2, StepIs DEF Kinds, Planned, Mild
  <2>8. p[5] \in Agenda /\ Planned(p[5], e, role, i)
    BY <1>5, <2>2, StepIs DEF Kinds, Planned, Mild
  <2>9. p \in Seq(Agenda)
    BY <2>1, StepIs DEF Kinds
  <2>10. \A k \in DOMAIN p :
           Planned(p[k], e, role, i) /\ (p[k].do = "tether" => k = 5)
    <3>1. \A k \in DOMAIN p : k = 1 \/ k = 2 \/ k = 3 \/ k = 4 \/ k = 5
      BY <2>3
    <3> QED BY <2>4, <2>5, <2>6, <2>7, <2>8, <3>1
  <2> QED BY <2>3, <2>9, <2>10 DEF p
<1>6. CASE e = "up" /\ role = "lan"
  <2>1. p = <<>>
    BY <1>6 DEF Plan
  <2>2. p \in Seq(Agenda) /\ DOMAIN p = {}
    BY <2>1
  <2> HIDE DEF p
  <2> QED BY <2>2 DEF p
<1> QED BY <1>1, <1>2, <1>3, <1>4, <1>5, <1>6

LEMMA ConcatSteps ==
  ASSUME NEW s \in Seq(Agenda), NEW t \in Seq(Agenda)
  PROVE  /\ s \o t \in Seq(Agenda) /\ Len(s \o t) = Len(s) + Len(t)
         /\ DOMAIN (s \o t) = 1..Len(s \o t)
         /\ \A k \in DOMAIN (s \o t) :
              \/ k \in DOMAIN s /\ (s \o t)[k] = s[k]
              \/ /\ k - Len(s) \in DOMAIN t
                 /\ (s \o t)[k] = t[k - Len(s)]
<1>1. s \o t \in Seq(Agenda) /\ Len(s \o t) = Len(s) + Len(t)
  OBVIOUS
<1>2. DOMAIN (s \o t) = 1..Len(s \o t)
  BY <1>1
<1>3. ASSUME NEW k \in DOMAIN (s \o t)
      PROVE  \/ k \in DOMAIN s /\ (s \o t)[k] = s[k]
             \/ /\ k - Len(s) \in DOMAIN t
                /\ (s \o t)[k] = t[k - Len(s)]
  <2>1. CASE k <= Len(s)
    BY <1>1, <1>2, <2>1
  <2>2. CASE ~(k <= Len(s))
    BY <1>1, <1>2, <2>2
  <2> QED BY <2>1, <2>2
<1> QED BY <1>1, <1>2, <1>3

(* A call tells what it was run as, and what was told is told still.       *)
LEMMA BeginTells ==
  ASSUME DownInv, NEW i \in Interfaces, NEW e, Begin(i, e)
  PROVE  /\ PortsKnown' /\ RulesTell' /\ ServersTell'
         /\ roles' \in [Interfaces -> SUBSET {"wan", "lan"}]
         /\ Guessing' = Guessing
         /\ Guessing => Role(i) \in roles'[i]
         /\ WanNames \subseteq WanNames' /\ LanNames \subseteq LanNames'
<1>1. /\ device' = device /\ ports' = ports /\ rules' = rules
      /\ dnsmasq' = dnsmasq /\ pidfile' = pidfile /\ doubled' = doubled
      /\ marked' = IF ~Guessing /\ device[i] = "wan" THEN marked \cup {i}
                   ELSE marked
      /\ roles' = [roles EXCEPT ![i] = @ \cup {Role(i)}]
      /\ wan_port_path' = wan_port_path
  BY DEF Begin, outside, firewall, networks
<1>2. Role(i) \in {"wan", "lan"}
  BY DEF Role
<1>3. /\ roles' \in [Interfaces -> SUBSET {"wan", "lan"}]
      /\ Role(i) \in roles'[i]
      /\ \A j \in Interfaces : roles[j] \subseteq roles'[j]
  BY <1>1, <1>2 DEF DownInv, DownTypes
<1>4. Guessing' = Guessing
  BY <1>1 DEF Guessing
<1>5. WanNames \subseteq WanNames' /\ LanNames \subseteq LanNames'
  BY <1>1, <1>3, <1>4 DEF WanNames, LanNames
<1>6. PortsKnown'
  BY <1>1 DEF DownInv, PortsKnown, Plugged
<1>7. RulesTell' /\ ServersTell'
  BY <1>1, <1>5, StillTell
<1> QED BY <1>3, <1>4, <1>5, <1>6, <1>7

LEMMA BeginFits ==
  ASSUME DownInv, NEW i \in Interfaces, NEW e \in {"pre-up", "up", "down"},
         Begin(i, e)
  PROVE  todo' \in Seq(Agenda) /\ StepsFit' /\ StepsInOrder'
<1> DEFINE p == Plan(e, Role(i), i)
           t == Tail(todo)
<1>1. /\ todo # <<>> /\ Head(todo) = Step("begin", e, i) /\ todo' = p \o t
      /\ marked' = IF ~Guessing /\ device[i] = "wan" THEN marked \cup {i}
                   ELSE marked
      /\ device' = device /\ ports' = ports
  BY DEF Begin, Does, outside
<1>2. Role(i) \in {"wan", "lan"}
  BY DEF Role
<1>3. /\ p \in Seq(Agenda)
      /\ \A k \in DOMAIN p : /\ Planned(p[k], e, Role(i), i)
                             /\ p[k].do = "tether" => k = Len(p)
  BY <1>2, PlanSteps
<1>4. /\ t \in Seq(Agenda) /\ Len(t) = Len(todo) - 1
      /\ \A k \in DOMAIN t : k + 1 \in DOMAIN todo /\ t[k] = todo[k + 1]
      /\ 1 \in DOMAIN todo /\ todo[1] = Step("begin", e, i)
      /\ todo \in Seq(Agenda)
  BY <1>1, TailSteps DEF DownInv, DownTypes
<1>5. todo[1].do = "begin" /\ todo[1].what = e
  BY <1>4 DEF Step
<1> HIDE DEF p, t
<1>6. /\ todo' \in Seq(Agenda) /\ Len(todo') = Len(p) + Len(t)
      /\ DOMAIN todo' = 1..Len(todo')
      /\ \A k \in DOMAIN todo' :
           \/ k \in DOMAIN p /\ todo'[k] = p[k]
           \/ k - Len(p) \in DOMAIN t /\ todo'[k] = t[k - Len(p)]
  BY <1>1, <1>3, <1>4, ConcatSteps
<1>7. e # "pre-up" => Len(todo) = 1
  BY <1>4, <1>5 DEF DownInv, StepsInOrder
<1>8. ASSUME NEW k \in DOMAIN p, NEW s, s = p[k]
      PROVE  Fits(s)'
  <2>1. Planned(s, e, Role(i), i)
    BY <1>3, <1>8
  <2>2. Role(i) = "wan" => i \in WanNames'
    <3>1. CASE Guessing
      BY <3>1, BeginTells DEF WanNames
    <3>2. CASE ~Guessing
      BY <1>1, <3>2, BeginTells DEF Role, WanNames
    <3> QED BY <3>1, <3>2
  <2>3. Role(i) = "lan" => i \in LanNames' \/ device[i] = "none"
    <3>1. CASE Guessing
      BY <3>1, BeginTells DEF LanNames
    <3>2. CASE ~Guessing
      BY <1>1, <3>2, BeginTells
         DEF Role, LanNames, DownInv, DownTypes, PortsKnown
    <3> QED BY <3>1, <3>2
  <2>4. s.do = "add" => e \in {"pre-up", "up"}
    BY <2>1 DEF Planned
  <2>5. s.do = "add" /\ s.what \in {"dhcp", "internet"} => Role(i) = "wan"
    BY <2>1, <2>4 DEF Planned
  <2>6. s.do = "add" /\ s.what = "proxy" => Role(i) = "lan"
    BY <2>1, <2>4 DEF Planned, Mild
  <2>7. s.on = i
    BY <2>1 DEF Planned
  <2> QED BY <1>1, <2>2, <2>3, <2>5, <2>6, <2>7 DEF Fits
<1>9. StepsFit'
  <2>1. ASSUME NEW k \in DOMAIN t, NEW s, s = t[k]
        PROVE  Fits(s)'
    <3>1. Fits(s)
      BY <1>4, <2>1 DEF DownInv, StepsFit
    <3>2. s.on \in Interfaces
      <4>1. s \in Agenda
        BY <1>4, <2>1
      <4> QED BY <4>1 DEF Agenda
    <3> QED BY <1>1, <3>1, <3>2, BeginTells DEF Fits
  <2>2. ASSUME NEW k \in DOMAIN todo', NEW s, s = todo'[k]
        PROVE  Fits(s)'
    BY <1>6, <1>8, <2>1, <2>2
  <2> QED BY <2>2 DEF StepsFit, Fits
<1>10. ASSUME NEW k \in DOMAIN t
       PROVE  /\ t[k].do = "tether" => k = Len(t)
              /\ ~(t[k].do = "begin" /\ t[k].what # "pre-up")
              /\ t[k].do # "wait"
              /\ e = "pre-up"
  <2>1. k + 1 \in DOMAIN todo /\ t[k] = todo[k + 1] /\ k \in 1..Len(t)
    BY <1>4
  <2>2. Len(todo) # 1
    BY <1>4, <2>1
  <2>3. t[k].do = "tether" => k = Len(t)
    BY <1>4, <2>1 DEF DownInv, StepsInOrder
  <2>4. t[k].do # "wait"
    BY <1>4, <1>5, <2>1 DEF DownInv, StepsInOrder, Mild
  <2>5. ~(t[k].do = "begin" /\ t[k].what # "pre-up")
    BY <2>1, <2>2 DEF DownInv, StepsInOrder
  <2> QED BY <1>7, <2>2, <2>3, <2>4, <2>5
<1>11. ASSUME NEW k \in DOMAIN todo'
       PROVE  /\ todo'[k].do = "tether" => k = Len(todo')
              /\ todo'[k].do = "begin" => todo'[k].what = "pre-up"
              /\ todo'[k].do = "wait" => \A m \in DOMAIN todo' : Mild(todo'[m])
  <2>1. CASE k \in DOMAIN p /\ todo'[k] = p[k]
    <3>1. Planned(p[k], e, Role(i), i) /\ (p[k].do = "tether" => k = Len(p))
      BY <1>3, <2>1
    <3>2. p[k].do \in {"tether", "wait"} => e = "up"
      BY <3>1 DEF Planned
    <3>3. e = "up" => Len(t) = 0 /\ DOMAIN t = {}
      BY <1>4, <1>7
    <3>4. e = "up" => Len(todo') = Len(p)
      <4>1. Len(p) \in Nat
        BY <1>3
      <4> QED BY <1>6, <3>3, <4>1
    <3>5. e = "up" => \A m \in DOMAIN todo' : Mild(todo'[m])
      BY <1>3, <1>6, <3>3 DEF Planned
    <3>6. p[k].do # "begin"
      BY <3>1 DEF Planned
    <3> QED BY <2>1, <3>1, <3>2, <3>4, <3>5, <3>6
  <2>2. CASE k - Len(p) \in DOMAIN t /\ todo'[k] = t[k - Len(p)]
    <3>1. k \in Int /\ Len(p) \in Int
      BY <1>3, <1>6
    <3> QED BY <1>4, <1>6, <1>10, <2>2, <3>1
  <2> QED BY <1>6, <2>1, <2>2
<1>12. StepsInOrder'
  BY <1>11 DEF StepsInOrder, Mild
<1> QED BY <1>6, <1>9, <1>12

(* "down" begins: what it plans to revoke is all that a name may have that *)
(* was not the name of both.                                               *)
LEMMA BeginOrdered ==
  ASSUME DownInv, NEW i \in Interfaces, NEW e \in {"pre-up", "up", "down"},
         Begin(i, e)
  PROVE  DownOrdered'
<1>1. /\ todo # <<>> /\ Head(todo) = Step("begin", e, i)
      /\ todo' = Plan(e, Role(i), i) \o Tail(todo)
      /\ running' = running /\ rules' = rules /\ dnsmasq' = dnsmasq
      /\ doubled' = doubled /\ ports' = ports
  BY DEF Begin, Does, outside, firewall, networks
<1>2. SUFFICES ASSUME NEW j \in Interfaces, running = Step("begin", "down", j)
               PROVE  Cleaning(j)'
  BY <1>1 DEF DownOrdered
<1>3. Head(todo) = todo[1] /\ 1 \in DOMAIN todo /\ Tail(todo) \in Seq(Agenda)
  BY <1>1, TailSteps DEF DownInv, DownTypes
<1>4. todo = <<running>>
  <2>1. todo[1].do = "begin"
    BY <1>1, <1>3 DEF Step
  <2>2. ~Cleaning(j)
    BY <1>3, <2>1 DEF Cleaning
  <2> QED BY <1>1, <1>2, <2>2 DEF DownInv, DownOrdered
<1>5. i = j /\ e = "down"
  BY <1>1, <1>2, <1>4 DEF Step
<1>6. Tail(todo) = <<>>
  BY <1>4
<1>7. Role(i) \in {"wan", "lan"}
  BY DEF Role
<1>8. todo' = Plan("down", Role(i), i)
  <2>1. Plan("down", Role(i), i) \in Seq(Agenda)
    BY <1>7, PlanSteps
  <2>2. \A s \in Seq(Agenda) : s \o <<>> = s
    OBVIOUS
  <2> QED BY <1>1, <1>5, <1>6, <2>1, <2>2
<1>9. \A k \in DOMAIN todo' : todo'[k].do = "revoke" /\ todo'[k].on = i
  BY <1>7, <1>8, PlanSteps DEF Planned
<1>10. \A r \in rules : r.on \in Interfaces /\ r.kind \in Kinds
  BY DEF DownInv, RuleInv, RuleTypes, Rule
<1>11. ports[i] \subseteq {"wan", "lan"} /\ device[i] \in {"wan", "lan", "none"}
  BY DEF DownInv, DownTypes
<1>12. CASE Role(i) = "wan"
  <2>1. i \in LanNames => Mixed(i)'
    <3>1. CASE Guessing
      <4>1. i \in LanNames => "lan" \in roles'[i]
        BY <3>1, BeginTells DEF LanNames
      <4>2. roles'[i] \subseteq {"wan", "lan"} /\ "wan" \in roles'[i]
        BY <1>12, <3>1, BeginTells
      <4> QED BY <3>1, <4>1, <4>2, BeginTells DEF Mixed
    <3>2. CASE ~Guessing
      <4>1. "wan" \in ports[i]
        BY <1>12, <3>2 DEF Role, DownInv, PortsKnown
      <4> QED BY <1>1, <1>11, <3>2, <4>1, BeginTells DEF LanNames, Mixed
    <3> QED BY <3>1, <3>2
  <2>3. todo' = [k \in {1, 2, 3} |->
                   Step("revoke", <<"dhcp", "arp", "internet">>[k], i)]
    BY <1>8, <1>12 DEF Plan, Each, Revoked
  <2>4. /\ 1 \in DOMAIN todo' /\ todo'[1].what = "dhcp"
        /\ 2 \in DOMAIN todo' /\ todo'[2].what = "arp"
        /\ 3 \in DOMAIN todo' /\ todo'[3].what = "internet"
    BY <2>3 DEF Step
  <2>5. ASSUME NEW r \in rules, r.on = i
        PROVE  Mixed(i)' \/ \E k \in DOMAIN todo' : todo'[k].what = r.kind
    <3>1. r.kind = "proxy" => Mixed(i)'
      BY <2>1, <2>5 DEF DownInv, RulesTell
    <3> QED BY <1>10, <2>4, <2>5, <3>1 DEF Kinds
  <2>6. Mixed(i)' \/ dnsmasq[i] = {}
    BY <2>1 DEF DownInv, ServersTell
  <2> QED BY <1>1, <1>5, <1>9, <2>5, <2>6 DEF Cleaning, Goes
<1>13. CASE Role(i) = "lan"
  <2>2. i \in WanNames => Mixed(i)'
    <3>1. CASE Guessing
      <4>1. i \in WanNames => "wan" \in roles'[i]
        BY <3>1, BeginTells DEF WanNames
      <4>2. roles'[i] \subseteq {"wan", "lan"} /\ "lan" \in roles'[i]
        BY <1>13, <3>1, BeginTells
      <4> QED BY <3>1, <4>1, <4>2, BeginTells DEF Mixed
    <3>2. CASE ~Guessing
      <4>1. device[i] = "lan" \/ (device[i] = "none" /\ i \notin marked)
        BY <1>11, <1>13, <3>2 DEF Role
      <4>2. i \in marked => "wan" \in ports[i]
        BY DEF DownInv, PortsKnown
      <4>3. device[i] = "lan" => "lan" \in ports[i]
        BY DEF DownInv, PortsKnown
      <4> QED BY <1>1, <1>11, <3>2, <4>1, <4>2, <4>3, BeginTells
              DEF WanNames, Mixed
    <3> QED BY <3>1, <3>2
  <2>3. todo' = [k \in {1, 2} |-> Step("revoke", <<"proxy", "arp">>[k], i)]
    BY <1>8, <1>13 DEF Plan, Each, Revoked
  <2>4. /\ 1 \in DOMAIN todo' /\ todo'[1].what = "proxy"
        /\ 2 \in DOMAIN todo' /\ todo'[2].what = "arp"
    BY <2>3 DEF Step
  <2>5. ASSUME NEW r \in rules, r.on = i
        PROVE  Mixed(i)' \/ \E k \in DOMAIN todo' : todo'[k].what = r.kind
    <3>1. r.kind \in {"dhcp", "internet"} => Mixed(i)'
      BY <2>2, <2>5 DEF DownInv, RulesTell
    <3>2. r.kind \in {"dhcp", "internet", "proxy", "arp"}
      BY <1>10 DEF Kinds
    <3> QED BY <2>4, <3>1, <3>2
  <2>6. \E k \in DOMAIN todo' : todo'[k].what = "proxy"
    BY <2>4
  <2>7. /\ rules' = rules /\ ports' = ports
        /\ dnsmasq' = dnsmasq /\ doubled' = doubled
    BY <1>1
  <2>8. Mixed(j)' \/ \A r \in rules' : r.on = j => Goes(r.kind)'
    BY <1>5, <2>5, <2>7 DEF Goes
  <2>9. Goes("proxy")'
    BY <2>6 DEF Goes
  <2> QED BY <1>5, <1>9, <2>8, <2>9 DEF Cleaning
<1> QED BY <1>7, <1>12, <1>13

LEMMA BeginDown ==
  ASSUME DownInv, NEW i \in Interfaces, NEW e \in {"pre-up", "up", "down"},
         Begin(i, e)
  PROVE  DownInv'
<1>1. /\ marked' \subseteq marked \cup {i}
      /\ UNCHANGED <<outside, running, firewall, networks>>
  BY DEF Begin
<1>2. RuleInv'
  BY <1>1, RulesUntouched DEF DownInv
<1>3. DownTypes'
  BY <1>1, BeginFits, BeginTells
     DEF DownInv, DownTypes, outside, firewall, networks
<1>4. PortsKnown' /\ RulesTell' /\ ServersTell'
  BY BeginTells
<1> QED BY <1>2, <1>3, <1>4, BeginFits, BeginOrdered DEF DownInv

(* A script that adds, waits or tethers is not that of "down".             *)
LEMMA NotDown ==
  ASSUME DownInv, todo # <<>>, running' = running,
         Head(todo).do \notin {"begin", "revoke"}
  PROVE  /\ \A i \in Interfaces : running # Step("begin", "down", i)
         /\ DownOrdered'
<1>1. Head(todo) = todo[1] /\ 1 \in DOMAIN todo
  BY TailSteps DEF DownInv, DownTypes
<1>2. ASSUME NEW i \in Interfaces, running = Step("begin", "down", i)
      PROVE  FALSE
  <2>1. ~Cleaning(i)
    BY <1>1 DEF Cleaning
  <2>2. todo = <<running>>
    BY <1>2, <2>1 DEF DownInv, DownOrdered
  <2> QED BY <1>2, <2>2 DEF Step
<1> QED BY <1>2 DEF DownOrdered

LEMMA AddDown ==
  ASSUME DownInv, NEW i \in Interfaces, NEW k \in Kinds, Add(i, k)
  PROVE  DownInv'
<1>1. /\ todo # <<>> /\ Head(todo) = Step("add", k, i) /\ k # "proxy"
      /\ todo' = Tail(todo) /\ NftHandleToFile(i, k)
      /\ UNCHANGED <<outside, running, marks, networks>>
  BY DEF Add, Does
<1>2. /\ device' = device /\ events' = events /\ ports' = ports
      /\ marked' = marked /\ roles' = roles /\ UNCHANGED <<marks, ports>>
      /\ dnsmasq' = dnsmasq /\ pidfile' = pidfile
      /\ doubled' = doubled /\ given' = given
  BY <1>1 DEF outside, networks, marks
<1>3. todo[1] = Step("add", k, i) /\ 1 \in DOMAIN todo /\ todo' \in Seq(Agenda)
  BY <1>1, TailSteps DEF DownInv, DownTypes
<1>4. RuleInv'
  BY <1>1, NftKeeps DEF DownInv
<1>5. DownTypes'
  BY <1>2, <1>3 DEF DownInv, DownTypes
<1>6. PortsKnown' /\ ServersTell'
  BY <1>2, SameKinds DEF DownInv, PortsKnown, ServersTell, Plugged
<1>7. StepsFit' /\ StepsInOrder'
  BY <1>1, <1>2, FitShorter DEF DownInv
<1>8. RulesTell'
  <2>1. k \in {"dhcp", "internet"} => i \in WanNames
    BY <1>3 DEF DownInv, StepsFit, Fits, Step
  <2>2. rules' \subseteq rules \cup {[on |-> i, kind |-> k, handle |-> handle]}
    BY <1>1 DEF NftHandleToFile, firewall
  <2> QED BY <1>1, <1>2, <2>1, <2>2, SameKinds DEF DownInv, RulesTell
<1>9. DownOrdered'
  BY <1>1, NotDown DEF Step
<1> QED BY <1>4, <1>5, <1>6, <1>7, <1>8, <1>9 DEF DownInv

LEMMA AddProxyDown ==
  ASSUME DownInv, NEW i \in Interfaces, AddProxy(i)
  PROVE  DownInv'
<1>1. /\ todo # <<>> /\ Head(todo) = Step("add", "proxy", i)
      /\ todo' = Tail(todo) /\ NftHandleToFile(i, "proxy")
      /\ given' = given + 1
      /\ UNCHANGED <<outside, running, marks>>
  BY DEF AddProxy, Does
<1>2. /\ device' = device /\ events' = events /\ ports' = ports
      /\ marked' = marked /\ roles' = roles /\ UNCHANGED <<marks, ports>>
  BY <1>1 DEF outside, marks
<1>3. /\ todo[1] = Step("add", "proxy", i) /\ 1 \in DOMAIN todo
      /\ todo' \in Seq(Agenda)
  BY <1>1, TailSteps DEF DownInv, DownTypes
<1>4. i \in LanNames \/ device[i] = "none"
  BY <1>3 DEF DownInv, StepsFit, Fits, Step
<1>5. RuleInv'
  BY <1>1, NftKeeps DEF DownInv, Kinds
<1>6. PortsKnown'
  BY <1>2 DEF DownInv, PortsKnown, Plugged
<1>7. StepsFit' /\ StepsInOrder'
  BY <1>1, <1>2, FitShorter DEF DownInv
<1>8. RulesTell'
  <2>1. CASE device[i] = "none"
    BY <1>1, <1>2, <2>1, SameKinds
       DEF NftHandleToFile, firewall, DownInv, RulesTell
  <2>2. CASE device[i] # "none"
    <3>1. rules' = rules \cup
            {[on |-> i, kind |-> "proxy", handle |-> handle]}
      BY <1>1, <2>2 DEF NftHandleToFile
    <3> QED BY <1>2, <1>4, <2>2, <3>1, SameKinds DEF DownInv, RulesTell
  <2> QED BY <2>1, <2>2
<1>9. DownOrdered'
  BY <1>1, NotDown DEF Step
<1>10. DownTypes' /\ ServersTell'
  <2>1. /\ dnsmasq \in [Interfaces -> SUBSET Nat]
        /\ pidfile \in [Interfaces -> Nat] /\ given \in Nat
    BY DEF DownInv, DownTypes
  <2>2. CASE device[i] = "none"
    <3>1. UNCHANGED <<dnsmasq, pidfile, doubled>>
      BY <2>2 DEF AddProxy
    <3> QED BY <1>1, <1>2, <1>3, <3>1, SameKinds
            DEF DownInv, DownTypes, ServersTell
  <2>3. CASE device[i] # "none"
    <3>1. /\ dnsmasq' = [dnsmasq EXCEPT ![i] = @ \cup {given'}]
          /\ pidfile' = [pidfile EXCEPT ![i] = given']
          /\ doubled' = IF dnsmasq[i] = {} THEN doubled ELSE doubled \cup {i}
      BY <2>3 DEF AddProxy
    <3>2. DownTypes'
      BY <1>1, <1>2, <1>3, <2>1, <3>1 DEF DownInv, DownTypes
    <3>3. ASSUME NEW j \in Interfaces
          PROVE  /\ dnsmasq'[j] # {} => j \in LanNames
                 /\ j \in doubled' \/ dnsmasq'[j] \subseteq {pidfile'[j]}
      <4>1. CASE j = i
        <5>1. dnsmasq'[j] = dnsmasq[i] \cup {given'} /\ pidfile'[j] = given'
          BY <2>1, <3>1, <4>1
        <5> QED BY <1>4, <2>3, <3>1, <4>1, <5>1
      <4>2. CASE j # i
        <5>1. dnsmasq'[j] = dnsmasq[j] /\ pidfile'[j] = pidfile[j]
          BY <2>1, <3>1, <4>2
        <5>2. doubled \subseteq doubled'
          BY <3>1
        <5> QED BY <5>1, <5>2 DEF DownInv, ServersTell
      <4> QED BY <4>1, <4>2
    <3> QED BY <1>2, <3>2, <3>3, SameKinds DEF ServersTell
  <2> QED BY <2>2, <2>3
<1> QED BY <1>5, <1>6, <1>7, <1>8, <1>9, <1>10 DEF DownInv

LEMMA RevokeDown ==
  ASSUME DownInv, NEW i \in Interfaces, NEW k \in Kinds, Revoke(i, k)
  PROVE  DownInv'
<1>1. /\ todo # <<>> /\ Head(todo) = Step("revoke", k, i)
      /\ todo' = Tail(todo)
      /\ rules' = {r \in rules : r.handle \notin files[i][k]}
      /\ dnsmasq' = IF k = "proxy"
                    THEN [dnsmasq EXCEPT ![i] = @ \ {pidfile[i]}]
                    ELSE dnsmasq
  BY DEF Revoke, Does
<1>2. /\ device' = device /\ events' = events /\ ports' = ports
      /\ marked' = marked /\ roles' = roles /\ UNCHANGED <<marks, ports>>
      /\ pidfile' = pidfile /\ given' = given
      /\ doubled' = doubled /\ running' = running
  BY DEF Revoke, outside, marks
<1>3. /\ todo[1] = Step("revoke", k, i) /\ 1 \in DOMAIN todo
      /\ todo' \in Seq(Agenda)
      /\ \A m \in DOMAIN todo' :
           m + 1 \in DOMAIN todo /\ todo'[m] = todo[m + 1]
      /\ \A m \in DOMAIN todo : m # 1 => /\ m - 1 \in DOMAIN todo'
                                         /\ todo[m] = todo'[m - 1]
  BY <1>1, TailSteps DEF DownInv, DownTypes
<1>4. todo[1].do = "revoke" /\ todo[1].on = i /\ todo[1].what = k
  BY <1>3 DEF Step
<1>5. \A j \in Interfaces : dnsmasq'[j] \subseteq dnsmasq[j]
  BY <1>1 DEF DownInv, DownTypes
<1>6. RuleInv'
  BY RevokeKeeps DEF DownInv
<1>7. DownTypes'
  BY <1>1, <1>2, <1>3 DEF DownInv, DownTypes
<1>8. PortsKnown' /\ RulesTell'
  BY <1>1, <1>2, SameKinds DEF DownInv, PortsKnown, RulesTell, Plugged
<1>9. ServersTell'
  BY <1>2, <1>5, SameKinds DEF DownInv, ServersTell
<1>10. StepsFit' /\ StepsInOrder'
  BY <1>1, <1>2, FitShorter DEF DownInv
<1>11. DownOrdered'
  <2> SUFFICES ASSUME NEW j \in Interfaces, running = Step("begin", "down", j)
               PROVE  Cleaning(j)'
    BY <1>2 DEF DownOrdered
  <2>1. todo # <<running>>
    BY <1>4 DEF Step
  <2>2. Cleaning(j)
    BY <1>1, <2>1 DEF DownInv, DownOrdered
  <2>3. i = j
    BY <1>3, <1>4, <2>2 DEF Cleaning
  <2>4. \A m \in DOMAIN todo' : todo'[m].do = "revoke" /\ todo'[m].on = i
    BY <1>3, <2>2, <2>3 DEF Cleaning
  <2>5. ASSUME NEW r \in rules', r.on = i, ~Mixed(i)
        PROVE  \E m \in DOMAIN todo' : todo'[m].what = r.kind
    <3>1. PICK m \in DOMAIN todo : todo[m].what = r.kind
      BY <1>1, <2>2, <2>3, <2>5 DEF Cleaning, Goes
    <3>2. r.kind # k
      <4>1. r \in rules /\ r.handle \notin files[i][k]
        BY <1>1, <2>5
      <4> QED BY <2>5, <4>1 DEF DownInv, RuleInv, RulesOnFile
    <3>3. m # 1
      BY <1>4, <3>1, <3>2
    <3> QED BY <1>3, <3>1, <3>3
  <2>6. Mixed(i) \/ i \in doubled \/ dnsmasq'[i] = {}
           \/ \E m \in DOMAIN todo' : todo'[m].what = "proxy"
    <3>1. CASE Mixed(i) \/ i \in doubled \/ dnsmasq[i] = {}
      BY <1>5, <3>1
    <3>2. CASE k = "proxy" /\ i \notin doubled
      <4>1. dnsmasq[i] \subseteq {pidfile[i]}
        BY <3>2 DEF DownInv, ServersTell
      <4>2. dnsmasq'[i] = dnsmasq[i] \ {pidfile[i]}
        BY <1>1, <3>2 DEF DownInv, DownTypes
      <4> QED BY <4>1, <4>2
    <3>3. CASE k # "proxy" /\ Goes("proxy")
      <4>1. PICK m \in DOMAIN todo : todo[m].what = "proxy"
        BY <3>3 DEF Goes
      <4>2. m # 1
        BY <1>4, <3>3, <4>1
      <4> QED BY <1>3, <4>1, <4>2
    <3> QED BY <2>2, <2>3, <3>1, <3>2, <3>3 DEF Cleaning
  <2> QED BY <1>2, <2>3, <2>4, <2>5, <2>6, SameKinds DEF Cleaning, Goes
<1> QED BY <1>6, <1>7, <1>8, <1>9, <1>10, <1>11 DEF DownInv

LEMMA WaitDown ==
  ASSUME DownInv, NEW i \in Interfaces, NEW w \in {"dhcp", "internet"},
         WaitOver(i, w) \/ Killed(i, w)
  PROVE  DownInv'
<1>1. /\ todo # <<>> /\ Head(todo) = Step("wait", w, i)
      /\ todo' = Tail(todo) \/ todo' = <<>>
      /\ UNCHANGED <<outside, running, marks, firewall, networks>>
  BY DEF WaitOver, Killed, Does
<1>2. /\ device' = device /\ events' = events /\ ports' = ports
      /\ marked' = marked /\ roles' = roles /\ UNCHANGED <<marks, ports>>
      /\ dnsmasq' = dnsmasq /\ pidfile' = pidfile
      /\ doubled' = doubled /\ given' = given /\ rules' = rules
  BY <1>1 DEF outside, networks, firewall, marks
<1>3. todo' \in Seq(Agenda)
  <2>1. Tail(todo) \in Seq(Agenda)
    BY <1>1, TailSteps DEF DownInv, DownTypes
  <2>2. <<>> \in Seq(Agenda)
    OBVIOUS
  <2> QED BY <1>1, <2>1, <2>2
<1>4. RuleInv'
  BY <1>1, RulesUntouched DEF DownInv
<1>5. DownTypes'
  BY <1>2, <1>3 DEF DownInv, DownTypes
<1>6. PortsKnown' /\ RulesTell' /\ ServersTell'
  BY <1>2, SameKinds DEF DownInv, PortsKnown, RulesTell, ServersTell, Plugged
<1>7. StepsFit' /\ StepsInOrder'
  <2>1. CASE todo' = Tail(todo)
    BY <1>1, <1>2, <2>1, FitShorter DEF DownInv
  <2>2. CASE todo' = <<>>
    BY <2>2 DEF StepsFit, StepsInOrder
  <2> QED BY <1>1, <2>1, <2>2
<1>8. DownOrdered'
  BY <1>1, NotDown DEF Step
<1> QED BY <1>4, <1>5, <1>6, <1>7, <1>8 DEF DownInv

LEMMA TetherDown ==
  ASSUME DownInv, NEW i \in Interfaces, Tether(i)
  PROVE  DownInv'
<1>1. /\ todo # <<>> /\ Head(todo) = Step("tether", "gadgets", i)
      /\ device' = [g \in Interfaces |->
                      IF g \in Plugged THEN device[g] ELSE "lan"]
      /\ ports' = [g \in Interfaces |->
                     IF g \in Plugged THEN ports[g] ELSE {"lan"}]
      /\ todo' = [k \in DOMAIN Gadgets |->
                    Step("begin", "pre-up", Gadgets[k])] \o Tail(todo)
      /\ UNCHANGED <<manager, events, moves, running, marks, firewall,
                     networks>>
  BY DEF Tether, Does
<1>2. /\ events' = events /\ marked' = marked /\ roles' = roles
      /\ Guessing' = Guessing /\ dnsmasq' = dnsmasq
      /\ pidfile' = pidfile /\ doubled' = doubled /\ given' = given
      /\ rules' = rules /\ running' = running
  BY <1>1 DEF networks, firewall, marks, Guessing
<1>3. todo[1] = Step("tether", "gadgets", i) /\ 1 \in DOMAIN todo
  BY <1>1, TailSteps DEF DownInv, DownTypes
<1>4. Tail(todo) = <<>>
  <2>1. todo[1].do = "tether"
    BY <1>3 DEF Step
  <2>2. Len(todo) = 1
    BY <1>3, <2>1 DEF DownInv, StepsInOrder
  <2>3. Tail(todo) \in Seq(Agenda) /\ Len(Tail(todo)) = Len(todo) - 1
    BY <1>1, TailSteps DEF DownInv, DownTypes
  <2>4. Len(Tail(todo)) = 0
    BY <2>2, <2>3
  <2>5. ASSUME NEW s \in Seq(Agenda), Len(s) = 0
        PROVE  s = <<>>
    BY <2>5
  <2> QED BY <2>3, <2>4, <2>5
<1>5. Gadgets \in Seq(Interfaces)
  BY DispatcherAssumption
<1> DEFINE p == [k \in DOMAIN Gadgets |-> Step("begin", "pre-up", Gadgets[k])]
<1>6. p \in Seq(Agenda) /\ DOMAIN p = DOMAIN Gadgets
  <2>1. ASSUME NEW k \in DOMAIN Gadgets
        PROVE  Step("begin", "pre-up", Gadgets[k]) \in Agenda
    <3>1. Gadgets[k] \in Interfaces
      BY <1>5
    <3> QED BY <3>1 DEF Step, Agenda
  <2>2. DOMAIN Gadgets = 1..Len(Gadgets) /\ Len(Gadgets) \in Nat
    BY <1>5
  <2> QED BY <2>1, <2>2
<1>7. \A k \in DOMAIN p : p[k].do = "begin" /\ p[k].what = "pre-up"
  BY DEF Step
<1>8. todo' = p
  <2> HIDE DEF p
  <2>1. \A s \in Seq(Agenda) : s \o <<>> = s
    OBVIOUS
  <2>2. todo' = p \o Tail(todo)
    BY <1>1 DEF p
  <2> QED BY <1>4, <1>6, <2>1, <2>2
<1> HIDE DEF p
<1>9. RuleInv'
  BY <1>1, RulesUntouched DEF DownInv
<1>10. DownTypes'
  BY <1>1, <1>2, <1>6, <1>8 DEF DownInv, DownTypes
<1>11. \A g \in Interfaces : g \notin Plugged => ports[g] \subseteq {"lan"}
  BY DEF DownInv, PortsKnown
<1>12. PortsKnown'
  BY <1>1, <1>2, <1>11 DEF DownInv, PortsKnown, Plugged
<1>13. WanNames' = WanNames /\ LanNames \subseteq LanNames'
  BY <1>1, <1>2 DEF WanNames, LanNames
<1>14. RulesTell' /\ ServersTell'
  BY <1>2, <1>13, StillTell
<1>15. StepsFit' /\ StepsInOrder'
  BY <1>7, <1>8 DEF StepsFit, StepsInOrder, Fits
<1>16. DownOrdered'
  BY <1>1, NotDown DEF Step
<1> QED BY <1>9, <1>10, <1>12, <1>14, <1>15, <1>16 DEF DownInv

(* Plugs are pulled and put in, and NetworkManager speaks.                 *)
LEMMA EventIs ==
  ASSUME NEW i \in Interfaces, NEW e \in {"pre-up", "up", "down"}
  PROVE  Step("begin", e, i) \in Events
  BY DEF Step, Events, Agenda

LEMMA OutsideDown ==
  ASSUME DownInv, UNCHANGED inside, PortsKnown',
         device' \in [Interfaces -> {"wan", "lan", "none"}],
         ports' \in [Interfaces -> SUBSET {"wan", "lan"}],
         events' \in Seq(Events),
         \A i \in Interfaces : ports[i] \subseteq ports'[i],
         Waiting \/ \A i \in Interfaces :
                      device[i] = "none" => device'[i] = "none"
  PROVE  DownInv'
<1>1. /\ todo' = todo /\ marked' = marked /\ dnsmasq' = dnsmasq
      /\ pidfile' = pidfile /\ doubled' = doubled /\ given' = given
      /\ rules' = rules /\ running' = running /\ UNCHANGED firewall
      /\ roles' = roles /\ Guessing' = Guessing
  BY DEF inside, networks, firewall, marks, Guessing
<1>2. RuleInv'
  BY <1>1, RulesUntouched DEF DownInv
<1>3. DownTypes'
  BY <1>1 DEF DownInv, DownTypes
<1>4. WanNames' = WanNames /\ LanNames \subseteq LanNames'
  BY <1>1 DEF WanNames, LanNames
<1>5. RulesTell' /\ ServersTell'
  BY <1>1, <1>4, StillTell
<1>6. StepsInOrder'
  BY <1>1 DEF DownInv, StepsInOrder, Mild
<1>7. ASSUME NEW k \in DOMAIN todo, todo[k].do = "add", todo[k].what = "proxy"
      PROVE  todo[k].on \in LanNames' \/ device'[todo[k].on] = "none"
  <2>1. todo[k].on \in Interfaces
    <3>1. todo[k] \in Agenda
      BY DEF DownInv, DownTypes
    <3> QED BY <3>1 DEF Agenda
  <2>2. todo[k].on \in LanNames \/ device[todo[k].on] = "none"
    BY <1>7 DEF DownInv, StepsFit, Fits
  <2>3. ~Waiting
    <3>1. Head(todo) = todo[1] /\ 1 \in DOMAIN todo /\ todo # <<>>
      <4>1. todo # <<>>
        OBVIOUS
      <4> QED BY <4>1, TailSteps DEF DownInv, DownTypes
    <3>2. ~Mild(todo[k])
      BY <1>7 DEF Mild
    <3> QED BY <3>1, <3>2 DEF Waiting, DownInv, StepsInOrder
  <2> QED BY <1>4, <2>1, <2>2, <2>3
<1>8. StepsFit'
  <2>1. ASSUME NEW k \in DOMAIN todo, todo[k].do = "add",
               todo[k].what \in {"dhcp", "internet"}
        PROVE  todo[k].on \in WanNames'
    <3>1. todo[k] \in Agenda
      BY DEF DownInv, DownTypes
    <3> QED BY <1>4, <2>1, <3>1 DEF Agenda, DownInv, StepsFit, Fits
  <2> QED BY <1>1, <1>7, <2>1 DEF StepsFit, Fits
<1>9. \A i \in Interfaces : Mixed(i) => Mixed(i)'
  BY <1>1 DEF Mixed
<1>10. DownOrdered'
  BY <1>1, <1>9 DEF DownInv, DownOrdered, Cleaning, Goes
<1> QED BY <1>2, <1>3, <1>5, <1>6, <1>8, <1>10 DEF DownInv

LEMMA PlugDown ==
  ASSUME DownInv, NEW i \in Plugged, NEW port \in {"wan", "lan"}, Plug(i, port)
  PROVE  DownInv'
<1>1. /\ Waiting /\ device' = [device EXCEPT ![i] = port]
      /\ ports' = [ports EXCEPT ![i] = @ \cup {port}]
      /\ UNCHANGED inside /\ events' = events
      /\ marked' = marked
  BY DEF Plug, inside, marks
<1>2. i \in Interfaces
  BY DEF Plugged
<1>3. /\ device' \in [Interfaces -> {"wan", "lan", "none"}]
      /\ ports' \in [Interfaces -> SUBSET {"wan", "lan"}]
      /\ events' \in Seq(Events)
      /\ \A j \in Interfaces : ports[j] \subseteq ports'[j]
  BY <1>1, <1>2 DEF DownInv, DownTypes
<1>4. PortsKnown'
  <2>1. ASSUME NEW j \in Interfaces
        PROVE  /\ device'[j] # "none" => device'[j] \in ports'[j]
               /\ j \in marked => "wan" \in ports'[j]
               /\ j \notin Plugged => ports'[j] \subseteq {"lan"}
    BY <1>1, <1>2, <1>3 DEF DownInv, PortsKnown, DownTypes
  <2> QED BY <1>1, <2>1 DEF PortsKnown, Plugged
<1> QED BY <1>1, <1>3, <1>4, OutsideDown

LEMMA ManagerDown ==
  ASSUME DownInv, NEW i \in Plugged,
         Unplug(i) \/ Connect(i) \/ Prepared(i) \/ Disconnect(i)
  PROVE  DownInv'
<1>1. i \in Interfaces
  BY DEF Plugged
<1>2. /\ UNCHANGED <<inside, ports>>
      /\ device' = device \/ device' = [device EXCEPT ![i] = "none"]
      /\ \/ events' = events
         \/ \E e \in {"pre-up", "up", "down"} :
              events' = Append(events, Step("begin", e, i))
  BY DEF Unplug, Connect, Prepared, Disconnect, Leave, inside
<1>3. ports' = ports /\ marked' = marked
  BY <1>2 DEF inside, marks
<1>4. events' \in Seq(Events)
  <2>1. \A e \in {"pre-up", "up", "down"} : Step("begin", e, i) \in Events
    BY <1>1, EventIs
  <2>2. \A s \in Events : Append(events, s) \in Seq(Events)
    BY DEF DownInv, DownTypes
  <2>3. events \in Seq(Events)
    BY DEF DownInv, DownTypes
  <2> QED BY <1>2, <2>1, <2>2, <2>3
<1>5. /\ device' \in [Interfaces -> {"wan", "lan", "none"}]
      /\ \A j \in Interfaces : device'[j] \in {device[j], "none"}
  BY <1>1, <1>2 DEF DownInv, DownTypes
<1>6. PortsKnown'
  BY <1>3, <1>5 DEF DownInv, PortsKnown, Plugged
<1>7. ports' \in [Interfaces -> SUBSET {"wan", "lan"}]
  BY <1>3 DEF DownInv, DownTypes
<1> QED BY <1>2, <1>3, <1>4, <1>5, <1>6, <1>7, OutsideDown

LEMMA StartDown ==
  ASSUME DownInv, StartScript
  PROVE  DownInv'
<1>1. /\ events # <<>> /\ todo' = <<Head(events)>> /\ running' = Head(events)
      /\ events' = Tail(events)
      /\ UNCHANGED <<device, ports, marks, firewall, networks>>
  BY DEF StartScript
<1>2. /\ dnsmasq' = dnsmasq /\ pidfile' = pidfile /\ doubled' = doubled
      /\ given' = given /\ rules' = rules
      /\ marked' = marked /\ roles' = roles /\ UNCHANGED <<marks, ports>>
  BY <1>1 DEF networks, firewall, marks
<1>3. Head(events) \in Events /\ events' \in Seq(Events)
  BY <1>1 DEF DownInv, DownTypes
<1>4. Head(events) \in Agenda /\ Head(events).do = "begin"
  BY <1>3 DEF Events
<1>5. todo' \in Seq(Agenda) /\ Len(todo') = 1 /\ DOMAIN todo' = {1}
      /\ todo'[1] = Head(events)
  BY <1>1, <1>4, StepsOfOne
<1>6. RuleInv'
  BY <1>1, RulesUntouched DEF DownInv
<1>7. DownTypes'
  BY <1>1, <1>2, <1>3, <1>5 DEF DownInv, DownTypes
<1>8. PortsKnown' /\ RulesTell' /\ ServersTell'
  BY <1>1, <1>2, SameKinds DEF DownInv, PortsKnown, RulesTell, ServersTell, Plugged
<1>9. StepsFit' /\ StepsInOrder'
  BY <1>4, <1>5 DEF StepsFit, StepsInOrder, Fits
<1>10. DownOrdered'
  BY <1>1 DEF DownOrdered
<1> QED BY <1>6, <1>7, <1>8, <1>9, <1>10 DEF DownInv

LEMMA StutterDown == DownInv /\ UNCHANGED vars => DownInv'
<1> SUFFICES ASSUME DownInv, UNCHANGED vars PROVE DownInv'
  OBVIOUS
<1>1. UNCHANGED inside /\ device' = device /\ ports' = ports
      /\ events' = events /\ marked' = marked
  BY DEF vars, outside, inside, marks
<1>2. PortsKnown'
  BY <1>1 DEF DownInv, PortsKnown, Plugged
<1> QED BY <1>1, <1>2, OutsideDown DEF DownInv, DownTypes

LEMMA NextDown == DownInv /\ [Next]_vars => DownInv'
<1> SUFFICES ASSUME DownInv, [Next]_vars PROVE DownInv'
  OBVIOUS
<1>1. CASE Script
  BY <1>1, BeginDown, AddDown, RevokeDown, AddProxyDown, TetherDown, WaitDown
     DEF Script
<1>2. CASE Manager
  BY <1>2, StartDown, PlugDown, ManagerDown DEF Manager
<1>3. CASE UNCHANGED vars
  BY <1>3, StutterDown
<1> QED BY <1>1, <1>2, <1>3 DEF Next

(* The last step of "down" is a revoke, of all that is left.               *)
LEMMA LastRevoke ==
  ASSUME DownInv, [Next]_vars, NEW i \in Interfaces,
         running = Step("begin", "down", i), todo # <<>>, todo' = <<>>,
         ~Mixed(i)
  PROVE  /\ \A r \in rules' : r.on # i
         /\ dnsmasq'[i] = {} \/ i \in doubled
<1>1. Head(todo) = todo[1] /\ 1 \in DOMAIN todo
  BY TailSteps DEF DownInv, DownTypes
<1>2. Head(todo).do \in {"begin", "revoke"}
  <2>1. todo = <<running>> \/ Cleaning(i)
    BY DEF DownInv, DownOrdered
  <2> QED BY <1>1, <2>1 DEF Cleaning, Step
<1>3. ASSUME NEW j \in Interfaces, NEW e \in {"pre-up", "up", "down"},
             Begin(j, e)
      PROVE  FALSE
  <2>1. DownOrdered'
    BY <1>3, BeginOrdered
  <2>2. Head(todo) = Step("begin", e, j)
    BY <1>3 DEF Begin, Does
  <2>3. todo = <<running>>
    BY <1>1, <2>2 DEF DownInv, DownOrdered, Cleaning, Step
  <2>4. e = "down"
    BY <2>2, <2>3 DEF Step
  <2>5. Role(j) \in {"wan", "lan"}
    BY DEF Role
  <2> DEFINE p == Plan(e, Role(j), j)
  <2>6. 1 \in DOMAIN p /\ p \in Seq(Agenda)
    <3>1. p \in Seq(Agenda)
      BY <2>5, PlanSteps
    <3> QED BY <2>4, <2>5, <3>1 DEF Plan, Each, Revoked
  <2>7. todo' = p \o Tail(todo)
    BY <1>3 DEF Begin
  <2> HIDE DEF p
  <2>8. Tail(todo) \in Seq(Agenda)
    BY TailSteps DEF DownInv, DownTypes
  <2>9. Len(todo') = Len(p) + Len(Tail(todo))
    BY <2>6, <2>7, <2>8, ConcatSteps
  <2>10. Len(p) \in Nat /\ Len(p) > 0 /\ Len(Tail(todo)) \in Nat
    BY <2>6, <2>8
  <2>11. Len(todo') = 0
    OBVIOUS
  <2> QED BY <2>9, <2>10, <2>11
<1>4. PICK j \in Interfaces, k \in Kinds : Revoke(j, k)
  <2>1. todo' # todo
    OBVIOUS
  <2>2. ASSUME NEW j \in Interfaces, NEW k \in Kinds, Add(j, k)
        PROVE  FALSE
    BY <1>2, <2>2 DEF Add, Does, Step
  <2>3. ASSUME NEW j \in Interfaces, AddProxy(j) \/ Tether(j)
        PROVE  FALSE
    BY <1>2, <2>3 DEF AddProxy, Tether, Does, Step
  <2>4. ASSUME NEW j \in Interfaces, NEW w \in {"dhcp", "internet"},
               WaitOver(j, w) \/ Killed(j, w)
        PROVE  FALSE
    BY <1>2, <2>4 DEF WaitOver, Killed, Does, Step
  <2>5. ~Manager
    BY <2>1 DEF Manager, StartScript, Plug, Unplug, Connect, Prepared,
                Disconnect, inside
  <2>6. ~(UNCHANGED vars)
    BY <2>1 DEF vars
  <2> QED BY <1>3, <2>2, <2>3, <2>4, <2>5, <2>6 DEF Next, Script
<1>5. DownOrdered' /\ RuleInv' /\ todo' = Tail(todo)
  BY <1>4, RevokeDown DEF DownInv, Revoke
<1>6. todo[1] = Step("revoke", k, j)
  BY <1>1, <1>4 DEF Revoke, Does
<1>7. todo # <<running>> /\ todo[1].what = k /\ todo[1].on = j
  BY <1>6 DEF Step
<1>8. Cleaning(i)
  BY <1>7 DEF DownInv, DownOrdered
<1>9. j = i
  BY <1>1, <1>7, <1>8 DEF Cleaning
<1>10. \A m \in DOMAIN todo : m = 1
  <2>1. \A m \in DOMAIN todo : m # 1 => m - 1 \in DOMAIN Tail(todo)
    BY TailSteps DEF DownInv, DownTypes
  <2>2. DOMAIN Tail(todo) = {}
    BY <1>5
  <2> QED BY <2>1, <2>2
<1>11. ASSUME NEW r \in rules', r.on = i
       PROVE  FALSE
  <2>1. r \in rules /\ r.handle \notin files[i][k]
    BY <1>4, <1>9, <1>11 DEF Revoke
  <2>2. r.kind = k
    BY <1>7, <1>8, <1>10, <1>11, <2>1 DEF Cleaning, Goes
  <2> QED BY <1>11, <2>1, <2>2 DEF DownInv, RuleInv, RulesOnFile
<1>12. dnsmasq'[i] = {} \/ i \in doubled
  <2>1. CASE k = "proxy"
    <3>1. i \in doubled \/ dnsmasq[i] \subseteq {pidfile[i]}
      BY DEF DownInv, ServersTell
    <3>2. dnsmasq'[i] = dnsmasq[i] \ {pidfile[i]}
      BY <1>4, <1>9, <2>1 DEF Revoke, DownInv, DownTypes
    <3> QED BY <3>1, <3>2
  <2>2. CASE k # "proxy"
    <3>1. i \in doubled \/ dnsmasq[i] = {}
      BY <1>7, <1>8, <1>10, <2>2 DEF Cleaning, Goes
    <3>2. dnsmasq' = dnsmasq
      BY <1>4, <2>2 DEF Revoke
    <3> QED BY <3>1, <3>2
  <2> QED BY <2>1, <2>2
<1> QED BY <1>11, <1>12

(* "down" takes away all rules of its interface and its dnsmasq (the       *)
(* revoke functions in the order in which the script calls them), unless   *)
(* the name was that of a WAN and of a LAN port, or was taken for both     *)
(* where is_wan_port guesses; no dnsmasq stays unless there were two.      *)
THEOREM DownLeavesNothing == Spec => DownClears
<1>1. DownInv /\ [Next]_vars =>
        [\A i \in Interfaces :
           /\ running = Step("begin", "down", i) /\ todo # <<>> /\ todo' = <<>>
           /\ ~Mixed(i)
           => /\ \A r \in rules' : r.on # i
              /\ dnsmasq'[i] = {} \/ i \in doubled]_vars
  BY LastRevoke
<1> QED BY InitDown, NextDown, <1>1, PTL DEF Spec, DownClears
=============================================================================
