----------------------------- MODULE Dispatcher -----------------------------
(***************************************************************************)
(* 02-hood-dispatcher: the script that gives an interface its firewall     *)
(* rules, its network and its dnsmasq, and takes them away.                *)
(*                                                                         *)
(* NetworkManager runs it for one event at a time, in the order of the     *)
(* events, and kills it after ten minutes, which only its waiting loops    *)
(* take.  An event says what happened to a name; which port of the machine *)
(* is behind that name the script finds out when its turn comes.           *)
(*                                                                         *)
(* The rules that one call of nft_handle_to_file's callers makes are one   *)
(* group with one handle.  A port is plugged in at any time but within the *)
(* moment between two waits of a script; it may go at any time.            *)
(***************************************************************************)
EXTENDS Integers, Sequences, FiniteSets

CONSTANTS Interfaces,   \* names of network devices, without lo
          BuiltIn,      \* eth0 and eno1
          Gadgets,      \* those of the USB gadget, in the order of ls
          Subnets,      \* 254 in the code: third bytes 2..255
          MaxMoves      \* bound: plugs and connections that are made

Plugged == {i \in Interfaces : \A k \in DOMAIN Gadgets : Gadgets[k] # i}

ASSUME DispatcherAssumption ==
  /\ BuiltIn \subseteq Interfaces
  /\ Gadgets \in Seq(Interfaces)
  /\ Subnets \in Nat /\ Subnets >= 2
  /\ MaxMoves \in Nat

Kinds == {"dhcp", "arp", "internet", "proxy"}

VARIABLES device,    \* the port behind a name: "wan", "lan" or "none"
          manager,   \* NetworkManager: "off", "preparing", "on"
          events,    \* its events that have not been handled
          moves,     \* how many plugs were put in and connections made
          running,   \* the event the script was started for
          todo,      \* what the script has still to do
          wan_port_path, \* "known", or as the installer leaves it
          marked,    \* /tmp/hood/$1-is-wan-port exists
          rules,     \* the rules that have been added and not deleted
          files,     \* the handles in /tmp/hood/$1_<kind>_rule
          handle,    \* the kernel's next handle
          counter,   \* /tmp/hood/counter, 0 when there is none
          network,   \* /tmp/hood/$1-address: its third byte, 0 for none
          dnsmasq,   \* the dnsmasq processes of an interface
          pidfile,   \* /tmp/hood/dnsmasq-$1.pid
          given,     \* history: how many networks have been given
          since,     \* history: which of them network is
          ports,     \* history: what has ever been behind a name
          roles,     \* history: what is_wan_port has ever said of it
          doubled    \* history: names that had two dnsmasq at a time

outside == <<device, manager, events, moves, ports>>
marks == <<wan_port_path, marked, roles>>
firewall == <<rules, files, handle>>
networks == <<counter, network, dnsmasq, pidfile, given, since, doubled>>
vars == <<outside, running, todo, marks, firewall, networks>>

Nothing == [do |-> "nothing", on |-> "nothing", what |-> "nothing"]

Init == /\ device = [i \in Interfaces |-> "none"]
        /\ manager = [i \in Interfaces |-> "off"]
        /\ events = <<>> /\ moves = 0
        /\ running = Nothing /\ todo = <<>>
        /\ wan_port_path \in {"known", "auto-built-in-eth"}
        /\ marked = {} /\ roles = [i \in Interfaces |-> {}]
        /\ rules = {} /\ handle = 1
        /\ files = [i \in Interfaces |-> [k \in Kinds |-> {}]]
        /\ counter = 0 /\ given = 0
        /\ network = [i \in Interfaces |-> 0]
        /\ since = [i \in Interfaces |-> 0]
        /\ dnsmasq = [i \in Interfaces |-> {}]
        /\ pidfile = [i \in Interfaces |-> 0]
        /\ ports = [i \in Interfaces |-> {}]
        /\ doubled = {}

-----------------------------------------------------------------------------
(* What a script does, step by step                                        *)

Step(do, what, i) == [do |-> do, on |-> i, what |-> what]

Waiting == todo # <<>> => Head(todo).do = "wait"

(* Mutant: a LAN port keeps its arp rules.                                 *)
RevokedWithoutArp(role) == IF role = "wan" THEN <<"dhcp", "arp", "internet">>
                           ELSE <<"proxy">>

Granted(role) == IF role = "wan" THEN <<"dhcp", "arp">> ELSE <<"proxy", "arp">>

Revoked(role) == IF role = "wan" THEN <<"dhcp", "arp", "internet">>
                 ELSE <<"proxy", "arp">>

Each(do, kinds, i) == [k \in DOMAIN kinds |-> Step(do, kinds[k], i)]

(* The branches at the end of the script; "up" of a LAN port does nothing. *)
Plan(event, role, i) ==
  CASE event = "pre-up" -> Each("add", Granted(role), i)
    [] event = "down"   -> Each("revoke", Revoked(role), i)
    [] OTHER -> IF role = "lan" THEN <<>>
                ELSE <<Step("wait", "dhcp", i), Step("revoke", "dhcp", i),
                       Step("add", "internet", i), Step("wait", "internet", i),
                       Step("tether", "gadgets", i)>>

Guessing == wan_port_path = "auto-built-in-eth"

(* is_wan_port.  Where the path of the port is known, the device decides,  *)
(* and without a device the mark.  Where it is not, the name decides, and  *)
(* how many interfaces there are at the moment.                            *)
Role(i) ==
  LET present == {j \in Interfaces : device[j] # "none"}
      wan == IF Guessing THEN i \in BuiltIn \/ Cardinality(present) = 1
             ELSE device[i] = "wan" \/ (device[i] = "none" /\ i \in marked)
  IN  IF wan THEN "wan" ELSE "lan"

Does(do, what, i) == todo # <<>> /\ Head(todo) = Step(do, what, i)

(* The script starts, also that of a gadget from within another.  "down"   *)
(* of a WAN port is to remove the mark, but del is no command.             *)
Begin(i, event) ==
  /\ Does("begin", event, i)
  /\ marked' = IF ~Guessing /\ device[i] = "wan" THEN marked \cup {i}
               ELSE marked
  /\ roles' = [roles EXCEPT ![i] = @ \cup {Role(i)}]
  /\ todo' = Plan(event, Role(i), i) \o Tail(todo)
  /\ UNCHANGED <<outside, running, wan_port_path, firewall, networks>>

(* Mutant: the file is written anew.                                       *)
NftToNewFile(i, k) ==
  IF device[i] = "none" THEN UNCHANGED firewall
  ELSE /\ rules' = rules \cup {[on |-> i, kind |-> k, handle |-> handle]}
       /\ files' = [files EXCEPT ![i][k] = {handle}]
       /\ handle' = handle + 1

(* nft refuses a rule for a device that is gone and prints no handle.      *)
NftHandleToFile(i, k) ==
  IF device[i] = "none" THEN UNCHANGED firewall
  ELSE /\ rules' = rules \cup {[on |-> i, kind |-> k, handle |-> handle]}
       /\ files' = [files EXCEPT ![i][k] = @ \cup {handle}]
       /\ handle' = handle + 1

(* add_arp_access_on, add_dhcp_client_access_on, internet_access_on.       *)
Add(i, k) ==
  /\ k # "proxy" /\ Does("add", k, i)
  /\ todo' = Tail(todo)
  /\ NftHandleToFile(i, k)
  /\ UNCHANGED <<outside, running, marks, networks>>

(* Mutant: one subnet less comes round.                                    *)
NextCounterShort(c) == 2 + ((c - 1) % (Subnets - 1))

NextCounter(c) == 2 + ((c - 1) % Subnets)

(* proxy_access_on.  dnsmasq starts beside one that is running already,    *)
(* and not at all for a device that is gone.                               *)
AddProxy(i) ==
  /\ Does("add", "proxy", i)
  /\ todo' = Tail(todo)
  /\ \E c \in IF counter = 0 THEN 2..Subnets ELSE {counter} :
       counter' = NextCounter(c)
  /\ given' = given + 1
  /\ network' = [network EXCEPT ![i] = counter']
  /\ since' = [since EXCEPT ![i] = given']
  /\ NftHandleToFile(i, "proxy")
  /\ IF device[i] = "none" THEN UNCHANGED <<dnsmasq, pidfile, doubled>>
     ELSE /\ dnsmasq' = [dnsmasq EXCEPT ![i] = @ \cup {given'}]
          /\ pidfile' = [pidfile EXCEPT ![i] = given']
          /\ doubled' = IF dnsmasq[i] = {} THEN doubled ELSE doubled \cup {i}
  /\ UNCHANGED <<outside, running, marks>>

(* The revoke functions: delete what the file names, remove the file.  The *)
(* last thing revoke_proxy_access_on does is to kill dnsmasq.              *)
Revoke(i, k) ==
  /\ Does("revoke", k, i)
  /\ todo' = Tail(todo)
  /\ rules' = {r \in rules : r.handle \notin files[i][k]}
  /\ files' = [files EXCEPT ![i][k] = {}]
  /\ dnsmasq' = IF k = "proxy" THEN [dnsmasq EXCEPT ![i] = @ \ {pidfile[i]}]
                ELSE dnsmasq
  /\ UNCHANGED <<outside, running, marks, handle, counter, network, pidfile,
                 given, since, doubled>>

(* wait_dhcp_success needs the device, wait_internet_access the network.   *)
WaitOver(i, what) ==
  /\ Does("wait", what, i)
  /\ what = "dhcp" => device[i] # "none"
  /\ todo' = Tail(todo)
  /\ UNCHANGED <<outside, running, marks, firewall, networks>>

(* NetworkManager's time for a script is over.                             *)
Killed(i, what) ==
  /\ Does("wait", what, i)
  /\ todo' = <<>>
  /\ UNCHANGED <<outside, running, marks, firewall, networks>>

(* The gadget's devices exist from now on, and the script calls itself for *)
(* each of them, at every "up" of the WAN port.                            *)
Tether(i) ==
  /\ Does("tether", "gadgets", i)
  /\ device' = [g \in Interfaces |->
                  IF g \in Plugged THEN device[g] ELSE "lan"]
  /\ ports' = [g \in Interfaces |->
                 IF g \in Plugged THEN ports[g] ELSE {"lan"}]
  /\ todo' = [k \in DOMAIN Gadgets |-> Step("begin", "pre-up", Gadgets[k])]
             \o Tail(todo)
  /\ UNCHANGED <<manager, events, moves, running, marks, firewall, networks>>

Script == \E i \in Interfaces :
            \/ \E e \in {"pre-up", "up", "down"} : Begin(i, e)
            \/ \E k \in Kinds : Add(i, k) \/ Revoke(i, k)
            \/ AddProxy(i) \/ Tether(i)
            \/ \E w \in {"dhcp", "internet"} : WaitOver(i, w) \/ Killed(i, w)

-----------------------------------------------------------------------------
(* Who pulls plugs, and NetworkManager                                     *)

inside == <<todo, running, marks, firewall, networks>>

Plug(i, port) ==
  /\ Waiting
  /\ device[i] = "none"
  /\ moves < MaxMoves
  /\ port = "wan" => \A j \in Interfaces : device[j] # "wan"
  /\ device' = [device EXCEPT ![i] = port]
  /\ ports' = [ports EXCEPT ![i] = @ \cup {port}]
  /\ moves' = moves + 1
  /\ UNCHANGED <<inside, manager, events>>

Leave(i) ==
  IF manager[i] = "on"
  THEN /\ manager' = [manager EXCEPT ![i] = "off"]
       /\ events' = Append(events, Step("begin", "down", i))
  ELSE UNCHANGED <<manager, events>>

Unplug(i) ==
  /\ device[i] # "none"
  /\ device' = [device EXCEPT ![i] = "none"]
  /\ Leave(i)
  /\ UNCHANGED <<inside, moves, ports>>

Connect(i) ==
  /\ device[i] # "none" /\ manager[i] = "off"
  /\ moves < MaxMoves
  /\ moves' = moves + 1
  /\ manager' = [manager EXCEPT ![i] = "preparing"]
  /\ events' = Append(events, Step("begin", "pre-up", i))
  /\ UNCHANGED <<inside, device, ports>>

(* NetworkManager waits for "pre-up"; a device that is gone by then it     *)
(* gives up without an event.                                              *)
Prepared(i) ==
  /\ manager[i] = "preparing"
  /\ \A s \in {events[k] : k \in DOMAIN events} \cup
              {todo[k] : k \in DOMAIN todo} : s.on # i
  /\ IF device[i] = "none"
     THEN /\ manager' = [manager EXCEPT ![i] = "off"]
          /\ UNCHANGED events
     ELSE /\ manager' = [manager EXCEPT ![i] = "on"]
          /\ events' = Append(events, Step("begin", "up", i))
  /\ UNCHANGED <<inside, device, moves, ports>>

Disconnect(i) ==
  /\ manager[i] = "on"
  /\ Leave(i)
  /\ UNCHANGED <<inside, device, moves, ports>>

StartScript ==
  /\ todo = <<>> /\ events # <<>>
  /\ todo' = <<Head(events)>>
  /\ running' = Head(events)
  /\ events' = Tail(events)
  /\ UNCHANGED <<device, manager, moves, ports, marks, firewall, networks>>

Manager == \/ StartScript
           \/ \E i \in Plugged :
                \/ \E port \in {"wan", "lan"} : Plug(i, port)
                \/ Unplug(i) \/ Connect(i) \/ Prepared(i) \/ Disconnect(i)

Next == Script \/ Manager

Spec == Init /\ [][Next]_vars

-----------------------------------------------------------------------------
(* Properties *)

(* Whatever scripts are killed, repeated or run under another role than    *)
(* the one before: the files name the rules that are in the kernel, no     *)
(* other interface's and none that is gone, so that a later revoke can     *)
(* still remove them.                                                      *)
RulesOnFile ==
  \A i \in Interfaces, k \in Kinds :
    files[i][k] = {r.handle : r \in {q \in rules : q.on = i /\ q.kind = k}}

(* Two interfaces have the same network only when all other networks have  *)
(* been given in between.                                                  *)
NetworksApart ==
  \A i, j \in Interfaces :
    i # j /\ network[i] # 0 /\ network[i] = network[j] =>
      \/ since[i] >= since[j] + Subnets
      \/ since[j] >= since[i] + Subnets

(* A name was that of a WAN port and of a LAN port; where the script       *)
(* guesses, it has been run for the name as for both.                      *)
Mixed(i) == (IF Guessing THEN roles[i] ELSE ports[i]) = {"wan", "lan"}

(* "down" leaves no rule of its interface behind, unless the name is mixed *)
(* up as above, and no dnsmasq, unless two were started on it without a    *)
(* "down" between them.                                                    *)
DownClears ==
  [][\A i \in Interfaces :
       /\ running = Step("begin", "down", i) /\ todo # <<>> /\ todo' = <<>>
       /\ ~Mixed(i)
       => /\ \A r \in rules' : r.on # i
          /\ dnsmasq'[i] = {} \/ i \in doubled]_vars
=============================================================================
