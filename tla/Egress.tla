------------------------------- MODULE Egress --------------------------------
(***************************************************************************)
(* The sandbox policy on its way from a manifest push to the kernel: the  *)
(* manifest store (internal/manifest/manifest.go), the egress firewall    *)
(* (internal/network/firewall.go) and how main.go boots and wires them.   *)
(*                                                                         *)
(* Every iptables command is a process of its own, so the chain changes   *)
(* one rule at a time, any command can fail, and the commands of two      *)
(* pushes interleave: net/http and the tunnel serve each in a goroutine.  *)
(* The chain lives in the kernel and survives the agent; the store does   *)
(* not.                                                                   *)
(*                                                                         *)
(* The store and the kernel speak of different things.  IsNetworkAllowed  *)
(* compares a host and a port with the patterns of the manifest as        *)
(* strings; a rule names an address, and a port or none.  addEntryRules   *)
(* turns one into the other with splitHostPort and resolveHost, one rule  *)
(* per address: a pattern without a port opens every port, and two hosts  *)
(* at one address are one to the kernel.  What DNS answers is a constant; *)
(* whether a lookup succeeds is not.                                      *)
(***************************************************************************)
EXTENDS Integers, Sequences

CONSTANTS
    Pushes,         \* POST /shimmer/manifest requests, one each
    Hosts,          \* the host parts of patterns, and the tunnel's
    Addresses,      \* IP addresses
    Addrs,          \* the addresses a host resolves to; none if it cannot be
    Ports,          \* TCP and UDP ports
    Unset,          \* no port in a pattern, no such argument in a rule
    Tunnel,         \* the tunnel's host and port
    Manifests,      \* the network sections that may be pushed
    NoManifest,     \* store.current = nil
    MaxCrashes      \* bound: how often the agent dies and is started again

\* NetworkEntry.Pattern, "host:port" or "host".
Patterns == [host : Hosts, port : Ports \cup {Unset}]

ASSUME AddrsAssumption == Addrs \in [Hosts -> Seq(Addresses)]
ASSUME TunnelAssumption == Tunnel \in [host : Hosts, port : Ports]
ASSUME PortsAssumption == 53 \in Ports
ASSUME UnsetAssumption ==
    /\ Unset \notin {"lo", "eth", "tcp", "udp"}
    /\ Unset \notin Addresses /\ Unset \notin Ports
ASSUME ManifestsAssumption ==
    Manifests \subseteq Seq(Patterns) /\ NoManifest \notin Manifests
ASSUME MaxCrashesAssumption == MaxCrashes \in Nat

VARIABLES
    phase,      \* where the agent's boot is; "up" once it serves
    fw,         \* Setup returned a firewall
    exists,     \* the chain AETHER_EGRESS exists
    jump,       \* OUTPUT jumps to it
    chain,      \* its rules
    current,    \* store.current; netIndex is rebuilt under the same lock
    man,        \* the manifest of each push
    st,         \* what each push is doing
    step,       \* the part of its Apply, or of init, that is next
    addr,       \* how many rules of that part are done
    crashes,    \* how often the agent has died
    failed,     \* history: a command failed since the chain was last made anew
    recent,     \* history: the pushes that may have rules in it
    overlap     \* history: the last push met another one

kernelVars == <<exists, jump, chain>>
histVars == <<failed, recent, overlap>>
vars == <<phase, fw, kernelVars, current, man, st, step, addr, crashes,
          histVars>>

Agent == "agent"        \* the main goroutine, which runs Setup
ASSUME AgentAssumption == Agent \notin Pushes

(***************************************************************************)
(* iptables: -A appends a rule, -F flushes the chain.                     *)
(***************************************************************************)
Command(target, out, proto, to, port) ==
    [target |-> target, out |-> out, proto |-> proto, to |-> to, port |-> port]

Accept(out, proto, to, port) == Command("ACCEPT", out, proto, to, port)
Drop == Command("DROP", Unset, Unset, Unset, Unset)
Flush == Command("FLUSH", Unset, Unset, Unset, Unset)

Rules == [target : {"ACCEPT", "DROP"}, out : {"lo", Unset},
          proto : {"tcp", "udp", Unset}, to : Addresses \cup {Unset},
          port : Ports \cup {Unset}]

\* Mutant of AddressRules: the port is left out.
AddressRulesAnyPort(e) ==
    [i \in DOMAIN Addrs[e.host] |->
        Accept(Unset, "tcp", Addrs[e.host][i], Unset)]

\* addEntryRules, and the loop over the tunnel's addresses: splitHostPort, then
\* a command for every address of resolveHost, with --dport if there is a port.
AddressRules(e) ==
    [i \in DOMAIN Addrs[e.host] |->
        Accept(Unset, "tcp", Addrs[e.host][i], e.port)]

\* addBaseRules: loopback, the tunnel's addresses, DNS by UDP and by TCP.
Base == <<<<Accept("lo", Unset, Unset, Unset)>>, AddressRules(Tunnel),
          <<Accept(Unset, "udp", Unset, 53)>>,
          <<Accept(Unset, "tcp", Unset, 53)>>>>
-----------------------------------------------------------------------------
Phases == {"create", "flush", "jump", "rules", "up", "down"}

TypeOK ==
    /\ phase \in Phases /\ fw \in BOOLEAN
    /\ exists \in BOOLEAN /\ jump \in BOOLEAN /\ chain \in Seq(Rules)
    /\ current \in Manifests \cup {NoManifest}
    /\ man \in [Pushes -> Manifests \cup {NoManifest}]
    /\ st \in [Pushes -> {"idle", "apply", "done"}]
    /\ step \in [Pushes \cup {Agent} -> Nat \ {0}]
    /\ addr \in [Pushes \cup {Agent} -> Nat]
    /\ crashes \in 0..MaxCrashes
    /\ failed \in BOOLEAN /\ recent \subseteq Pushes
    /\ overlap \in BOOLEAN

Init ==
    /\ phase = "create" /\ fw = FALSE
    /\ exists = FALSE /\ jump = FALSE /\ chain = <<>>
    /\ current = NoManifest
    /\ man = [p \in Pushes |-> NoManifest]
    /\ st = [p \in Pushes |-> "idle"]
    /\ step = [p \in Pushes \cup {Agent} |-> 1]
    /\ addr = [p \in Pushes \cup {Agent} |-> 0]
    /\ crashes = 0 /\ failed = FALSE /\ recent = {} /\ overlap = FALSE

Applying == {p \in Pushes : st[p] = "apply"}
-----------------------------------------------------------------------------
(***************************************************************************)
(* Setup and init: any failure leaves fw nil, which main.go only logs.    *)
(***************************************************************************)
SetupFails ==
    /\ phase' = "up" /\ failed' = TRUE
    /\ UNCHANGED <<fw, kernelVars, current, man, st, step, addr, crashes,
                   recent, overlap>>

\* iptables -N, which fails if the chain is there from an earlier life.
CreateChain ==
    /\ phase = "create"
    /\ phase' = IF exists THEN "flush" ELSE "jump"
    /\ exists' = TRUE
    /\ UNCHANGED <<fw, jump, chain, current, man, st, step, addr, crashes,
                   histVars>>

FlushExisting ==
    /\ phase = "flush"
    /\ phase' = "jump" /\ chain' = <<>>
    /\ UNCHANGED <<fw, exists, jump, current, man, st, step, addr, crashes,
                   histVars>>

\* iptables -C OUTPUT, and -A OUTPUT if the jump is not there.
AddJump ==
    /\ phase = "jump"
    /\ phase' = "rules" /\ jump' = TRUE
    /\ UNCHANGED <<fw, exists, chain, current, man, st, step, addr, crashes,
                   histVars>>

\* What a command makes of the chain.
Execute(command) == IF command = Flush THEN <<>> ELSE Append(chain, command)

NextPart(who) ==
    /\ step' = [step EXCEPT ![who] = @ + 1]
    /\ addr' = [addr EXCEPT ![who] = 0]

\* A part of a script is a command or a loop over addresses.
Advance(who, part) ==
    IF addr[who] + 1 < Len(part)
    THEN addr' = [addr EXCEPT ![who] = @ + 1] /\ UNCHANGED step
    ELSE NextPart(who)

\* addBaseRules, then DROP; the tunnel is its second part.
InitScript == Base \o <<<<Drop>>>>
InitPart == InitScript[step[Agent]]

\* The next command of init succeeds; with the last one Setup returns the
\* firewall.
InitRule ==
    /\ phase = "rules" /\ addr[Agent] < Len(InitPart)
    /\ chain' = Execute(InitPart[addr[Agent] + 1])
    /\ Advance(Agent, InitPart)
    /\ fw' = (step[Agent] = Len(InitScript))
    /\ phase' = IF fw' THEN "up" ELSE phase
    /\ UNCHANGED <<exists, jump, current, man, st, crashes, histVars>>

\* A tunnel rule that fails is logged and passed over; if the lookup fails, or
\* there is nothing to look up, there is none.
InitTunnelFails ==
    /\ phase = "rules" /\ step[Agent] = 2
    /\ Advance(Agent, InitPart) \/ (addr[Agent] = 0 /\ NextPart(Agent))
    /\ failed' = (failed \/ InitPart # <<>>)
    /\ UNCHANGED <<phase, fw, kernelVars, current, man, st, crashes, recent,
                   overlap>>

InitFails ==
    /\ phase \in {"create", "flush", "jump", "rules"}
    /\ phase = "jump" => ~jump
    /\ phase = "rules" => step[Agent] # 2
    /\ SetupFails
-----------------------------------------------------------------------------
(***************************************************************************)
(* A push: Store.Update, whose callbacks run after the lock is released,  *)
(* and the callback main.go registers, Firewall.Apply.                    *)
(***************************************************************************)
\* Store.Update under mu: current and its indexes.  Without a firewall the
\* callback has nothing to do.
Update(p, m) ==
    /\ phase = "up" /\ st[p] = "idle"
    /\ current' = m
    /\ man' = [man EXCEPT ![p] = m]
    /\ st' = [st EXCEPT ![p] = IF fw THEN "apply" ELSE "done"]
    /\ recent' = recent \cup {p} /\ overlap' = (Applying # {})
    /\ UNCHANGED <<phase, fw, kernelVars, step, addr, crashes, failed>>

\* The rules of the entries, one part each.
EntryParts(m) == [i \in DOMAIN m |-> AddressRules(m[i])]

\* Mutant of Script: Apply ends without its DROP.
ScriptNoDrop(m) == <<<<Flush>>>> \o Base \o EntryParts(m)

\* The parts of Apply(m): flush, addBaseRules, the entries, DROP.
Script(m) == <<<<Flush>>>> \o Base \o EntryParts(m) \o <<<<Drop>>>>

Part(p) == Script(man[p])[step[p]]
TunnelPart(p) == step[p] = 3
EntryPart(p) == step[p] \in 6..(Len(man[p]) + 5)

\* The next command of a push's Apply succeeds.
Succeed(p) ==
    /\ st[p] = "apply" /\ addr[p] < Len(Part(p))
    /\ chain' = Execute(Part(p)[addr[p] + 1])
    /\ Advance(p, Part(p))
    /\ st' = [st EXCEPT ![p] =
                 IF step[p] = Len(Script(man[p])) THEN "done" ELSE @]
    /\ IF step[p] = 1 /\ Applying = {p}
       THEN failed' = FALSE /\ recent' = {p}
       ELSE UNCHANGED <<failed, recent>>
    /\ UNCHANGED <<phase, fw, exists, jump, current, man, crashes, overlap>>

\* It fails.  The loop over the tunnel's addresses goes on; an entry that
\* fails, or has no address, is logged and Apply goes on to the next; any other
\* failure ends Apply and leaves the chain as it is.
Fail(p) ==
    /\ st[p] = "apply"
    /\ IF TunnelPart(p) \/ EntryPart(p)
       THEN /\ IF TunnelPart(p) THEN Advance(p, Part(p)) ELSE NextPart(p)
            /\ UNCHANGED st
       ELSE st' = [st EXCEPT ![p] = "done"] /\ UNCHANGED <<step, addr>>
    /\ failed' = (failed \/ Part(p) # <<>>)
    /\ UNCHANGED <<phase, fw, kernelVars, current, man, crashes, recent,
                   overlap>>

\* resolveHost fails: there is no rule for the tunnel, but an entry is given to
\* iptables by name, which looks it up itself and adds all its addresses.
LookupFails(p) ==
    /\ st[p] = "apply" /\ addr[p] = 0 /\ Part(p) # <<>>
    /\ TunnelPart(p) \/ EntryPart(p)
    /\ chain' = IF TunnelPart(p) THEN chain ELSE chain \o Part(p)
    /\ failed' = (failed \/ TunnelPart(p))
    /\ NextPart(p)
    /\ UNCHANGED <<phase, fw, exists, jump, current, man, st, crashes, recent,
                   overlap>>
-----------------------------------------------------------------------------
(***************************************************************************)
(* The agent dies, and is started again.                                  *)
(***************************************************************************)
Crash ==
    /\ phase # "down" /\ crashes < MaxCrashes
    /\ phase' = "down" /\ crashes' = crashes + 1
    /\ fw' = FALSE /\ current' = NoManifest
    /\ st' = [p \in Pushes |-> IF st[p] = "apply" THEN "done" ELSE st[p]]
    /\ UNCHANGED <<kernelVars, man, step, addr, histVars>>

Restart ==
    /\ phase = "down"
    /\ phase' = "create" /\ step' = [step EXCEPT ![Agent] = 1]
    /\ addr' = [addr EXCEPT ![Agent] = 0]
    /\ failed' = FALSE /\ recent' = {} /\ overlap' = FALSE
    /\ UNCHANGED <<fw, kernelVars, current, man, st, crashes>>
-----------------------------------------------------------------------------
Setup ==
    \/ CreateChain \/ FlushExisting \/ AddJump
    \/ InitRule \/ InitTunnelFails \/ InitFails

Push(p) ==
    \/ \E m \in Manifests : Update(p, m)
    \/ Succeed(p) \/ Fail(p) \/ LookupFails(p)

Next == Setup \/ (\E p \in Pushes : Push(p)) \/ Crash \/ Restart

Spec == Init /\ [][Next]_vars
-----------------------------------------------------------------------------
(***************************************************************************)
(* Properties.                                                            *)
(***************************************************************************)
Packets == [out : {"lo", "eth"}, proto : {"tcp", "udp"}, to : Addresses,
            port : Ports]

Packet(to, port) == [out |-> "eth", proto |-> "tcp", to |-> to, port |-> port]

\* A rule decides about the packets that have all its arguments.
Accepts(rule, k) ==
    /\ rule.target = "ACCEPT"
    /\ rule.out \in {Unset, k.out} /\ rule.proto \in {Unset, k.proto}
    /\ rule.to \in {Unset, k.to} /\ rule.port \in {Unset, k.port}

\* What the kernel does with a packet: the first rule of the chain that decides
\* about it, or acceptance by OUTPUT's own policy.
Dropped(k) ==
    /\ jump
    /\ \E i \in DOMAIN chain :
          chain[i] = Drop /\ \A j \in 1..(i - 1) : ~Accepts(chain[j], k)

\* One of the rules of a part of a script accepts the packet.
Opens(part, k) == \E i \in DOMAIN part : Accepts(part[i], k)

\* addBaseRules lets it out.
Exempt(k) == \E i \in DOMAIN Base : Opens(Base[i], k)

\* An entry of the manifest names the packet's address, and its port or none.
Names(m, k) ==
    \E i \in DOMAIN m :
        /\ k.proto = "tcp" /\ m[i].port \in {Unset, k.port}
        /\ \E j \in DOMAIN Addrs[m[i].host] : Addrs[m[i].host][j] = k.to

\* No Apply is under way.
AtRest == phase = "up" /\ fw /\ Applying = {}

HasManifest == current # NoManifest

\* IsNetworkAllowed: the string host:port is in netIndex.
Allowed(host, port) ==
    /\ HasManifest
    /\ \E i \in DOMAIN current : current[i] = [host |-> host, port |-> port]

\* Once a push that met no other push and no failure is applied, the kernel
\* lets out exactly the exemptions and what the entries of the store's manifest
\* name, and among it all that IsNetworkAllowed allows, at every address of the
\* host: whatever state earlier failures, races or lives of the agent left
\* behind (firewall.go:43-68, 141-195, manifest.go:68-80, 104-114).
\* IsNetworkAllowed is the narrower one: it denies every port of a pattern
\* without one, and knows nothing of a host that shares an address.
ExactAtRest ==
    (AtRest /\ ~failed /\ ~overlap) =>
        /\ \A k \in Packets :
              Dropped(k) <=> ~Exempt(k) /\ ~(HasManifest /\ Names(current, k))
        /\ \A h \in Hosts, n \in Ports :
              Allowed(h, n) =>
                  \A i \in DOMAIN Addrs[h] : ~Dropped(Packet(Addrs[h][i], n))

\* However pushes overlap, as long as no command fails a packet that none of
\* them names and nothing exempts gets out only between the flush and the DROP
\* of a running Apply (firewall.go:45-62): their rules may mix, but the mixture
\* ends closed.
ClosedOutsideApply ==
    \A k \in Packets :
        (phase = "up" /\ ~failed /\ ~Dropped(k) /\ ~Exempt(k)
            /\ \A p \in recent : ~Names(man[p], k))
        => \E p \in Applying : step[p] > 1

\* Setup makes room for nobody: when the agent begins to serve with a firewall
\* it drops everything but the exemptions, also after a crash in the middle of
\* an Apply (firewall.go:79-110).
BootsClosed ==
    [][(phase # "up" /\ phase' = "up" /\ fw')
          => \A k \in Packets : Dropped(k)' \/ Exempt(k)]_vars

\* firewall.go:3 says of the chain: "Allows loopback, DNS, and the tunnel
\* endpoint."  So whenever no Apply is under way and no command has failed, the
\* agent can reach its backend.
TunnelReachable ==
    (AtRest /\ ~failed) =>
        \A i \in DOMAIN Addrs[Tunnel.host] :
            ~Dropped(Packet(Addrs[Tunnel.host][i], Tunnel.port))
=============================================================================
