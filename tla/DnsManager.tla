----------------------------- MODULE DnsManager -----------------------------
(***************************************************************************)
(* DNSManager (dns/service.py) over a provider (dns/godaddy.py): the       *)
(* record set of each public name, changed by ensure_record and            *)
(* delete_record.                                                          *)
(*                                                                         *)
(* Both calls read the record set, replace it when it is not the one they  *)
(* want, and put back what they read when the replacement raises.  Every   *)
(* step is one HTTP request.  A request that raises may have been applied: *)
(* a time-out, a broken connection and an unreadable answer look the same. *)
(***************************************************************************)
EXTENDS Gateways

CONSTANTS
    Names,          \* public names, by the order sync_devices treats them in
    Operational,    \* GWAY_VPN_HOSTNAME and GWAY_REGISTER_HOSTNAME
    Foreign         \* record sets that others wrote for such names

Ours == "gateway"       \* one A record with the public gateway address
Nothing == "nothing"    \* no A record
Records == Foreign \cup {Ours, Nothing}

ASSUME DnsManagerAssumption ==
    /\ Names \subseteq Nat
    /\ Operational \subseteq Names
    /\ \A o \in Operational, n \in Names \ Operational : o < n
    /\ Ours \notin Foreign

VARIABLES
    zone,   \* the A record set of each name, at the provider
    dns     \* the manager call each process is in, or None

dnsVars == <<zone, dns>>

DnsCall == [step: {"get", "put", "revert"}, name: Names,
            want: {Ours, Nothing}, previous: Records]

ASSUME DnsCallAssumption == None \notin DnsCall

DnsTypeOK ==
    /\ zone \in [Names -> Records]
    /\ dns \in [Procs -> DnsCall \cup {None}]

DnsInit ==
    /\ zone \in [Names -> Foreign \cup {Nothing}]
    /\ dns = [p \in Procs |-> None]

-----------------------------------------------------------------------------
AtDns(p, step) == dns[p] # None /\ dns[p].step = step

DnsBegins(p, n, want) ==
    dns' = [dns EXCEPT ![p] =
        [step |-> "get", name |-> n, want |-> want, previous |-> Nothing]]

EnsureRecord(p, n) == DnsBegins(p, n, Ours)
DeleteRecord(p, n) == DnsBegins(p, n, Nothing)

DnsEnds(p) == dns' = [dns EXCEPT ![p] = None]

\* A request that should leave records r at name n: it does, or it raises.
Sets(n, r) == zone' = [zone EXCEPT ![n] = r]
Loses(n, r) == Sets(n, r) \/ UNCHANGED zone

\* get_records answers what is wanted: nothing changes.
AlreadyThere(p) ==
    /\ AtDns(p, "get")
    /\ zone[dns[p].name] = dns[p].want
    /\ DnsEnds(p)
    /\ UNCHANGED zone

GetRecords(p) ==
    /\ AtDns(p, "get")
    /\ zone[dns[p].name] # dns[p].want
    /\ dns' = [dns EXCEPT ![p].step = "put", ![p].previous = zone[dns[p].name]]
    /\ UNCHANGED zone

\* replace_records or delete_records.
PutRecords(p) ==
    /\ AtDns(p, "put")
    /\ Sets(dns[p].name, dns[p].want)
    /\ DnsEnds(p)

PutRaises(p) ==
    /\ AtDns(p, "put")
    /\ Loses(dns[p].name, dns[p].want)
    /\ dns' = [dns EXCEPT ![p].step = "revert"]

GetRaises(p) ==
    /\ AtDns(p, "get")
    /\ DnsEnds(p)
    /\ UNCHANGED zone

\* The except clause, after which the call raises, restored or not.
MutRevert(p) ==
    /\ AtDns(p, "revert")
    /\ DnsEnds(p)
    /\ UNCHANGED zone
Revert(p) ==
    /\ AtDns(p, "revert")
    /\ Sets(dns[p].name, dns[p].previous)
    /\ DnsEnds(p)

RevertRaises(p) ==
    /\ AtDns(p, "revert")
    /\ Loses(dns[p].name, dns[p].previous)
    /\ DnsEnds(p)
=============================================================================
