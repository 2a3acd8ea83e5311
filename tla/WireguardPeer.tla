---------------------------- MODULE WireguardPeer ----------------------------
(***************************************************************************)
(* WireguardPeer of vpplink/types/wireguard.go: the peer record the agent  *)
(* compares with Equal to decide whether VPP's peer must be reprogrammed,  *)
(* and whose AllowedIPs list it edits with AddAllowedIP / DelAllowedIP.    *)
(*                                                                         *)
(* The scalar fields Equal compares one by one (Index, PublicKey, Port,    *)
(* TableID, SwIfIndex, Addr, PersistentKeepalive) are abstracted to one    *)
(* value of Attrs; an allowed IP is its String() form, a value of IPNets.  *)
(* Peers start with no allowed IP and are edited only through the two      *)
(* methods.                                                                *)
(***************************************************************************)
EXTENDS Naturals, Sequences, SequencesExt

CONSTANTS
  PeerNames,  \* the peer records
  Attrs,      \* the scalar fields of a peer, taken together
  IPNets    \* allowed IP prefixes (net.IPNet.String())

VARIABLES peers  \* peer -> [attrs, allowed: Seq(IPNets)]

vars == <<peers>>

\* type WireguardPeer struct: the fields Equal looks at.
Peer == [attrs: Attrs, allowed: Seq(IPNets)]

\* allowedIpsMap: the set of the String() of every allowed IP.
AllowedIpsMap(t) == ToSet(t.allowed)

\* Equal(o): same scalar fields, as many allowed IPs, and each of o's found
\* in t's map.
Equal(t, o) ==
  /\ o.attrs = t.attrs
  /\ Len(t.allowed) = Len(o.allowed)
  /\ \A i \in DOMAIN o.allowed : o.allowed[i] \in AllowedIpsMap(t)

\* Fault variant of AddAllowedIP: appends without looking the prefix up.
AddAllowedIPNoCheck(p, a) ==
  peers' = [peers EXCEPT ![p].allowed = Append(@, a)]

\* AddAllowedIP: appended only if its String() is not in the map yet.
AddAllowedIP(p, a) ==
  /\ a \notin AllowedIpsMap(peers[p])
  /\ peers' = [peers EXCEPT ![p].allowed = Append(@, a)]

\* DelAllowedIP: keeps, in order, every allowed IP with another String().
DelAllowedIP(p, a) ==
  peers' = [peers EXCEPT ![p].allowed = SelectSeq(@, LAMBDA x : x # a)]

Init == peers \in [PeerNames -> [attrs: Attrs, allowed: {<<>>}]]

Next ==
  \E p \in PeerNames, a \in IPNets : AddAllowedIP(p, a) \/ DelAllowedIP(p, a)

Spec == Init /\ [][Next]_vars

-----------------------------------------------------------------------------
(* Properties.                                                             *)

\* The reference: two peers are the same configuration when their scalar
\* fields agree and they allow the same set of prefixes.
SamePeer(t, o) == t.attrs = o.attrs /\ ToSet(t.allowed) = ToSet(o.allowed)

\* Equal, which only checks o's allowed IPs against t's map after
\* comparing the lengths, decides exactly SamePeer, in both directions, for
\* every pair of peers built with AddAllowedIP and DelAllowedIP: the
\* length test is sound only because AddAllowedIP never stores a prefix
\* twice.
EqualMeansSamePeer ==
  \A x, y \in PeerNames : Equal(peers[x], peers[y]) <=> SamePeer(peers[x], peers[y])

=============================================================================
