----------------------------- MODULE ServerSetup -----------------------------
(***************************************************************************)
(* What a server is set up with: the start-up of several instances, the    *)
(* certificates of one of them, and the identities two instances put into  *)
(* their connection ids.  The three share no state.                        *)
(***************************************************************************)
EXTENDS ServerStart, ServerTls, QuicLb

CONSTANTS
    LbConfigs,  \* [id, nonce, rotation]: what instances are configured with
    Octets      \* values the random octets of a connection id take

ASSUME SetupAssumption ==
    /\ Octets \subseteq 0..255
    /\ \A config \in LbConfigs :
         config.id \in Seq(Nat) /\ config.nonce \in Nat /\ config.rotation \in Nat

VARIABLE lb  \* [issuer, other, first, random]: two instances and an id

setupVars == <<lb, startVars, tlsVars>>

LbInit == lb \in [issuer : LbConfigs, other : LbConfigs, first : Octets, random : Octets]
SetupInit == StartInit /\ TlsInit /\ LbInit
SetupNext ==
    \/ StartNext /\ UNCHANGED <<lb, tlsVars>>
    \/ TlsNext /\ UNCHANGED <<lb, startVars>>
SetupSpec == SetupInit /\ [][SetupNext]_setupVars

\* A connection id leads back to the instance that issued it, whatever the
\* instances' identities, and never to another (quic_lb.rs).
CidRoutes == RoutesHome(lb.issuer, lb.other, lb.first, lb.random)

\* A server that is up is what its options asked for: steered, with its
\* certificates, behind ids that route to it.
SetupSafe == StartTypeOK /\ TlsTypeOK /\ SteeredOrFailed /\ SniNeedsDefault /\ CidRoutes

\* Starting evicts nobody; certificate updates take effect whole or not at
\* all, and clients see what is in effect.
SetupSteps == NoEviction /\ RefusedChangesNothing /\ ClosedFrozen /\ HelloHonest
=============================================================================
