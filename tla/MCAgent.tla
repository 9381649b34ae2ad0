------------------------------ MODULE MCAgent -------------------------------
(***************************************************************************)
(* Instances of Agent for TLC.  The SPI range is scaled down to 0..7, its  *)
(* half to 4 and unsigned long to 0..63.                                   *)
(***************************************************************************)
EXTENDS Agent

CONSTANTS x, y, p, q, h1, h2, gw, s1, s2

Sa(spi, mode, remote, tunnel) ==
  [spi |-> spi, ipsec_mode |-> mode,
   remote_subnet |-> remote, tunnel_remote |-> tunnel]

Policy(dir, sel) == [policy_dir |-> dir, selector |-> sel]

\* Transport-mode SAs, each with an SPI of its own; x may be rekeyed.
DistinctSas == (x :> {Sa(1, "transport", h1, h1), Sa(3, "transport", h1, h1)})
            @@ (y :> {Sa(2, "transport", h2, h2)})

\* One configuration per entry.
PlainSas == (x :> {Sa(1, "transport", h1, h1)}) @@ (y :> {Sa(2, "transport", h2, h2)})

\* Two entries for one SA of the kernel; x may be modified in a field that is
\* not part of the SA's identity.
SharedSas == (x :> {Sa(1, "transport", h1, h1), Sa(1, "transport", h1, h2)})
          @@ (y :> {Sa(1, "transport", h1, h1)})

PlainSas1 == x :> {Sa(1, "transport", h1, h1)}

\* A gateway-to-gateway SA, as in tests/sysrepo_load_config/add_sad.xml.
TunnelSas == x :> {Sa(1, "tunnel", h1, gw)}

NoSas == << >>

\* An inbound and an outbound policy, with selectors of their own.
DistinctPolicies == (p :> {Policy("inbound", s1), Policy("outbound", s1)})
                 @@ (q :> {Policy("inbound", s2)})

NoPolicies == << >>

\* Another program may install the SA of SharedSas first.
Foreign == {<<h1, 1>>}

=============================================================================
