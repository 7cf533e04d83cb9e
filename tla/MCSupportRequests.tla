------------------------ MODULE MCSupportRequests ------------------------
(* A small workspace: a member who owns devices, a helper who asks for     *)
(* support, and a person of the same name in a second tenant.              *)
EXTENDS SupportRequests

CONSTANTS home, away, ann, bob

MCTenants == {home, away}

MCSubjects == {ann, bob}

MCPrincipals ==
  { [tenant |-> home, subject |-> ann, roles |-> {"member"}],
    [tenant |-> home, subject |-> bob, roles |-> {"support", "tenant_admin"}],
    [tenant |-> away, subject |-> bob, roles |-> {"tenant_admin"}] }

MCLifetimes == {1}
===========================================================================
