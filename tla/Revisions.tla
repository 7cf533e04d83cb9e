------------------------------ MODULE Revisions ------------------------------
(***************************************************************************)
(* The upgrades of alembic/versions as data: per revision the DDL          *)
(* statements in their order, each with the object it creates or drops and *)
(* the objects that make it skip, and whether the revision ends by writing *)
(* the row of installation_state.  An object is a table, an index or a     *)
(* column added later; the columns and keys inside a CREATE TABLE come and *)
(* go with their table.                                                    *)
(***************************************************************************)
EXTENDS Sequences

\* One CREATE TABLE, CREATE INDEX or ALTER TABLE ADD COLUMN, skipped when the inspection
\* has seen one of `unless`.
Create(object, unless) == [do |-> "create", object |-> object, unless |-> unless]

\* One DROP TABLE, skipped when the inspection has not seen the table.
Drop(object) == [do |-> "drop", object |-> object, unless |-> {}]

CreateIfMissing(object) == Create(object, {object})

\* A table with its index, created together when the table is missing.
TableWithIndex(table, index) == <<CreateIfMissing(table), Create(index, {table})>>

Revision(statements) == [statements |-> statements, decides |-> FALSE]

----------------------------------------------------------------------------

\* Every table and, unlike in the later revisions, every index for itself.
Foundation ==
  Revision(<<CreateIfMissing("devices"),
             CreateIfMissing("support_requests"),
             CreateIfMissing("audit_events"),
             CreateIfMissing("ix_devices_tenant_id"),
             CreateIfMissing("ix_devices_owner_id"),
             CreateIfMissing("ix_support_requests_tenant_id"),
             CreateIfMissing("ix_audit_events_tenant_id")>>)

WireguardVpn ==
  Revision(TableWithIndex("vpn_networks", "ix_vpn_networks_tenant_id")
           \o TableWithIndex("vpn_peers", "ix_vpn_peers_tenant_id"))

AdminTestbed ==
  Revision(<<CreateIfMissing("workspaces")>>
           \o TableWithIndex("workspace_users", "ix_workspace_users_tenant_id")
           \o TableWithIndex("api_tokens", "ix_api_tokens_tenant_id"))

UserClientPolicy ==
  Revision(<<CreateIfMissing("workspace_users.password_hash"),
             CreateIfMissing("workspace_users.vpn_address"),
             CreateIfMissing("workspace_users.allowed_ips"),
             CreateIfMissing("workspace_users.policy_version")>>)

InstallationBootstrap ==
  [statements |-> <<CreateIfMissing("installation_state")>>, decides |-> TRUE]

ClientDistribution ==
  Revision(TableWithIndex("file_servers", "ix_file_servers_tenant_id")
           \o TableWithIndex("client_deployment_profiles",
                             "ix_client_deployment_profiles_tenant_id")
           \o TableWithIndex("client_enrollment_codes", "ix_client_enrollment_codes_tenant_id")
           \o <<Create("ix_client_enrollment_codes_profile_id", {"client_enrollment_codes"})>>)

LoginDelivery ==
  Revision(<<CreateIfMissing("client_deployment_profiles.deliver_vpn_on_login"),
             CreateIfMissing("client_deployment_profiles.deliver_file_servers_on_login"),
             Drop("workspaces")>>)

Releases ==
  <<Foundation, WireguardVpn, AdminTestbed, UserClientPolicy, InstallationBootstrap,
    ClientDistribution, LoginDelivery>>

----------------------------------------------------------------------------
(* What the code of this build uses: the tables and later columns, and the *)
(* indexes, of models.py.                                                  *)

Tables ==
  {"devices", "support_requests", "audit_events", "vpn_networks", "vpn_peers",
   "workspace_users", "api_tokens", "installation_state", "file_servers",
   "client_deployment_profiles", "client_enrollment_codes"}

LateColumns ==
  {"workspace_users.password_hash", "workspace_users.vpn_address",
   "workspace_users.allowed_ips", "workspace_users.policy_version",
   "client_deployment_profiles.deliver_vpn_on_login",
   "client_deployment_profiles.deliver_file_servers_on_login"}

Indexes ==
  {"ix_devices_tenant_id", "ix_devices_owner_id", "ix_support_requests_tenant_id",
   "ix_audit_events_tenant_id", "ix_vpn_networks_tenant_id", "ix_vpn_peers_tenant_id",
   "ix_workspace_users_tenant_id", "ix_api_tokens_tenant_id", "ix_file_servers_tenant_id",
   "ix_client_deployment_profiles_tenant_id", "ix_client_enrollment_codes_tenant_id",
   "ix_client_enrollment_codes_profile_id"}

OrmSchema == Tables \cup LateColumns \cup Indexes

\* What Base.metadata.create_all() left behind before Alembic: all of the models, or the
\* part of them the baseline revision adopts.
BaselineTables == {"devices", "support_requests", "audit_events"}
Baseline ==
  BaselineTables \cup {"ix_devices_tenant_id", "ix_devices_owner_id",
                       "ix_support_requests_tenant_id", "ix_audit_events_tenant_id"}
=============================================================================
