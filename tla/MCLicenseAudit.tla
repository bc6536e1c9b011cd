--------------------------- MODULE MCLicenseAudit ---------------------------
(* The metadata that callers of the license server pass.                   *)
EXTENDS LicenseAudit

\* product deletion, customer.create, license.revoke
StableMetadata == {<<>>, <<"name", "email">>, <<"reason", "crlVersion", "revocationId">>}

\* A refused admin.login, admin_user.suspend.
AllMetadata == StableMetadata \cup {<<"result", "reason">>, <<"targetId", "result">>}

=============================================================================
