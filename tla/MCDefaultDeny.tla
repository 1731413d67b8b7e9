---------------------------- MODULE MCDefaultDeny ----------------------------
(* DefaultDeny instantiated for TLC.                                        *)
EXTENDS DefaultDeny

CONSTANTS front, back   \* names of two servers

\* Two servers declared by name alone.
ByName == {<<front, Legacy>>, <<back, Legacy>>}

\* One declared with its kind.
ByKind == {<<front, "Deployment">>}

=============================================================================
