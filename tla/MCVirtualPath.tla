--------------------------- MODULE MCVirtualPath ---------------------------
EXTENDS VirtualPath

MCRestricted == {<<"a">>, <<"b", "a">>}

=============================================================================
