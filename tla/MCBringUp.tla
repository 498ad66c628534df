------------------------------ MODULE MCBringUp ------------------------------
(* A test firewall with few interfaces.                                    *)
EXTENDS BringUp

Health(wan2, proximus, kea, ispFile) ==
    [kind |-> "health", wan2 |-> wan2, proximus |-> proximus, kea |-> kea, ispFile |-> ispFile,
     json |-> FALSE]
Catalog(json) == [Health(FALSE, FALSE, FALSE, FALSE) EXCEPT !.kind = "catalog", !.json = json]
SomeFlags == {Plain, Health(TRUE, FALSE, FALSE, TRUE), Health(FALSE, TRUE, FALSE, TRUE),
              Health(TRUE, TRUE, TRUE, FALSE), Catalog(FALSE), Catalog(TRUE)}
==============================================================================
