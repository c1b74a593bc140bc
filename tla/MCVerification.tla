--------------------------- MODULE MCVerification ---------------------------
(* Two tenants who hold the same printed invoice, one of whom has another,   *)
(* and the same invoice once more in a legacy row without an owner; a        *)
(* deployment with both providers and OCR, and one with OCR and LLM alone.   *)
EXTENDS Verification, TLC

CONSTANTS alice, bob, nobody, scan1, scan2, scan3, legacy, k1, k2

MCOwner == [d \in {scan1, scan2, scan3, legacy} |->
               CASE d = scan3 -> bob [] d = legacy -> nobody [] OTHER -> alice]
MCKey == [d \in {scan1, scan2, scan3, legacy} |-> IF d = scan2 THEN k2 ELSE k1]
MCLimit == [r \in {"tax", "ocr", "llm"} |-> IF r = "tax" THEN 2 ELSE 1]
MCConfigs ==
    {[providers |-> {"piaozone", "kingdee"}, ocr |-> TRUE, llm |-> FALSE, ready |-> FALSE],
     [providers |-> {}, ocr |-> TRUE, llm |-> TRUE, ready |-> TRUE]}

TaskSymmetry == Permutations(Tasks)
=============================================================================
