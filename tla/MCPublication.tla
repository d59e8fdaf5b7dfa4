---------------------------- MODULE MCPublication ----------------------------
(* One draft whose two sections number their citations independently.       *)
EXTENDS PublicationRun, TLC

Section(id, paper) ==
    [id |-> id, cites |-> "c1" :> paper, used |-> {"c1"}, grounds |-> {}, keeps |-> TRUE]

MCDrafts == -1 :> <<Section("introduction", "p"), Section("related_work", "q")>>

MCProfiles == -11 :> [required |-> {"introduction"}, order |-> <<>>]

MCFormats == <<"markdown", "latex">>

=============================================================================
