---------------------------- MODULE LeadStatuses ----------------------------
(* The statuses of a lead and the transitions between them (crm-shared.ts). *)

LeadTransitions ==
    [NEW |-> {"CONTACTED", "QUALIFIED", "LOST"},
     CONTACTED |-> {"QUALIFIED", "LOST"},
     QUALIFIED |-> {"TRIAL_BOOKED", "WON", "LOST"},
     TRIAL_BOOKED |-> {"TRIAL_COMPLETED", "QUALIFIED", "LOST"},
     TRIAL_COMPLETED |-> {"WON", "QUALIFIED", "LOST"},
     WON |-> {}, LOST |-> {}]

LeadStatus == DOMAIN LeadTransitions

=============================================================================
