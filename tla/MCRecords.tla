------------------------------- MODULE MCRecords -------------------------------
\* The record-keeping components of the API and the forms of the dashboard that
\* fill the records, on small instances, in one run.  They share no variable, so
\* a step of one leaves the others as they are and an invariant of one cannot see
\* another's steps: it is enough that in every behaviour one component, the one
\* `active`, leaves its initial state.
EXTENDS StudentServices, MobileDevices, Establishments, AdminInvitations,
        ContactRequests, DashboardForms, TLC

VARIABLE active

records == <<active, serviceVars, deviceVars, siteVars, invitationVars, enquiryVars, formVars>>

RecordsInit ==
    /\ active \in {"services", "devices", "sites", "invitations", "enquiries", "forms"}
    /\ DevicesInit /\ SitesInit /\ InvitationsInit /\ EnquiriesInit
    /\ ServicesInit /\ FormsInit
    /\ active # "services" =>
          (\A s, t \in Students : home[s] = home[t]) /\ \A i \in Rows : row[i] = NoRow
    /\ active # "forms" => form = "password" /\ saved = "x"

RecordsNext ==
    /\ UNCHANGED active
    /\ IF active = "services"    THEN ServicesNext    ELSE UNCHANGED serviceVars
    /\ IF active = "devices"     THEN DevicesNext     ELSE UNCHANGED deviceVars
    /\ IF active = "sites"       THEN SitesNext       ELSE UNCHANGED siteVars
    /\ IF active = "invitations" THEN InvitationsNext ELSE UNCHANGED invitationVars
    /\ IF active = "enquiries"   THEN EnquiriesNext   ELSE UNCHANGED enquiryVars
    /\ IF active = "forms"       THEN FormsNext       ELSE UNCHANGED formVars

RecordsSpec == RecordsInit /\ [][RecordsNext]_records

\* What the components hold, and what ties their variables together.
RecordsTypeOK ==
    /\ ServicesTypeOK /\ DevicesTypeOK /\ SitesTypeOK
    /\ InvitationsTypeOK /\ EnquiriesTypeOK /\ FormsTypeOK

Interchangeable ==
    UNION {Permutations(S) :
              S \in {Handlers, Universities, Students, Domains}}
=============================================================================
