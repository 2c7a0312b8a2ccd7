SPECIFICATION Spec
CONSTANTS
    Deployer = deployer
    User = {deployer, alice}
    FlashLoan = flash_loan
    Proxy = proxy
    Arb = mock_arb
    Borrower = borrower
    FlashLoanUpper = FLASH_LOAN
    None = None
    ProxyChoice = {proxy, borrower, alice}
    Lent = 2
    Own = 1
    InitialBank <- MCInitialBank
INVARIANTS
    TypeOK
    LoansDoNotNest
PROPERTIES
    FundsSurviveLoans
    ImplementsAtomicLoan
