SPECIFICATION Spec
CONSTANTS
    Experts = {0, 1, 2}
    NSlots = 2
    Policy = "s3fifo"
    TopM = 1
    ReadsFail = TRUE
INVARIANT S3BooksAgree
